------------------------------ MODULE MC_XThread ------------------------------
(* main forks a and joins it; a forks b and returns without joining it,  *)
(* so a's exit waits in waitPred for b; then main forks c and joins it.  *)
(* Once a has exited, init reaps b and b's pid is free again.            *)
EXTENDS XThread

CONSTANTS m, a, b, c

MCThreads == {m, a, b, c}

W == [op |-> "work"]
Sp(t) == [op |-> "spawn", child |-> t]
Sy(t) == [op |-> "sync", child |-> t]

ProgReuse ==
  [t \in MCThreads |->
     CASE t = m -> <<Sp(a), Sy(a), Sp(c), Sy(c)>>
       [] t = a -> <<Sp(b)>>
       [] t = b -> <<W>>
       [] t = c -> <<W>>]
==============================================================================
