------------------------------- MODULE MC_XRun -------------------------------
(* Model-checking instances of XRun: four logical threads, two pages and *)
(* one condition.                                                          *)
EXTENDS XRun

CONSTANTS m, a, b, d, x, y, cv

MCThreads == {m, a, b, d}
MCPages == {x, y}
MCCVs == {cv}

R(p) == [op |-> "read", page |-> p]
W(p) == [op |-> "write", page |-> p]
Sp(t) == [op |-> "spawn", child |-> t]
Sy(t) == [op |-> "sync", child |-> t, dest |-> "stack"]
SyTo(t, p) == [op |-> "sync", child |-> t, dest |-> p]
Wt(c) == [op |-> "wait", cv |-> c]
Sig(c) == [op |-> "signal", cv |-> c]
Ex == [op |-> "exit"]
Pr == [op |-> "print"]
Io == [op |-> "io"]
Lk == [op |-> "lock"]

(* main forks a and b with a null section between the forks, so b       *)
(* inherits a as its predecessor while main later syncs a; b reads the   *)
(* page a writes; b runs at nesting level 1 = log(2) and so calls d in   *)
(* process, joining it into x (a store of b's running section).  main   *)
(* waits on cv, which a signals after its write, and its last section    *)
(* writes x after reading it.  d prints from b's process.                 *)
(* a takes a mutex before its write: Grace's pthread_mutex_lock is a    *)
(* no-op.                                                                 *)
ProgForks ==
  [t \in MCThreads |->
     CASE t = m -> <<W(x), Sp(a), Sp(b), Wt(cv), Sy(a), R(x), Sy(b), R(y),
                     W(x)>>
       [] t = a -> <<Lk, W(x), Sig(cv)>>
       [] t = b -> <<R(x), W(y), Sp(d), SyTo(d, x)>>
       [] t = d -> <<R(y), W(y), Pr>>]

(* main reads x in a section that commits, then forks a, which writes x,  *)
(* and reads x again in its next section.                                *)
ProgReread ==
  [t \in MCThreads |->
     CASE t = m -> <<R(x), Sp(a), R(x), W(y), Sy(a)>>
       [] t = a -> <<W(x)>>
       [] OTHER -> <<>>]

(* main forks a, then writes x and prints in a section that waits for a, *)
(* and calls pthread_exit; a reads x and writes y.                       *)
ProgMainExit ==
  [t \in MCThreads |->
     CASE t = m -> <<Sp(a), W(x), Pr, Ex>>
       [] t = a -> <<R(x), W(y)>>
       [] OTHER -> <<>>]

(* main forks a, which waits on cv; main then writes x and signals cv.    *)
ProgCondWait ==
  [t \in MCThreads |->
     CASE t = m -> <<Sp(a), W(x), Sig(cv)>>
       [] t = a -> <<Wt(cv)>>
       [] OTHER -> <<>>]

(* main forks a, and both print a line.                                   *)
ProgPrint ==
  [t \in MCThreads |->
     CASE t = m -> <<Sp(a), Pr>>
       [] t = a -> <<Pr>>
       [] OTHER -> <<>>]

(* main forks a and joins it; a writes x and calls pthread_exit.          *)
ProgExit ==
  [t \in MCThreads |->
     CASE t = m -> <<Sp(a), Sy(a)>>
       [] t = a -> <<W(x), Ex>>
       [] OTHER -> <<>>]
(* main reads y, calls the I/O interface and writes y, then forks a and  *)
(* b with nothing between, so b's predecessor is a and main's is b.  Both *)
(* children read x, call the I/O interface and write pages the other     *)
(* reads.  main joins a only: its section since the spawn of b is empty,  *)
(* so the join ends OPTIMIZED without waiting for b, and main calls       *)
(* pthread_exit while b may still run.                                    *)
ProgIrrev ==
  [t \in MCThreads |->
     CASE t = m -> <<R(y), Io, W(y), Sp(a), Sp(b), Sy(a), Ex>>
       [] t = a -> <<R(x), W(x), Io, W(y)>>
       [] t = b -> <<R(x), Io, W(x)>>
       [] OTHER -> <<>>]

(* main writes x and forks a, which reads x; main joins a with the result *)
(* going to y (pthread_join(a, &y) for a global y), then runs to its end. *)
ProgJoinTo ==
  [t \in MCThreads |->
     CASE t = m -> <<W(x), Sp(a), SyTo(a, y)>>
       [] t = a -> <<R(x)>>
       [] OTHER -> <<>>]
==============================================================================
