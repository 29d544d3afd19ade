---------------------------- MODULE SerialMemory ----------------------------
(***************************************************************************)
(* What Grace promises of its shared memory, abstractly: the heap and     *)
(* globals move only through the states that the serial elision of the   *)
(* program passes through, and only forward.  Snap[i] is the memory of   *)
(* the serial execution just before its i-th step.  Several steps may be *)
(* taken at once: a commit publishes a whole section.                     *)
(***************************************************************************)
EXTENDS Naturals, Sequences

CONSTANT Snap

VARIABLES
  mem,   \* the committed contents of the shared memory
  pos    \* the serial step whose memory mem is

vars == <<mem, pos>>

Init ==
  /\ pos = 1
  /\ mem = Snap[1]

\* Publish the effect of the serial steps from pos up to j.
Publish(j) ==
  /\ pos' = j
  /\ mem' = Snap[j]

Next == \E j \in (pos + 1) .. Len(Snap) : Publish(j)

Spec == Init /\ [][Next]_vars

=============================================================================
