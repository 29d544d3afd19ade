------------------------------ MODULE MC_XHeap ------------------------------
(* Instances of XHeap for TLC: a page of 64 bytes stands for 4096, so that *)
(* a few allocations reach a page boundary.                                *)
EXTENDS XHeap

CONSTANTS m, a

MCProcs == {m, a}

\* Class sizes below a page less a header: NewSourceHeap's plain path.
SmallSizes == {8, 16}

\* With the class of a whole page: its enlarged path.
AllSizes == {8, 16, 64}

=============================================================================
