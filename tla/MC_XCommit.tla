---------------------------- MODULE MC_XCommit ----------------------------
(* Two processes sharing two pages.  Processes are interchangeable in     *)
(* CommitSpec and so are pages, so both are symmetry sets.                *)
EXTENDS XCommit, TLC

CONSTANTS p1, p2, x, y

MCProcs == {p1, p2}
MCPages == {x, y}
MCSymmetry == Permutations(MCProcs) \cup Permutations(MCPages)
===========================================================================
