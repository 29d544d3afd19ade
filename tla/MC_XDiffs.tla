------------------------------ MODULE MC_XDiffs ------------------------------
(* A page of four bytes in two chunks of two, with two-byte lanes for the *)
(* 32-bit compare: the same shape as 4096 bytes, 16-byte chunks and       *)
(* 4-byte lanes, where a lane holds more than one byte and a page more    *)
(* than one chunk.  The values are ' ' and 'Z'.                           *)
EXTENDS XDiffs

MCVals == {32, 90}
==============================================================================
