------------------------------- MODULE XDiffs -------------------------------
(***************************************************************************)
(* The page-diff routine of src/src/testdiffs.cpp: writeDiffs merges the  *)
(* bytes in which a page (local) differs from its twin into a destination *)
(* page, sixteen bytes at a time with SSE: a bytewise compare, an XOR     *)
(* with all ones, and a masked store that writes the bytes whose mask has *)
(* its high bit set.  naiveWriteDiffs is the byte loop it replaces, and  *)
(* the comment above writeDiffs states what both must do.                *)
(*                                                                         *)
(* The page is PageBytes bytes in chunks of ChunkBytes (4096 and 16 in    *)
(* the code); a byte is a number in 0 .. 255.  main applies writeDiffs    *)
(* to the same page over and over; the model does so Rounds times.        *)
(***************************************************************************)
EXTENDS Naturals, Bitwise

CONSTANTS
  PageBytes,   \* PAGE_SIZE
  ChunkBytes,  \* sizeof(__m128i)
  LaneBytes,   \* sizeof(int), the lane of _mm_cmpeq_epi32
  Vals,        \* the byte values the pages hold
  Rounds       \* bound: how many times main applies writeDiffs

Bytes == 0 .. PageBytes - 1
NChunks == PageBytes \div ChunkBytes

VARIABLES
  local,   \* the page as the transaction wrote it
  twin,    \* its copy from the start of the transaction
  dest,    \* the destination page
  orig,    \* history: dest before the first writeDiffs
  round    \* how many times writeDiffs has run

vars == <<local, twin, dest, orig, round>>

DiffsTypeOK ==
  /\ local \in [Bytes -> Vals] /\ twin \in [Bytes -> Vals]
  /\ dest \in [Bytes -> Vals] /\ orig \in [Bytes -> Vals]
  /\ round \in 0 .. Rounds

-----------------------------------------------------------------------------

\* _mm_cmpeq_epi32 of zero with itself: every byte 0xFF.
AllOnes == 255

\* Variant of EqMask that compares whole 32-bit lanes, as
\* _mm_cmpeq_epi32 does: byte k is 0xFF iff every byte of its lane is
\* equal in the two chunks.
EqMaskLane(lc, tc, k) ==
  LET lane == (k \div LaneBytes) * LaneBytes
  IN  IF \A j \in lane .. lane + LaneBytes - 1 : lc[j] = tc[j] THEN 255 ELSE 0

\* _mm_cmpeq_epi8 of two chunks, byte k: 0xFF if equal, 0 if not.
EqMask(lc, tc, k) == IF lc[k] = tc[k] THEN 255 ELSE 0

\* The chunk of a page starting at byte b.
ChunkAt(p, b) == [k \in 0 .. ChunkBytes - 1 |-> p[b + k]]

\* Variant of MoveChunk that passes the mask as the data to store too.
MoveChunkStoreMask(i, d) ==
  LET b == i * ChunkBytes
      neq(k) == AllOnes ^^ EqMask(ChunkAt(local, b), ChunkAt(twin, b), k)
  IN  [x \in Bytes |->
         IF x \in b .. b + ChunkBytes - 1 /\ shiftR(neq(x - b), 7) % 2 = 1
         THEN neq(x - b) ELSE d[x]]

\* One iteration of writeDiffs' loop on chunk i: load both chunks, compare,
\* invert with _mm_xor_si128, and _mm_maskmoveu_si128 the local chunk into
\* d where the mask byte's high bit is set.
MoveChunk(i, d) ==
  LET b == i * ChunkBytes
      lc == ChunkAt(local, b)
      tc == ChunkAt(twin, b)
      neq(k) == AllOnes ^^ EqMask(lc, tc, k)
  IN  [x \in Bytes |->
         IF x \in b .. b + ChunkBytes - 1 /\ shiftR(neq(x - b), 7) % 2 = 1
         THEN local[x] ELSE d[x]]

\* writeDiffs: the loop over the chunks of the page, in order.
RECURSIVE WriteDiffsFrom(_, _)
WriteDiffsFrom(i, d) ==
  IF i = NChunks THEN d ELSE WriteDiffsFrom(i + 1, MoveChunk(i, d))

WriteDiffs(d) == WriteDiffsFrom(0, d)

\* naiveWriteDiffs: the byte loop.
NaiveWriteDiffs(l, t, d) == [x \in Bytes |-> IF l[x] # t[x] THEN l[x] ELSE d[x]]

\* main: local and twin all ' ', dest all '_', with local[4] = 'Z',
\* local[4095] = 'Q' and dest[4] = dest[4095] = 'A' in the code; here any
\* three pages of values from Vals.
DiffsInit ==
  /\ local \in [Bytes -> Vals]
  /\ twin \in [Bytes -> Vals]
  /\ dest \in [Bytes -> Vals]
  /\ orig = dest
  /\ round = 0

\* One call of writeDiffs on the page in main's loop.
Apply ==
  /\ round < Rounds
  /\ dest' = WriteDiffs(dest)
  /\ round' = round + 1
  /\ UNCHANGED <<local, twin, orig>>

DiffsSpec == DiffsInit /\ [][Apply]_vars

-----------------------------------------------------------------------------

(* After any number of calls, the SSE writeDiffs has left the destination *)
(* page exactly as one call of naiveWriteDiffs would: a byte differing    *)
(* between local and twin is local's, every other byte is the original.  *)
(* This needs the compare to be bytewise and the mask's high bit set on  *)
(* exactly the differing bytes of every chunk.                            *)
MatchesNaive ==
  round > 0 => dest = NaiveWriteDiffs(local, twin, orig)

=============================================================================
