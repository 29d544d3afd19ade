------------------------------- MODULE XHeap --------------------------------
(***************************************************************************)
(* Grace's heap (class graceheap, src/src/include/graceheap.h): a bump    *)
(* allocator (bumpheap, src/src/bumpheap.h) over the versioned heap       *)
(* region, reached through xoneheap (src/src/include/xoneheap.h), under   *)
(* sixteen Kingsley heaps (PPHeap, src/src/ppheap.h) whose zones and     *)
(* large objects take their memory from the bump allocator through       *)
(* NewSourceHeap (src/src/include/warpheap.h).  PPHeap picks a heap by    *)
(* pthread_self() & 15, and libgrace's pthread_self returns graceid(),   *)
(* the process's pid.  Every Kingsley heap gets its memory from the same  *)
(* bump allocator, which is all the model follows.                       *)
(*                                                                         *)
(* The Kingsley heaps live inside the versioned heap: their metadata is   *)
(* page data that transactions read, write, validate and commit.  The     *)
(* bump allocator object lives in xoneheap::getHeap's static buffer,      *)
(* with the rest of the runtime library's state (xrun, _pred): fork       *)
(* copies it, and neither commit nor abort touches it.                    *)
(*                                                                         *)
(* The model follows the path of a malloc whose size class has an empty  *)
(* free list: StrictSegHeap's little heap, NewSourceHeap over xoneheap,    *)
(* and bumpheap::malloc.  The object header that NewSourceHeap writes is  *)
(* a store to a page of the heap region, tracked and validated like any  *)
(* other.  Frees, the free lists and the zone of the largest classes are  *)
(* not modelled.                                                          *)
(***************************************************************************)
EXTENDS Naturals, FiniteSets

CONSTANTS
  Procs,       \* processes (pids)
  Main,        \* the process running main()
  PageSize,    \* xdefines::PageSize, the 4096 of NewSourceHeap
  HeaderSize,  \* sizeof(objectHeader): a size_t and a magic word
  HeapSize,    \* bumpheap's Size, counted from the start of the heap region
  MetaSize,    \* what the bump allocator hands out before any malloc: the
               \* PerThreadHeap object that xadaptheap places in the region
  Sizes,       \* sizes passed to NewSourceHeap::malloc (Kingsley class sizes)
  NoRead,      \* a page not touched in the current section
  NoCopy,      \* no realloc has copied yet
  NoPred       \* xrun::_pred of 0: no predecessor to wait for

\* Addresses are offsets from the start of the heap region, which mmap
\* aligns to a page.
Addrs == 0 .. HeapSize
Pages == 0 .. (HeapSize - 1) \div PageSize
PageOf(a) == a \div PageSize

\* x & ~(a - 1), for a power of two a.
AlignDown(x, a) == x - (x % a)

\* bumpheap::malloc's rounding: at least sizeof(double), then up to a
\* multiple of sizeof(double).
BumpRound(sz) == AlignDown((IF sz < 8 THEN 8 ELSE sz) + 7, 8)

\* NewSourceHeap::malloc with ALIGN_TO_PAGE: a request of at least a page
\* less a header is enlarged by a page ...
Big(sz) == sz >= PageSize - HeaderSize
Enlarged(sz) == IF Big(sz) THEN sz + PageSize ELSE sz

\* ... and its header is moved to just below the next page boundary at or
\* above the block b the source returned.
HeaderAt(b, sz) ==
  IF Big(sz) THEN AlignDown(b + PageSize - 1, PageSize) - HeaderSize ELSE b

\* The bump allocator's block for NewSourceHeap's request of sz bytes.
BlockSize(sz) == BumpRound(Enlarged(sz) + HeaderSize)

\* An object: its source block [blk, blk + len), its header hdr and the
\* sz bytes the caller asked for after the header.
Object(b, sz) ==
  [blk |-> b, len |-> BlockSize(sz), hdr |-> HeaderAt(b, sz), sz |-> sz]

VARIABLES
  live,        \* live[q]: "idle" (not forked yet), "run" or "done"
  position,    \* position[q]: bumpheap::_position in q's copy
  remaining,   \* remaining[q]: bumpheap::_remaining in q's copy
  pver,        \* pver[g]: the persistent version of heap page g
  touched,     \* touched[q][g]: the version q recorded for g, or NoRead
  written,     \* written[q]: the pages q stored to in its current section
  pending,     \* pending[q]: objects q allocated in its current section
  owned,       \* history: objects of committed sections
  copied,      \* realloc's last copy, as [from, to, n], or NoCopy
  pred         \* pred[q]: xrun::_pred in q's copy, or NoPred

vars == <<live, position, remaining, pver, touched, written, pending, owned,
          copied, pred>>

Objects == {Object(b, sz) : b \in Addrs, sz \in Sizes}

HeapTypeOK ==
  /\ live \in [Procs -> {"idle", "run", "done"}]
  /\ position \in [Procs -> Addrs]
  /\ remaining \in [Procs -> Addrs]
  /\ pver \in [Pages -> Nat]
  /\ touched \in [Procs -> [Pages -> Nat \cup {NoRead}]]
  /\ pending \in [Procs -> SUBSET Objects]
  /\ written \in [Procs -> SUBSET Pages]
  /\ owned \in SUBSET Objects
  /\ copied \in [from : Objects, to : Objects, n : Nat] \cup {NoCopy}
  /\ pred \in [Procs -> Procs \cup {NoPred}]

-----------------------------------------------------------------------------
(* Steps of a process.                                                    *)

\* No section of q has touched the heap since its last begin.
Untouched(q) == \A g \in Pages : touched[q][g] = NoRead

\* The first byte after o's header: NewSourceHeap::getPointer.
Body(o) == o.hdr + HeaderSize

\* The heap pages that hold some of the n bytes from address x.
PagesOf(x, n) == {g \in Pages : \E y \in x .. (x + n - 1) : PageOf(y) = g}

\* Loads from the pages rd and stores to the pages wr in q's section: the
\* first fault of the section on a page records its version.
Access(q, rd, wr) ==
  /\ touched' = [touched EXCEPT ![q] =
                   [g \in Pages |-> IF g \in rd \cup wr /\ @[g] = NoRead
                                    THEN pver[g] ELSE @[g]]]
  /\ written' = [written EXCEPT ![q] = @ \cup wr]

\* The stores of a malloc that returns o: NewSourceHeap's header and then
\* xmemory::malloc's 0 into the object's first byte, which is on the next
\* page when the header ends at a page boundary.
StoreObject(q, o) == Access(q, {}, {PageOf(o.hdr), PageOf(Body(o))})

\* xrun::waitPred returns: q has no predecessor, or it has exited.
PredDone(q) == pred[q] \in {NoPred} \cup {p \in Procs : live[p] = "done"}

\* Variant of Malloc that does not check _remaining.
MallocUnchecked(q, sz) ==
  /\ live[q] = "run"
  /\ LET n == BlockSize(sz)
         o == Object(position[q], sz)
     IN /\ position' = [position EXCEPT ![q] = @ + n]
        /\ remaining' = [remaining EXCEPT ![q] = @ - n]
        /\ pending' = [pending EXCEPT ![q] = @ \cup {o}]
        /\ StoreObject(q, o)
  /\ UNCHANGED <<live, pver, owned, copied, pred>>

\* malloc(sz) reaching NewSourceHeap::malloc in q.  bumpheap::malloc
\* returns NULL when fewer than the rounded bytes remain, and so does
\* malloc.  Otherwise it returns the bump pointer and advances it, and
\* the object's stores fault on their pages.
Malloc(q, sz) ==
  /\ live[q] = "run"
  /\ LET n == BlockSize(sz)
         o == Object(position[q], sz)
     IN IF remaining[q] < n
        THEN UNCHANGED <<position, remaining, touched, written, pending>>
        ELSE /\ position' = [position EXCEPT ![q] = @ + n]
             /\ remaining' = [remaining EXCEPT ![q] = @ - n]
             /\ pending' = [pending EXCEPT ![q] = @ \cup {o}]
             /\ StoreObject(q, o)
  /\ UNCHANGED <<live, pver, owned, copied, pred>>

\* NewSourceHeap::getSize, which malloc_usable_size and realloc reach
\* through xmemory::getSize: the size the object's header records, which
\* for a request of a page is the enlarged one.
GetSize(o) == Enlarged(o.sz)

\* realloc's copy length: min(getSize(ptr), sz).
CopyLen(o, sz) == IF GetSize(o) < sz THEN GetSize(o) ELSE sz

\* realloc(o, sz) in q, for a live object and a non-zero size: getSize
\* loads o's header; gracemalloc(sz) as in Malloc; if it returned an
\* object, memcpy of CopyLen bytes from o's memory into it.  gracefree(o)
\* follows on both paths; the free lists it updates are Heap Layers code
\* and not modelled.
Realloc(q, o, sz) ==
  /\ live[q] = "run"
  /\ o \in owned \cup pending[q]
  /\ LET n == BlockSize(sz)
         new == Object(position[q], sz)
         c == CopyLen(o, sz)
     IN IF remaining[q] < n
        THEN /\ Access(q, {PageOf(o.hdr)}, {})
             /\ UNCHANGED <<position, remaining, pending, copied>>
        ELSE /\ position' = [position EXCEPT ![q] = @ + n]
             /\ remaining' = [remaining EXCEPT ![q] = @ - n]
             /\ pending' = [pending EXCEPT ![q] = @ \cup {new}]
             /\ Access(q, {PageOf(o.hdr)} \cup PagesOf(Body(o), c),
                       {PageOf(new.hdr), PageOf(Body(new))}
                         \cup PagesOf(Body(new), c))
             /\ copied' = [from |-> o, to |-> new, n |-> c]
  /\ UNCHANGED <<live, pver, owned, pred>>

\* xrun::atomicEnd of a section that allocated: atomicCommit, the section
\* not being a nop, first waits for q's predecessor to exit; tryToCommit
\* then validates the versions recorded against the persistent ones under
\* the lock and, if they match, commits every written page with its
\* version plus one, the objects become part of the shared heap and
\* atomicEnd clears _pred.  If not, the section rolls back and its objects
\* are forgotten; the bump allocator and _pred, outside the versioned
\* memory, keep their values.
EndSection(q) ==
  /\ live[q] = "run"
  /\ ~Untouched(q)
  /\ PredDone(q)
  /\ IF \A g \in Pages : touched[q][g] \in {NoRead, pver[g]}
     THEN /\ pver' = [g \in Pages |->
                        IF g \in written[q] THEN pver[g] + 1 ELSE pver[g]]
          /\ owned' = owned \cup pending[q]
          /\ pred' = [pred EXCEPT ![q] = NoPred]
     ELSE UNCHANGED <<pver, owned, pred>>
  /\ pending' = [pending EXCEPT ![q] = {}]
  /\ touched' = [touched EXCEPT ![q] = [g \in Pages |-> NoRead]]
  /\ written' = [written EXCEPT ![q] = {}]
  /\ UNCHANGED <<live, position, remaining, copied>>

\* xthread::forkSpawn forking child c after the parent's section has
\* ended: the child's copy of the runtime library, bump allocator and
\* _pred included, is the parent's, and the parent's predecessor becomes
\* the child.
Fork(q, c) ==
  /\ live[q] = "run" /\ live[c] = "idle"
  /\ Untouched(q)
  /\ live' = [live EXCEPT ![c] = "run"]
  /\ position' = [position EXCEPT ![c] = position[q]]
  /\ remaining' = [remaining EXCEPT ![c] = remaining[q]]
  /\ pred' = [pred EXCEPT ![q] = c, ![c] = pred[q]]
  /\ UNCHANGED <<pver, touched, written, pending, owned, copied>>

\* A process exits after its last section has ended and waitPred has
\* returned: forkSpawn's child before setExited, xrun::finalize in main.
Exit(q) ==
  /\ live[q] = "run" /\ Untouched(q)
  /\ PredDone(q)
  /\ live' = [live EXCEPT ![q] = "done"]
  /\ UNCHANGED <<position, remaining, pver, touched, written, pending, owned,
                 copied, pred>>

\* After xrun::initialize and the construction of the heap: main runs,
\* and the bump allocator has handed out the PerThreadHeap.
HeapInit ==
  /\ live = [q \in Procs |-> IF q = Main THEN "run" ELSE "idle"]
  /\ position = [q \in Procs |-> MetaSize]
  /\ remaining = [q \in Procs |-> HeapSize - MetaSize]
  /\ pver = [g \in Pages |-> 0]
  /\ touched = [q \in Procs |-> [g \in Pages |-> NoRead]]
  /\ written = [q \in Procs |-> {}]
  /\ pending = [q \in Procs |-> {}]
  /\ owned = {}
  /\ copied = NoCopy
  /\ pred = [q \in Procs |-> NoPred]

HeapNext ==
  \E q \in Procs :
    \/ \E sz \in Sizes : Malloc(q, sz)
    \/ \E o \in owned \cup pending[q], sz \in Sizes : Realloc(q, o, sz)
    \/ EndSection(q) \/ Exit(q)
    \/ \E c \in Procs : Fork(q, c)

HeapSpec == HeapInit /\ [][HeapNext]_vars

-----------------------------------------------------------------------------
(* Properties.                                                             *)

\* The bytes an object occupies: its header and what the caller asked for.
Extent(o) == o.hdr .. (o.hdr + HeaderSize + o.sz - 1)

\* The block the bump allocator handed out for o.
Block(o) == o.blk .. (o.blk + o.len - 1)

(* Every object malloc returns, header included, lies in the block the    *)
(* bump allocator handed NewSourceHeap for it, whatever sequence of       *)
(* allocations placed that block: NewSourceHeap's enlargement and header  *)
(* placement for requests of a page, and bumpheap's rounding, must agree. *)
ObjectInBlock ==
  \A o \in owned \cup UNION {pending[q] : q \in Procs} :
    Extent(o) \subseteq Block(o)

(* No two objects of the shared heap overlap: malloc in one process never *)
(* returns memory that an object committed by any process, itself or      *)
(* another, occupies.  Each process's bump pointer is its own after fork  *)
(* and is not rolled back with a section; validation of the pages that    *)
(* the headers are written to is all that stands between two processes   *)
(* allocating the same address.                                           *)
NoAlias ==
  \A o1, o2 \in owned : o1 # o2 => Extent(o1) \cap Extent(o2) = {}

(* realloc's memcpy stays inside both blocks: it reads min(getSize(old), *)
(* sz) bytes after the old object's header and writes them after the new *)
(* one's.  getSize returns what NewSourceHeap's header recorded, so this  *)
(* rests on that size, the header placement and bumpheap's rounding      *)
(* agreeing, for every object a process can still reach, whoever         *)
(* allocated it.                                                          *)
ReallocInBlocks ==
  LET c == copied IN
  c # NoCopy =>
    /\ Body(c.from) .. (Body(c.from) + c.n - 1) \subseteq Block(c.from)
    /\ Body(c.to) .. (Body(c.to) + c.n - 1) \subseteq Block(c.to)

=============================================================================
