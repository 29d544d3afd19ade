------------------------------ MODULE XMemory -------------------------------
(***************************************************************************)
(* The memory space of one Grace process (class xmemory,                  *)
(* src/src/include/xmemory.h): the regions of XPersist, the set of pages  *)
(* touched in the current transaction (_pages) and the SIGSEGV handler    *)
(* that classifies the first fault on a page as a read and the second as  *)
(* a write.                                                                *)
(*                                                                         *)
(* XCommit runs this façade under a client of its own; XRun drives it   *)
(* from the transaction coordinator.                                      *)
(***************************************************************************)
EXTENDS XPersist

VARIABLE seen   \* seen[q]: xmemory::_pages, pages touched in this transaction

memVars == <<persistVars, seen>>

MemTypeOK ==
  /\ PersistTypeOK
  /\ seen \in [Procs -> SUBSET Pages]

(***************************************************************************)
(* xmemory::handle for a fault with si_code SEGV_ACCERR on page p.  A     *)
(* page not yet seen in this transaction is made read-only and recorded  *)
(* as a read; a page already seen is made read-write and recorded as a    *)
(* write.  The handler does not know whether the access was a load or a   *)
(* store: the classification rests only on _pages.                       *)
(***************************************************************************)
HandleFault(q, p) ==
  IF p \notin seen[q]
  THEN /\ seen' = [seen EXCEPT ![q] = @ \cup {p}]
       /\ prot' = [prot EXCEPT ![q][p] = ProtRead]
       /\ RecordRead(q, p)
       /\ UNCHANGED dirtied
  ELSE /\ prot' = [prot EXCEPT ![q][p] = ProtRW]
       /\ RecordWrite(q, p)
       /\ UNCHANGED <<seen, localVer>>

\* xmemory::begin (called by xrun::atomicBegin): clear _pages, then begin
\* both regions.
MemBegin(q) ==
  /\ seen' = [seen EXCEPT ![q] = {}]
  /\ PersistBegin(q)

\* xmemory::tryToCommit when it succeeds: under both locks, both regions
\* are consistent, and both are committed.
TryToCommitOK(q) ==
  /\ Consistent(q)
  /\ PersistCommit(q)

\* xmemory::isNop: neither region was read or written in this
\* transaction (nop() of the heap and of the globals, whose pages are
\* together Pages).
MemIsNop(q) == IsNop(q)

\* xmemory::updateAll: both regions drop their private frames and are
\* remapped PROT_NONE.
MemUpdateAll(q) == UpdateAll(q)

\* xmemory::isConsistent: lock, consistent() of the heap and of the
\* globals, unlock; no other commit can interleave, so one step.
IsConsistent(q) == Consistent(q)

\* xmemory::abort: both regions revert to the shared versions.
MemAbort(q) == UpdateAll(q)

=============================================================================
