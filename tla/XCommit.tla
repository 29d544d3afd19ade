------------------------------ MODULE XCommit -------------------------------
(***************************************************************************)
(* The commit path of xmemory::tryToCommit step by step: the cross-       *)
(* process lock (xplock, taken for the heap and then the globals; one     *)
(* lock here, as the two are always taken together), validation, and     *)
(* the loop of xpersist::commit that copies each dirtied page into the    *)
(* shared backing file and then stores its new version.  Other processes  *)
(* do not take the lock to read: the fault handler reads a page's version *)
(* and the retried load reads its contents, at any point of the loop.     *)
(*                                                                         *)
(* The processes run a client of loads, read-modify-write stores and     *)
(* transaction ends with no predecessor to wait for.                     *)
(***************************************************************************)
EXTENDS XMemory, Sequences

CONSTANTS
  MaxVersion,  \* bound: no page is committed more than MaxVersion times
  NoPid,       \* the lock is free
  NoPage       \* no page is half committed

VARIABLES
  acc,         \* acc[q]: the client's register
  lockHolder,  \* the process holding the region locks, or NoPid
  phase,       \* phase[q]: "run", "locked" (about to validate), "copy"
  todo,        \* todo[q]: dirtied pages the commit loop has not finished
  half,        \* half[q]: the page copied whose version is not yet stored
  contents,    \* history: contents[p][v + 1] is page p's contents at version v
  obs          \* history: loads of q in this transaction through a recorded
               \* read, as <<page, value loaded, version recorded>>

commitVars == <<acc, lockHolder, phase, todo, half, contents, obs>>
vars == <<memVars, commitVars>>

CommitTypeOK ==
  /\ MemTypeOK
  /\ acc \in [Procs -> Vals]
  /\ lockHolder \in Procs \cup {NoPid}
  /\ phase \in [Procs -> {"run", "locked", "copy"}]
  /\ todo \in [Procs -> SUBSET Pages]
  /\ half \in [Procs -> Pages \cup {NoPage}]
  /\ contents \in [Pages -> Seq(Vals)]
  /\ obs \in [Procs -> SUBSET (Pages \X Vals \X Nat)]

-----------------------------------------------------------------------------
(* The client, while its transaction runs.                                *)

\* A load of p completes once the page is readable.
Load(q, p) ==
  /\ phase[q] = "run"
  /\ prot[q][p] \in {ProtRead, ProtRW}
  /\ acc' = [acc EXCEPT ![q] = View(q, p)]
  /\ obs' = [obs EXCEPT ![q] =
               IF p \in readSet[q] /\ priv[q][p] = NoCopy
               THEN @ \cup {<<p, data[p], localVer[q][p]>>} ELSE @]
  /\ UNCHANGED <<persistVars, seen, lockHolder, phase, todo, half, contents>>

\* A store to p completes once the page is writable.
Store(q, p) ==
  /\ phase[q] = "run"
  /\ prot[q][p] = ProtRW
  /\ priv' = [priv EXCEPT ![q][p] = (acc[q] + 1) % K]
  /\ UNCHANGED <<data, ver, localVer, readSet, dirtied, prot, seen, commitVars>>

\* A load of an inaccessible page or a store to a read-only page traps
\* into xmemory::handle.  Stores are bounded by MaxVersion.
Fault(q, p) ==
  /\ phase[q] = "run"
  /\ \/ prot[q][p] = ProtNone
     \/ prot[q][p] = ProtRead /\ ver[p] < MaxVersion
  /\ HandleFault(q, p)
  /\ UNCHANGED <<data, ver, priv, commitVars>>

\* xrun::atomicBegin after the end of a transaction, with the client's
\* register restored from the checkpoint.
Restart(q) ==
  /\ MemBegin(q)
  /\ acc' = [acc EXCEPT ![q] = 0]
  /\ obs' = [obs EXCEPT ![q] = {}]
  /\ phase' = [phase EXCEPT ![q] = "run"]

-----------------------------------------------------------------------------
(* xrun::atomicCommit.                                                    *)

\* The null optimization: updateAll and begin again.
EndOptimized(q) ==
  /\ phase[q] = "run" /\ MemIsNop(q)
  /\ MemUpdateAll(q)
  /\ Restart(q)
  /\ UNCHANGED <<data, ver, localVer, lockHolder, todo, half, contents>>

\* xplock::xplock: a process-shared pthread mutex in a shared mapping of
\* a lock file, initialized unlocked.
LockInit == lockHolder = NoPid

\* xplock::unlock: pthread_mutex_unlock of the shared mutex.
Unlock == lockHolder' = NoPid

\* xmemory::lock: xplock::lock of the heap, then of the globals (a
\* process-shared pthread mutex; the caller blocks until it is free).
Acquire(q) ==
  /\ phase[q] = "run" /\ ~MemIsNop(q)
  /\ lockHolder = NoPid
  /\ lockHolder' = q
  /\ phase' = [phase EXCEPT ![q] = "locked"]
  /\ UNCHANGED <<memVars, acc, todo, half, contents, obs>>

\* consistent() of both regions under the lock.  If it holds, the commit
\* loop starts over the dirtied pages; if not, tryToCommit unlocks and
\* xrun::abort reverts memory and restarts the transaction.
Validate(q) ==
  /\ phase[q] = "locked"
  /\ IF Consistent(q)
     THEN /\ phase' = [phase EXCEPT ![q] = "copy"]
          /\ todo' = [todo EXCEPT ![q] = dirtied[q]]
          /\ UNCHANGED <<memVars, acc, lockHolder, obs>>
     ELSE /\ Unlock
          /\ MemAbort(q)
          /\ Restart(q)
          /\ UNCHANGED <<data, ver, localVer, todo>>
  /\ UNCHANGED <<half, contents>>

\* One step of the loop of xpersist::commit on page p: memcpy the private
\* page into the backing file.
CopyPage(q, p) ==
  /\ data' = [data EXCEPT ![p] = View(q, p)]
  /\ half' = [half EXCEPT ![q] = p]

\* The next step on the same page: store the local version plus one as
\* the persistent version.
StoreVersion(q, p) ==
  /\ ver' = [ver EXCEPT ![p] = localVer[q][p] + 1]
  /\ contents' = [contents EXCEPT ![p] = Append(@, View(q, p))]
  /\ todo' = [todo EXCEPT ![q] = @ \ {p}]

\* Variant of FinishCommit that returns without unlocking.
FinishCommitKeepLock(q) ==
  /\ phase[q] = "copy" /\ todo[q] = {} /\ half[q] = NoPage
  /\ UpdatePages(q)
  /\ UNCHANGED lockHolder
  /\ Restart(q)
  /\ UNCHANGED <<data, ver, localVer, todo, half, contents>>

\* Variant of CommitPage that stores the version before copying the page.
CommitPageVersionFirst(q) ==
  /\ phase[q] = "copy"
  /\ \/ /\ half[q] = NoPage
        /\ \E p \in todo[q] :
             /\ StoreVersion(q, p)
             /\ half' = [half EXCEPT ![q] = p]
        /\ UNCHANGED data
     \/ /\ half[q] # NoPage
        /\ data' = [data EXCEPT ![half[q]] = View(q, half[q])]
        /\ half' = [half EXCEPT ![q] = NoPage]
        /\ UNCHANGED <<ver, contents, todo>>
  /\ UNCHANGED <<localVer, readSet, dirtied, prot, priv, seen, acc, lockHolder,
                 phase, obs>>

\* The loop body of xpersist::commit, one store at a time: the page copy,
\* then its version.  std::set iterates in page order; any order is
\* allowed here.
CommitPage(q) ==
  /\ phase[q] = "copy"
  /\ \/ /\ half[q] = NoPage
        /\ \E p \in todo[q] : CopyPage(q, p)
        /\ UNCHANGED <<ver, contents, todo>>
     \/ /\ half[q] # NoPage
        /\ StoreVersion(q, half[q])
        /\ half' = [half EXCEPT ![q] = NoPage]
        /\ UNCHANGED data
  /\ UNCHANGED <<localVer, readSet, dirtied, prot, priv, seen, acc, lockHolder,
                 phase, obs>>

\* The end of xpersist::commit: updatePage on every dirtied page
\* (MADV_DONTNEED and PROT_NONE); then tryToCommit unlocks, and atomicEnd
\* returns SUCCEEDED to a caller that begins a new transaction.
FinishCommit(q) ==
  /\ phase[q] = "copy" /\ todo[q] = {} /\ half[q] = NoPage
  /\ UpdatePages(q)
  /\ Unlock
  /\ Restart(q)
  /\ UNCHANGED <<data, ver, localVer, todo, half, contents>>

-----------------------------------------------------------------------------

CommitInit ==
  /\ PersistInit
  /\ seen = [q \in Procs |-> {}]
  /\ acc = [q \in Procs |-> 0]
  /\ LockInit
  /\ phase = [q \in Procs |-> "run"]
  /\ todo = [q \in Procs |-> {}]
  /\ half = [q \in Procs |-> NoPage]
  /\ contents = [p \in Pages |-> <<0>>]
  /\ obs = [q \in Procs |-> {}]

CommitNext ==
  \E q \in Procs :
    \/ \E p \in Pages : Load(q, p) \/ Store(q, p) \/ Fault(q, p)
    \/ EndOptimized(q) \/ Acquire(q) \/ Validate(q)
    \/ CommitPage(q) \/ FinishCommit(q)

CommitSpec == CommitInit /\ [][CommitNext]_vars


-----------------------------------------------------------------------------
(* Properties.                                                             *)

\* The contents page p had at version v.
Contents(p, v) == contents[p][v + 1]

(* A page q can store to without a fault is in q's dirtied set, so the   *)
(* next commit copies it back: the fault handler grants PROT_WRITE only  *)
(* with recordWrite, and the end of xpersist::commit must take the       *)
(* write right away again (updatePage) before begin clears the dirtied  *)
(* set.  A page left writable across the boundary would be stored to in *)
(* the next transaction and never committed.                              *)
NoUntrackedWrite ==
  \A q \in Procs, p \in Pages : prot[q][p] = ProtRW => p \in dirtied[q]

(* Validation is sound for the loads it tracks, although the fault        *)
(* handler reads versions and the retried load reads contents without the *)
(* lock, while another process is in the middle of xpersist::commit: when *)
(* a process passes consistent(), every load it made from the shared file *)
(* through a recorded read returned the contents of the version that the  *)
(* handler recorded.  This rests on commit copying a page before it       *)
(* stores the page's new version.                                         *)
ReadsMatchVersion ==
  \A q \in Procs :
    phase[q] = "copy" =>
      \A o \in obs[q] : o[3] < Len(contents[o[1]]) /\ Contents(o[1], o[3]) = o[2]

(* The cross-process lock is held exactly while a process is inside     *)
(* tryToCommit, from xmemory::lock to unlock: it leaves through unlock on *)
(* both paths, the failed validation and the end of the commit loop.  A   *)
(* process back in its transaction holding the lock would block every     *)
(* other process's commit, and its own next one, for ever.                *)
LockHeldInCommit ==
  \A q \in Procs : lockHolder = q <=> phase[q] \in {"locked", "copy"}

=============================================================================
