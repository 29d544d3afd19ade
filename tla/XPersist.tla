------------------------------ MODULE XPersist ------------------------------
(***************************************************************************)
(* The page-versioned persistent region of Grace (class xpersist,         *)
(* src/src/include/xpersist.h).  The heap and the globals are two         *)
(* instances of this class; they are only ever locked together around     *)
(* validate+commit (xmemory::tryToCommit), so the model treats their      *)
(* union as one set of Pages.                                              *)
(*                                                                         *)
(* Shared state (the MAP_SHARED backing file and version file):           *)
(*   data[p]  the committed contents of page p (a value of Vals)          *)
(*   ver[p]   the persistent version counter of page p                    *)
(* State private to each process q (copied by fork):                      *)
(*   localVer[q][p]  _localVersions, the version seen at the first read   *)
(*   readSet[q]      _read                                                 *)
(*   dirtied[q]      _dirtied                                              *)
(*   prot[q][p]      protection of page p in q's transient MAP_PRIVATE map *)
(*   priv[q][p]      q's private copy-on-write copy of p, or NoCopy        *)
(*                                                                         *)
(* The cross-process lock (xplock) is held across the whole of            *)
(* consistent() and commit(); both are therefore single atomic steps of   *)
(* the modules that use these operators.  Readers touch ver and data      *)
(* without the lock, as the code does: a version is read in the fault     *)
(* handler, the data when the faulting access is retried.                 *)
(*                                                                         *)
(* This module defines the state and the operations; XMemory and XRun     *)
(* build the specifications from them.                                    *)
(***************************************************************************)
EXTENDS Naturals, FiniteSets

CONSTANTS
  Procs,     \* processes that share the region (pids)
  Pages,     \* pages of the heap and globals regions
  K,         \* page contents are the values 0..K-1
  NoCopy     \* marker: the page has no private copy in this process

Vals == 0 .. (K - 1)

\* Protection of a page in a process's transient mapping.
ProtNone == "none"
ProtRead == "read"
ProtRW   == "rw"

VARIABLES data, ver, localVer, readSet, dirtied, prot, priv

persistVars == <<data, ver, localVer, readSet, dirtied, prot, priv>>

PersistTypeOK ==
  /\ data \in [Pages -> Vals]
  /\ ver \in [Pages -> Nat]
  /\ localVer \in [Procs -> [Pages -> Nat]]
  /\ readSet \in [Procs -> SUBSET Pages]
  /\ dirtied \in [Procs -> SUBSET Pages]
  /\ prot \in [Procs -> [Pages -> {ProtNone, ProtRead, ProtRW}]]
  /\ priv \in [Procs -> [Pages -> Vals \cup {NoCopy}]]

\* Variant of View that forgets the fallback to the page cache.
ViewPriv(q, p) == priv[q][p]

\* What an access of q to page p sees through the MAP_PRIVATE transient
\* mapping: its private copy once it has written the page, otherwise the
\* page cache of the backing file, i.e. the latest committed contents.
View(q, p) == IF priv[q][p] = NoCopy THEN data[p] ELSE priv[q][p]

\* xpersist::xpersist: the backing file and the version file are made with
\* mkstemp and ftruncate, so every version starts at 0; the globals'
\* initial contents are copied into the backing file from their start
\* address (the model's page contents start at 0).
ZeroPages == [p \in Pages |-> 0]

\* The state after xrun::initialize: the first transaction ended OPTIMIZED
\* and updateAll remapped both regions private with no access rights.
PersistInit ==
  /\ data = ZeroPages
  /\ ver = ZeroPages
  /\ localVer = [q \in Procs |-> [p \in Pages |-> 0]]
  /\ readSet = [q \in Procs |-> {}]
  /\ dirtied = [q \in Procs |-> {}]
  /\ prot = [q \in Procs |-> [p \in Pages |-> ProtNone]]
  /\ priv = [q \in Procs |-> [p \in Pages |-> NoCopy]]

\* xpersist::begin: clear the read and dirtied sets (protections are left
\* as they are).
PersistBegin(q) ==
  /\ readSet' = [readSet EXCEPT ![q] = {}]
  /\ dirtied' = [dirtied EXCEPT ![q] = {}]

\* xpersist::recordRead: snapshot the persistent version, add to _read.
RecordRead(q, p) ==
  /\ localVer' = [localVer EXCEPT ![q][p] = ver[p]]
  /\ readSet' = [readSet EXCEPT ![q] = @ \cup {p}]

\* xpersist::recordWrite: add to _dirtied and, "to be on the safe side",
\* to _read; the local version is not touched.
RecordWrite(q, p) ==
  /\ dirtied' = [dirtied EXCEPT ![q] = @ \cup {p}]
  /\ readSet' = [readSet EXCEPT ![q] = @ \cup {p}]

\* xpersist::nop: neither a read nor a write was recorded.
IsNop(q) == readSet[q] = {} /\ dirtied[q] = {}

\* xpersist::consistent: every page read still has the version that was
\* current when it was first read (version numbers only, no data compare).
Consistent(q) == \A p \in readSet[q] : ver[p] = localVer[q][p]

\* Variant of UpdatePages that drops the private frames but leaves the
\* pages' protection as it was.
UpdatePagesKeepProt(q) ==
  /\ priv' = [priv EXCEPT ![q] = [p \in Pages |->
                 IF p \in dirtied[q] THEN NoCopy ELSE priv[q][p]]]
  /\ UNCHANGED prot

\* xpersist::updatePage on every dirtied page, at the end of commit: drop
\* the private frame (madvise DONTNEED) and protect the page PROT_NONE.
\* Pages only read keep their protection.
UpdatePages(q) ==
  /\ prot' = [prot EXCEPT ![q] = [p \in Pages |->
                 IF p \in dirtied[q] THEN ProtNone ELSE prot[q][p]]]
  /\ priv' = [priv EXCEPT ![q] = [p \in Pages |->
                 IF p \in dirtied[q] THEN NoCopy ELSE priv[q][p]]]

\* xpersist::commit: copy every dirtied private page into the backing
\* file and set its persistent version to the local one plus one; then
\* updatePage on each.
PersistCommit(q) ==
  /\ data' = [p \in Pages |-> IF p \in dirtied[q] THEN View(q, p) ELSE data[p]]
  /\ ver' = [p \in Pages |-> IF p \in dirtied[q] THEN localVer[q][p] + 1
                                                 ELSE ver[p]]
  /\ UpdatePages(q)

\* xpersist::updateAll (also xpersist::abort): unmap the transient region
\* and map it again MAP_PRIVATE with PROT_NONE, discarding private copies.
UpdateAll(q) ==
  /\ prot' = [prot EXCEPT ![q] = [p \in Pages |-> ProtNone]]
  /\ priv' = [priv EXCEPT ![q] = [p \in Pages |-> NoCopy]]

=============================================================================
