-------------------------------- MODULE XIO ---------------------------------
(***************************************************************************)
(* Grace's buffered I/O (class xio, src/src/include/xio.h, over xfile,    *)
(* src/src/include/xfile.h), as xrun reaches it: open, close, write,      *)
(* read and lseek first call xrun::ensureIrrevocable, and atomicCommit    *)
(* calls xio::commit after a commit that SUCCEEDED.                        *)
(*                                                                         *)
(* The xio object is a member of the xrun singleton, in the runtime      *)
(* library's own memory: it is private to each process, copied by fork   *)
(* with the file descriptor table, and neither committed nor rolled back. *)
(* write() copies the caller's bytes into a section of the file's list;  *)
(* xio::commit writes every section with the real write(2), then closes  *)
(* the files marked closed.                                                *)
(*                                                                         *)
(* Each process runs a fixed program of I/O calls, stores to tracked     *)
(* memory (which make its section a non-null one), punctuations and      *)
(* forks.  A datum is the pair <<process, program counter>> of the write *)
(* that buffered it.  Page versions and the predecessor chain are not    *)
(* modelled here (see XRun); aborts are left out because an abort has no *)
(* effect on xio: the first I/O call of a section is the only place the  *)
(* section can abort once it has made one (ensureIrrevocable waits for   *)
(* the predecessor chain), and before it the section has buffered        *)
(* nothing.                                                               *)
(***************************************************************************)
EXTENDS Naturals, Sequences, FiniteSets

CONSTANTS
  Procs,      \* processes
  Main,       \* the process running main()
  Fds,        \* file descriptors
  StdFds,     \* descriptors open at startup, never opened through xio
  NoFd,       \* -1, what a failed open(2) returns
  Prog,       \* Prog[q]: the calls q makes, in order
  AssertsOn   \* whether the library is built with assert() enabled

VARIABLES
  live,    \* live[q]: "idle" (not forked yet), "run", "done" or "crashed"
  pc,      \* pc[q]: index of q's next call in Prog[q]
  files,   \* files[q]: xio::_filelist of q, a sequence of xfile records
  kfds,    \* kfds[q]: the descriptors open in q's kernel table
  dirty,   \* dirty[q]: q's current section stored to tracked memory
  out,     \* out[f]: the data written with write(2) to the file of f, in order
  issued   \* history: <<datum, fd>> for every write() that returned count

vars == <<live, pc, files, kfds, dirty, out, issued>>

Data == Procs \X Nat
FileRec == [fd : Fds, closed : BOOLEAN, sects : Seq(Data)]

IOTypeOK ==
  /\ live \in [Procs -> {"idle", "run", "done", "crashed"}]
  /\ pc \in [Procs -> Nat \ {0}]
  /\ files \in [Procs -> Seq(FileRec)]
  /\ kfds \in [Procs -> SUBSET Fds]
  /\ dirty \in [Procs -> BOOLEAN]
  /\ out \in [Fds -> Seq(Data)]
  /\ issued \in SUBSET (Data \X Fds)

-----------------------------------------------------------------------------
(* xfile and the list operations of xio.                                  *)

\* xfile(fd): position 0, not closed, no sections.
NewFile(fd) == [fd |-> fd, closed |-> FALSE, sects |-> <<>>]

\* xio::get_file and the search loops of write and close: the index of the
\* first entry for fd in the list, or 0.
GetFile(fl, fd) ==
  IF \E i \in DOMAIN fl : fl[i].fd = fd
  THEN CHOOSE i \in DOMAIN fl : fl[i].fd = fd /\ \A j \in 1 .. i - 1 : fl[j].fd # fd
  ELSE 0

\* Variant of SectAdd that puts the section at the front of the list.
SectAddFront(sects, d) == <<d>> \o sects

\* xfile::list_add: push_back of a section.
SectAdd(sects, d) == Append(sects, d)

\* What is left of a file's sections after the first loop of
\* xio::commit.  list_remove erases _sect, which sect_begin set to the
\* first section and nothing advances: the first erase removes it, and
\* each later one erases that freed node again.  When the memory of the
\* freed node is intact, the loop goes on through sect's stale link, the
\* later erases change no links, and every section but the first stays.
Remaining(sects) == IF sects = <<>> THEN sects ELSE Tail(sects)

\* The first loop of xio::commit from file fl[1] on: the writes made, as
\* <<fd, datum>>, the files left, and whether the process crashed.  From
\* the second section of a file on, the loop steps from a freed list node
\* and erases it again: undefined behaviour, which either crashes the
\* process after the k-th write(2) or runs on with the node intact.
RECURSIVE WriteLoop(_)
WriteLoop(fl) ==
  IF fl = <<>> THEN {[w |-> <<>>, rest |-> <<>>, crashed |-> FALSE]}
  ELSE
    LET f == Head(fl)
        n == Len(f.sects)
        ws(k) == [i \in 1 .. k |-> <<f.fd, f.sects[i]>>]
    IN  {[w |-> ws(k), rest |-> <<>>, crashed |-> TRUE] :
            k \in IF n >= 2 THEN 1 .. n ELSE {}}
        \cup
        {[r EXCEPT !.w = ws(n) \o @,
                   !.rest = <<[f EXCEPT !.sects = Remaining(@)]>> \o @] :
            r \in WriteLoop(Tail(fl))}

\* Variant of CloseLoop that closes the descriptors and keeps the entries.
CloseLoopKeep(fl) ==
  {[rest |-> fl, closed |-> {fl[i].fd : i \in {j \in DOMAIN fl : fl[j].closed}},
    crashed |-> FALSE]}

\* The second loop of xio::commit: close(2) each file marked closed and
\* erase its entry.  Unless the erased entry was the last, the loop
\* increments the erased iterator: undefined behaviour, a crash or a run
\* on through the intact freed node.
RECURSIVE CloseLoop(_)
CloseLoop(fl) ==
  IF fl = <<>> THEN {[rest |-> <<>>, closed |-> {}, crashed |-> FALSE]}
  ELSE
    LET f == Head(fl)
    IN  IF ~f.closed
        THEN {[r EXCEPT !.rest = <<f>> \o @] : r \in CloseLoop(Tail(fl))}
        ELSE IF Tail(fl) = <<>>
        THEN {[rest |-> <<>>, closed |-> {f.fd}, crashed |-> FALSE]}
        ELSE {[rest |-> <<>>, closed |-> {f.fd}, crashed |-> TRUE]}
             \cup {[r EXCEPT !.closed = @ \cup {f.fd}] : r \in CloseLoop(Tail(fl))}

\* The outcomes of xio::commit on a file list.
XioCommit(fl) ==
  UNION {IF r1.crashed
         THEN {[w |-> r1.w, rest |-> r1.rest, closed |-> {}, crashed |-> TRUE]}
         ELSE {[w |-> r1.w, rest |-> r2.rest, closed |-> r2.closed,
                crashed |-> r2.crashed] : r2 \in CloseLoop(r1.rest)}
         : r1 \in WriteLoop(fl)}

\* No call to xio::commit.
NoCommit(fl) == {[w |-> <<>>, rest |-> fl, closed |-> {}, crashed |-> FALSE]}

\* The outcomes of xrun::atomicEnd for q, as far as xio goes: the null
\* optimization skips xio::commit; a commit that succeeds runs it.
AtomicEnd(q) == IF dirty[q] THEN XioCommit(files[q]) ELSE NoCommit(files[q])

\* out after the writes ws.
Written(ws) ==
  [f \in Fds |-> LET ofF(x) == x[1] = f
                     s == SelectSeq(ws, ofF)
                 IN  out[f] \o [i \in DOMAIN s |-> s[i][2]]]

\* The effect on q of a commit outcome r: its writes, the files it left
\* and closed, and the end of q if it crashed.
Apply(q, r) ==
  /\ out' = Written(r.w)
  /\ kfds' = [kfds EXCEPT ![q] = @ \ r.closed]
  /\ files' = [files EXCEPT ![q] = r.rest]
  /\ live' = IF r.crashed THEN [live EXCEPT ![q] = "crashed"] ELSE live

-----------------------------------------------------------------------------
(* The calls of a process.                                                *)

\* q's next call.
Ins(q) == Prog[q][pc[q]]

\* q is running and its next call is op.
Calls(q, op) == live[q] = "run" /\ pc[q] <= Len(Prog[q]) /\ Ins(q).op = op

Next1(q) == pc' = [pc EXCEPT ![q] = @ + 1]

\* Variant of Open that adds the file whatever open(2) returned.
OpenNoCheck(q) ==
  /\ Calls(q, "open")
  /\ \E res \in {Ins(q).fd, NoFd} :
       /\ files' = [files EXCEPT ![q] = Append(@, NewFile(res))]
       /\ kfds' = IF res # NoFd THEN [kfds EXCEPT ![q] = @ \cup {res}] ELSE kfds
  /\ Next1(q)
  /\ UNCHANGED <<live, dirty, out, issued>>

\* xrun::open, xio::open: open(2) returns the descriptor or -1; on
\* success a new xfile for it goes to the end of the list.
Open(q) ==
  /\ Calls(q, "open")
  /\ \E res \in {Ins(q).fd, NoFd} :
       IF res # NoFd
       THEN /\ files' = [files EXCEPT ![q] = Append(@, NewFile(res))]
            /\ kfds' = [kfds EXCEPT ![q] = @ \cup {res}]
       ELSE UNCHANGED <<files, kfds>>
  /\ Next1(q)
  /\ UNCHANGED <<live, dirty, out, issued>>

\* xrun::connect, xio::connect: connect(2) on a descriptor q holds may
\* succeed or fail, and fails on any other; on success a new xfile for the
\* descriptor goes to the end of the list (connect returns fd either way).
Connect(q) ==
  /\ Calls(q, "connect")
  /\ LET fd == Ins(q).fd
     IN  \E ok \in IF fd \in kfds[q] THEN BOOLEAN ELSE {FALSE} :
           IF ok THEN files' = [files EXCEPT ![q] = Append(@, NewFile(fd))]
           ELSE UNCHANGED files
  /\ Next1(q)
  /\ UNCHANGED <<live, kfds, dirty, out, issued>>

\* xrun::accept, xio::accept: accept(2) returns a new descriptor or -1;
\* on success a new xfile for it goes to the end of the list.
Accept(q) ==
  /\ Calls(q, "accept")
  /\ \E res \in {Ins(q).fd, NoFd} :
       IF res # NoFd
       THEN /\ files' = [files EXCEPT ![q] = Append(@, NewFile(res))]
            /\ kfds' = [kfds EXCEPT ![q] = @ \cup {res}]
       ELSE UNCHANGED <<files, kfds>>
  /\ Next1(q)
  /\ UNCHANGED <<live, dirty, out, issued>>

\* xrun::write, xio::write: a descriptor not in the list fails with
\* EBADF; otherwise the bytes are copied into a new section at the end
\* of the file's list and write returns count.
Write(q) ==
  /\ Calls(q, "write")
  /\ LET fd == Ins(q).fd
         i == GetFile(files[q], fd)
         d == <<q, pc[q]>>
     IN  IF i = 0
         THEN UNCHANGED <<files, issued>>
         ELSE /\ files' = [files EXCEPT ![q][i].sects = SectAdd(@, d)]
              /\ issued' = issued \cup {<<d, fd>>}
  /\ Next1(q)
  /\ UNCHANGED <<live, kfds, dirty, out>>

\* xrun::close, xio::close: mark the file's entry closed, or return -1.
Close(q) ==
  /\ Calls(q, "close")
  /\ LET i == GetFile(files[q], Ins(q).fd)
     IN  IF i = 0 THEN UNCHANGED files
         ELSE files' = [files EXCEPT ![q][i].closed = TRUE]
  /\ Next1(q)
  /\ UNCHANGED <<live, kfds, dirty, out, issued>>

\* xrun::read, xio::read: xio::commit, then read(2).
Read(q) ==
  /\ Calls(q, "read")
  /\ \E r \in XioCommit(files[q]) :
       /\ Apply(q, r)
       /\ IF r.crashed THEN UNCHANGED pc ELSE Next1(q)
  /\ UNCHANGED <<dirty, issued>>

\* xrun::lseek, xio::lseek: xio::commit, then lseek(2), which succeeds on
\* a descriptor open in the kernel.  On success it looks the file up and
\* asserts that the lookup found nothing, then sets the position through
\* the pointer it found: the assertion fails for a file of the list, and
\* the store faults for any other.
Lseek(q) ==
  /\ Calls(q, "lseek")
  /\ \E r \in XioCommit(files[q]) :
       LET fd == Ins(q).fd
           ok == fd \in kfds[q] \ r.closed
           found == GetFile(r.rest, fd) # 0
           dies == r.crashed \/ (ok /\ (AssertsOn \/ ~found))
       IN  /\ Apply(q, [r EXCEPT !.crashed = dies])
           /\ IF dies THEN UNCHANGED pc ELSE Next1(q)
  /\ UNCHANGED <<dirty, issued>>

\* A store to a tracked page: the section is no longer null.
Touch(q) ==
  /\ Calls(q, "touch")
  /\ dirty' = [dirty EXCEPT ![q] = TRUE]
  /\ Next1(q)
  /\ UNCHANGED <<live, files, kfds, out, issued>>

\* xrun::punctuate: atomicEnd, then atomicBegin of a new section.
Punctuate(q) ==
  /\ Calls(q, "end")
  /\ \E r \in AtomicEnd(q) :
       /\ Apply(q, r)
       /\ IF r.crashed THEN UNCHANGED pc ELSE Next1(q)
  /\ dirty' = [dirty EXCEPT ![q] = FALSE]
  /\ UNCHANGED issued

\* xthread::spawn by fork: atomicEnd, then fork(2).  The child starts
\* with a copy of the parent's xio list and descriptor table; both begin
\* a new section.
Spawn(q) ==
  /\ Calls(q, "spawn")
  /\ LET c == Ins(q).child
     IN  /\ live[c] = "idle"
         /\ \E r \in AtomicEnd(q) :
              IF r.crashed
              THEN /\ Apply(q, r)
                   /\ UNCHANGED <<pc, dirty>>
              ELSE /\ out' = Written(r.w)
                   /\ LET fds == kfds[q] \ r.closed
                      IN  kfds' = [kfds EXCEPT ![q] = fds, ![c] = fds]
                   /\ files' = [files EXCEPT ![q] = r.rest, ![c] = r.rest]
                   /\ live' = [live EXCEPT ![c] = "run"]
                   /\ pc' = [pc EXCEPT ![q] = @ + 1, ![c] = 1]
                   /\ dirty' = [dirty EXCEPT ![q] = FALSE, ![c] = FALSE]
  /\ UNCHANGED issued

\* The end of a process: xthread::run_thread's atomicEnd and _exit for a
\* child, xrun::finalize's atomicEnd for main.  What is still buffered
\* dies with the process.
Finish(q) ==
  /\ live[q] = "run" /\ pc[q] > Len(Prog[q])
  /\ \E r \in AtomicEnd(q) :
       /\ out' = Written(r.w)
       /\ kfds' = [kfds EXCEPT ![q] = @ \ r.closed]
       /\ files' = [files EXCEPT ![q] = r.rest]
       /\ live' = [live EXCEPT ![q] = IF r.crashed THEN "crashed" ELSE "done"]
  /\ UNCHANGED <<pc, dirty, issued>>

IOInit ==
  /\ live = [q \in Procs |-> IF q = Main THEN "run" ELSE "idle"]
  /\ pc = [q \in Procs |-> 1]
  /\ files = [q \in Procs |-> <<>>]
  /\ kfds = [q \in Procs |-> StdFds]
  /\ dirty = [q \in Procs |-> FALSE]
  /\ out = [f \in Fds |-> <<>>]
  /\ issued = {}

IONext ==
  \E q \in Procs :
    \/ Open(q) \/ Connect(q) \/ Accept(q) \/ Write(q) \/ Close(q) \/ Read(q) \/ Lseek(q)
    \/ Touch(q) \/ Punctuate(q) \/ Spawn(q) \/ Finish(q)

IOSpec == IOInit /\ [][IONext]_vars

-----------------------------------------------------------------------------
(* Properties.                                                             *)

\* Datum d is in the file of fd.
InFile(d, fd) == \E i \in DOMAIN out[fd] : out[fd][i] = d

(* Output keeps each process's order: in the file of every descriptor,   *)
(* a datum that a process buffered later never reaches the file before   *)
(* one it buffered earlier, across sections, forks that copy the list,   *)
(* and the repeated writes of xio::commit's loop.                        *)
IssueOrder ==
  \A f \in Fds : \A i, j \in DOMAIN out[f] :
    /\ i < j
    /\ out[f][i][1] = out[f][j][1]
    /\ out[f][j][2] < out[f][i][2]
    => \E k \in 1 .. i - 1 : out[f][k] = out[f][j]

(* Every entry of a running process's xio list is a descriptor open in   *)
(* its kernel table: open adds an entry only for a descriptor it got,    *)
(* and xio::commit closes a descriptor only with its entry, so no        *)
(* buffered section is ever written to a closed descriptor.              *)
ListedFdsOpen ==
  \A q \in Procs : live[q] = "run" =>
    \A i \in DOMAIN files[q] : files[q][i].fd \in kfds[q]

(* Every write() that returned count reaches its file exactly once: no   *)
(* datum appears twice in a file.                                         *)
WrittenOnce ==
  \A f \in Fds : \A i, j \in DOMAIN out[f] : i # j => out[f][i] # out[f][j]

\* Datum d is buffered in a running process.
Buffered(d) ==
  \E p \in Procs : live[p] = "run" /\
    \E i \in DOMAIN files[p] : \E k \in DOMAIN files[p][i].sects :
      files[p][i].sects[k] = d

(* No write() that returned count is lost: its datum is in its file or   *)
(* still buffered in a running process.                                   *)
NoLostOutput ==
  \A e \in issued : InFile(e[1], e[2]) \/ Buffered(e[1])

(* A process that only makes the calls of xrun's I/O interface never     *)
(* dies in them.                                                          *)
NoCrash == \A q \in Procs : live[q] # "crashed"

=============================================================================
