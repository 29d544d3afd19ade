------------------------------- MODULE XThread -------------------------------
(***************************************************************************)
(* The thread table of Grace's thread emulator: the pids that fork hands  *)
(* out, the ThreadStatus handle in which the parent stores its child's     *)
(* pid, xrun::_pred, and the array of exit latches that xthread's         *)
(* constructor maps shared before main runs (src/src/include/xthread.h,   *)
(* src/src/source/xthread.cpp, src/src/xrun.h).  waitExited(pid) and      *)
(* setExited() pick the latch by pid % THREAD_STATUS_LENGTH, and no latch *)
(* is ever reset.                                                          *)
(*                                                                         *)
(* A process keeps its logical thread's name; its pid is a field, handed  *)
(* out by the kernel at fork from the pids no process holds (running or  *)
(* zombie).  Nothing in the runtime calls waitpid, so an exited child     *)
(* stays a zombie until its parent has exited too and init reaps it.      *)
(*                                                                         *)
(* Every spawn forks (the nesting level stays below the cutoff); XRun has *)
(* the in-process spawns, the memory and the semaphores of the latches.   *)
(* Here a latch wait returns once _unlatched is set, as xlatch::wait does *)
(* for the at most two waiters a latch has; data is reduced to whether the *)
(* running section stored to a tracked page.                              *)
(***************************************************************************)
EXTENDS Naturals, Sequences

CONSTANTS
  Threads,       \* logical threads; each forked one runs as a process
  Main,          \* the thread running main()
  Prog,          \* Prog[t]: the instructions of thread t
  PidMax,        \* the kernel's pid_max: pids are 1 .. PidMax - 1
  StatusLength,  \* xthread::THREAD_STATUS_LENGTH, the number of latches
  NoPid          \* the pid 0: no predecessor, no handle

Pids == 1 .. PidMax - 1

Instr == [op : {"spawn", "sync"}, child : Threads] \cup [op : {"work"}]

ASSUME /\ Main \in Threads /\ Prog \in [Threads -> Seq(Instr)]
       /\ NoPid = 0 /\ StatusLength > 0

VARIABLES
  pid,        \* pid[t]: the pid of t's process (getpid, xthread::_tid)
  st,         \* st[t]: where t's process is in its life
  pc,         \* pc[t]: t's next instruction
  pred,       \* pred[t]: xrun::_pred of t's process, a pid or 0
  dirty,      \* dirty[t]: t's running section stored to a tracked page
  tid,        \* tid[c]: ThreadStatus::tid, the pid c's parent stored
  parent,     \* parent[t]: the thread whose process forked t's
  unlatched,  \* unlatched[i]: _unlatched of latch i of _threadExitStatus
  joined      \* history: threads whose pthread_join has returned

vars == <<pid, st, pc, pred, dirty, tid, parent, unlatched, joined>>

(* st[t]: "idle" (not forked), "run", "join" (in sync, waiting on the     *)
(* child's latch), "exiting" (past the thread function, in waitPred),     *)
(* "zombie" (exited, not reaped) and "reaped".                             *)
Alive == {"run", "join", "exiting"}
Holding == Alive \cup {"zombie"}

ThreadTypeOK ==
  /\ pid \in [Threads -> Pids \cup {NoPid}]
  /\ st \in [Threads -> {"idle", "zombie", "reaped"} \cup Alive]
  /\ pc \in [Threads -> Nat]
  /\ pred \in [Threads -> Pids \cup {NoPid}]
  /\ dirty \in [Threads -> BOOLEAN]
  /\ tid \in [Threads -> Pids \cup {NoPid}]
  /\ parent \in [Threads -> Threads \cup {NoPid}]
  /\ unlatched \in [0 .. StatusLength - 1 -> BOOLEAN]
  /\ joined \subseteq Threads

-----------------------------------------------------------------------------

Cur(t) == Prog[t][pc[t]]
Runs(t, op) == st[t] = "run" /\ pc[t] <= Len(Prog[t]) /\ Cur(t).op = op

\* The pids fork(2) may return: those no process holds, zombies included.
FreePids == Pids \ {pid[t] : t \in {u \in Threads : st[u] \in Holding}}

\* The latch waitExited and setExited index by a pid.
Latch(p) == p % StatusLength

\* xthread::waitExited(p) returns: latch p % THREAD_STATUS_LENGTH is open.
Exited(p) == unlatched[Latch(p)]

\* xrun::waitPred returns at once without a predecessor, and otherwise
\* when waitExited(_pred) does.
PredDone(t) == pred[t] = NoPid \/ Exited(pred[t])

\* xrun::atomicEnd can return: a null section ends OPTIMIZED at once; any
\* other waits in atomicCommit's waitPred.
CanEnd(t) == ~dirty[t] \/ PredDone(t)

\* Its effect on _pred: SUCCEEDED clears it, OPTIMIZED keeps it.  (A FAILED
\* section rolls back and ends again later; it leaves the table alone.)
EndPred(t) == IF dirty[t] THEN NoPid ELSE pred[t]

\* A store of the client program to a tracked page.
Work(t) ==
  /\ Runs(t, "work")
  /\ dirty' = [dirty EXCEPT ![t] = TRUE]
  /\ pc' = [pc EXCEPT ![t] = @ + 1]
  /\ UNCHANGED <<pid, st, pred, tid, parent, unlatched, joined>>

\* pthread_create: xthread::spawn ends the section and forkSpawn forks
\* child c with pid p.  The parent stores p in the handle, makes c its
\* predecessor and begins a section; the child inherits the parent's
\* _pred as atomicEnd left it, sets its id and begins run_thread's section.
Spawn(t) ==
  /\ Runs(t, "spawn") /\ CanEnd(t)
  /\ LET c == Cur(t).child IN
       /\ st[c] = "idle"
       /\ \E p \in FreePids :
            /\ pid' = [pid EXCEPT ![c] = p]
            /\ tid' = [tid EXCEPT ![c] = p]
            /\ pred' = [pred EXCEPT ![t] = p, ![c] = EndPred(t)]
       /\ st' = [st EXCEPT ![c] = "run"]
       /\ parent' = [parent EXCEPT ![c] = t]
       /\ pc' = [pc EXCEPT ![t] = @ + 1, ![c] = 1]
       /\ dirty' = [dirty EXCEPT ![t] = FALSE, ![c] = FALSE]
  /\ UNCHANGED <<unlatched, joined>>

\* pthread_join: xthread::sync of a forked thread ends the section and,
\* the stored tid being non-zero, waits in waitExited(tid).
SyncEnd(t) ==
  /\ Runs(t, "sync") /\ CanEnd(t)
  /\ st' = [st EXCEPT ![t] = "join"]
  /\ pred' = [pred EXCEPT ![t] = EndPred(t)]
  /\ dirty' = [dirty EXCEPT ![t] = FALSE]
  /\ UNCHANGED <<pid, pc, tid, parent, unlatched, joined>>

\* waitExited returns; sync reads the return value, frees the handle and
\* begins a section.
SyncReturn(t) ==
  /\ st[t] = "join" /\ Exited(tid[Cur(t).child])
  /\ st' = [st EXCEPT ![t] = "run"]
  /\ pc' = [pc EXCEPT ![t] = @ + 1]
  /\ joined' = joined \cup {Cur(t).child}
  /\ UNCHANGED <<pid, pred, dirty, tid, parent, unlatched>>

\* The thread function of a forked child has returned: run_thread's
\* atomicEnd, the return value stored in the handle, then waitPred.
ThreadEnd(t) ==
  /\ t # Main /\ st[t] = "run" /\ pc[t] > Len(Prog[t]) /\ CanEnd(t)
  /\ st' = [st EXCEPT ![t] = "exiting"]
  /\ pred' = [pred EXCEPT ![t] = EndPred(t)]
  /\ dirty' = [dirty EXCEPT ![t] = FALSE]
  /\ UNCHANGED <<pid, pc, tid, parent, unlatched, joined>>

\* waitPred has returned: setExited opens latch getId() % LENGTH, and
\* _exit(0) leaves a zombie.
SetExited(t) ==
  /\ st[t] = "exiting" /\ PredDone(t)
  /\ unlatched' = [unlatched EXCEPT ![Latch(pid[t])] = TRUE]
  /\ st' = [st EXCEPT ![t] = "zombie"]
  /\ UNCHANGED <<pid, pc, pred, dirty, tid, parent, joined>>

\* The end of main: xrun::finalize ends the last section and waits for the
\* predecessor; exit sets no latch.
Finalize ==
  /\ st[Main] = "run" /\ pc[Main] > Len(Prog[Main]) /\ CanEnd(Main)
  /\ EndPred(Main) = NoPid \/ Exited(EndPred(Main))
  /\ st' = [st EXCEPT ![Main] = "zombie"]
  /\ pred' = [pred EXCEPT ![Main] = EndPred(Main)]
  /\ dirty' = [dirty EXCEPT ![Main] = FALSE]
  /\ UNCHANGED <<pid, pc, tid, parent, unlatched, joined>>

\* init adopts and reaps a zombie whose parent has exited; its pid is free.
Reap(t) ==
  /\ st[t] = "zombie" /\ t # Main /\ st[parent[t]] \in {"zombie", "reaped"}
  /\ st' = [st EXCEPT ![t] = "reaped"]
  /\ UNCHANGED <<pid, pc, pred, dirty, tid, parent, unlatched, joined>>

\* xthread's constructor maps the latches, all closed; xrun::initialize
\* sets main's id to its pid and ends the heap set-up section with no
\* predecessor; main's first section is empty.
ThreadInit ==
  /\ \E p \in Pids : pid = [t \in Threads |-> IF t = Main THEN p ELSE NoPid]
  /\ st = [t \in Threads |-> IF t = Main THEN "run" ELSE "idle"]
  /\ pc = [t \in Threads |-> 1]
  /\ pred = [t \in Threads |-> NoPid]
  /\ dirty = [t \in Threads |-> FALSE]
  /\ tid = [t \in Threads |-> NoPid]
  /\ parent = [t \in Threads |-> NoPid]
  /\ unlatched = [i \in 0 .. StatusLength - 1 |-> FALSE]
  /\ joined = {}

ThreadNext ==
  \/ Finalize
  \/ \E t \in Threads :
       \/ Work(t) \/ Spawn(t) \/ SyncEnd(t) \/ SyncReturn(t)
       \/ ThreadEnd(t) \/ SetExited(t) \/ Reap(t)

ThreadSpec == ThreadInit /\ [][ThreadNext]_vars

-----------------------------------------------------------------------------

(* pthread_join returns only after the joined thread has finished: sync   *)
(* "waits for the 'thread' to terminate" (xthread.cpp) before it reads    *)
(* the return value the thread stores in its handle, and the parent's     *)
(* next commit relies on it.  With pids reused once a zombie is reaped,   *)
(* or two pids sharing a latch modulo THREAD_STATUS_LENGTH, the latch     *)
(* waitExited finds may have been opened by another process.              *)
JoinAfterExit ==
  \A c \in joined : st[c] \in {"zombie", "reaped"}

=============================================================================
