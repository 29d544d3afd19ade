-------------------------------- MODULE XRun --------------------------------
(***************************************************************************)
(* The Grace runtime: the transaction coordinator (class xrun,            *)
(* src/src/xrun.h), the process-based thread emulator (class xthread,     *)
(* src/src/include/xthread.h, src/src/source/xthread.cpp), its exit      *)
(* latches (class xlatch, src/src/include/xlatch.h), the rollback         *)
(* checkpoint (class xcontext, src/src/xcontext.cpp) and the thread and   *)
(* condition entry points of src/src/libgrace.cpp, driving the memory     *)
(* space of XMemory.                                                       *)
(*                                                                         *)
(* A fixed client program Prog gives every logical thread a straight-line *)
(* sequence of instructions: loads and stores of pages, pthread_create    *)
(* (spawn) and pthread_join (sync) of a child thread, gracewait and       *)
(* gracesignal on a condition, printf, pthread_exit, and calls of xrun's *)
(* I/O interface, which xrun makes irrevocable first.  A logical          *)
(* thread that is forked runs as its own process, whose pid is the        *)
(* thread's name; a thread run in-process (xthread::spawn past the      *)
(* nesting cutoff) is a frame on its parent's stack.                      *)
(***************************************************************************)
EXTENDS XMemory, SequencesExt, Integers

CONSTANTS
  Main,      \* the logical thread running main()
  Prog,      \* Prog[t]: the instructions of logical thread t
  NCPUs,     \* HL::CPUInfo::getNumProcessors()
  CVs,       \* conditions created by gracecondinit
  NoPid      \* the value 0 of a pid: no predecessor

Threads == Procs

\* Where pthread_join stores the thread's result: a local variable of the
\* caller's frame, or a location on a page of the heap or the globals.
Dests == Pages \cup {"stack"}

Instr ==
       [op : {"read", "write"}, page : Pages]
  \cup [op : {"spawn"}, child : Threads]
  \cup [op : {"sync"}, child : Threads, dest : Dests]
  \cup [op : {"wait", "signal"}, cv : CVs]
  \cup [op : {"print", "exit", "io", "lock"}]

ASSUME Main \in Threads /\ Prog \in [Threads -> Seq(Instr)]

(***************************************************************************)
(* log.h: the integer log that xthread.h uses instead of the math         *)
(* library's: the number of doublings of 1 needed to reach v.             *)
(***************************************************************************)
RECURSIVE LogLoop(_, _, _)
LogLoop(value, lg, v) == IF value < v THEN LogLoop(value * 2, lg + 1, v) ELSE lg

Log(v) == LogLoop(1, 0, v)

\* xthread::dontFork: the nesting cutoff, log(number of processors).
ForkDepth == Log(NCPUs)

VARIABLES
  frames,     \* frames[q]: q's stack of logical-thread frames
  ckpt,       \* ckpt[q]: xcontext, the stack saved by the last atomicBegin
  nest,       \* nest[q]: xthread::_nestingLevel of process q
  ctl,        \* ctl[q]: where q is in the coordinator's control flow
  pred,       \* pred[q]: xrun::_pred
  status,     \* status[t]: the ThreadStatus handle of spawned thread t
  unlatched,  \* unlatched[q]: xlatch::_unlatched of q's exit latch
  sem,        \* sem[q]: the count of the semaphore of q's exit latch
  flag,       \* flag[c]: the MAP_SHARED boolean of condition c
  out,        \* what printf has written to standard output, in order
  commitLog   \* history: first and last instruction of every committed section

stackVars == <<frames, ckpt, nest>>
latchVars == <<unlatched, sem>>
runVars == <<memVars, stackVars, ctl, pred, status, latchVars, flag, out,
             commitLog>>

(* A frame is a logical thread's position, its register acc, and where it *)
(* is inside gracewait ("poll": after a punctuate, about to test the      *)
(* flag) or gracesignal ("set": about to set the flag).                   *)
Frame == [t : Threads, pc : Nat, acc : Vals, sub : {"none", "poll", "set"}]

NewFrame(t, acc) == [t |-> t, pc |-> 1, acc |-> acc, sub |-> "none"]

(* Control stages of a process (ctl[q].st):                               *)
(*   "idle"     not yet forked                                            *)
(*   "run"      executing the client program                              *)
(*   "end"      xrun::atomicEnd entered (ctl[q].k says who called it)     *)
(*   "predWait" atomicCommit waiting for the predecessor's exit latch     *)
(*   "commit"   atomicCommit about to call tryToCommit                     *)
(*   "after"    atomicEnd returned to its caller                           *)
(*   "xWait"    the caller waits on an exit latch (sync, exit, finalize)  *)
(*   "xDone"    that wait returned                                        *)
(*   "exited"                                                             *)
(* ctl[q].w is "check" before xlatch::wait tests _unlatched and "sem"     *)
(* while blocked in sem_wait.                                             *)
Callers == {"none", "spawn", "sync", "exit", "final",
            "wait", "waitEnd", "signal", "signalEnd", "print", "irrev"}

Stage(st, k, c) == [st |-> st, k |-> k, c |-> c, w |-> "check"]
Idle == Stage("idle", "none", NoPid)
Running == Stage("run", "none", NoPid)
Exited == Stage("exited", "none", NoPid)

RunTypeOK ==
  /\ MemTypeOK
  /\ frames \in [Procs -> Seq(Frame)]
  /\ ckpt \in [Procs -> Seq(Frame)]
  /\ nest \in [Procs -> Nat]
  /\ ctl \in [Procs -> [st : {"idle", "run", "end", "predWait", "commit",
                              "after", "xWait", "xDone", "exited"},
                        k : Callers, c : Threads \cup {NoPid},
                        w : {"check", "sem"}]]
  /\ pred \in [Procs -> Threads \cup {NoPid}]
  /\ status \in [Threads -> [forked : BOOLEAN, tid : Threads \cup {NoPid},
                             retval : Vals] \cup {NoPid}]
  /\ unlatched \in [Procs -> BOOLEAN]
  /\ sem \in [Procs -> Nat]
  /\ flag \in [CVs -> BOOLEAN]
  /\ out \in Seq(Threads \X Nat)
  /\ commitLog \in Seq([start : Threads \X Nat, end : Threads \X Nat])

-----------------------------------------------------------------------------
(* The top frame of a process, and its current instruction.              *)

Top(q) == Last(frames[q])
Cur(q) == Prog[Top(q).t][Top(q).pc]
AtInstr(q) == Top(q).pc <= Len(Prog[Top(q).t])
Runs(q, ops) == /\ ctl[q].st = "run" /\ AtInstr(q) /\ Top(q).sub = "none"
                /\ Cur(q).op \in ops

\* q's stack with the top frame replaced by f.
WithTop(q, f) == [frames[q] EXCEPT ![Len(frames[q])] = f]

\* q's stack with the top frame past the current instruction, v added to acc.
Advance(q, v) == WithTop(q, [Top(q) EXCEPT !.pc = @ + 1, !.acc = (@ + v) % K])

\* Enter a library call that ends the current section (atomicEnd).
CallEnd(q, k, c) ==
  /\ ctl' = [ctl EXCEPT ![q] = Stage("end", k, c)]
  /\ UNCHANGED <<memVars, stackVars, pred, status, latchVars, flag, out, commitLog>>

\* xcontext::commit (getContext and save_stack): save q's stack, from the
\* base that xcontext::initialize took from stacktop down to the caller.
SaveContext(q, stack) == ckpt' = [ckpt EXCEPT ![q] = stack]

\* xcontext::abort (restoreStack): copy the saved stack back and resume
\* where it was saved.
RestoreContext(q) == frames' = [frames EXCEPT ![q] = ckpt[q]]

\* xrun::atomicBegin: save the context, then xmemory::begin; the section
\* runs from the stack given.
AtomicBegin(q, stack) ==
  /\ frames' = [frames EXCEPT ![q] = stack]
  /\ SaveContext(q, stack)
  /\ MemBegin(q)
  /\ ctl' = [ctl EXCEPT ![q] = Running]

-----------------------------------------------------------------------------
(* Client instructions while a section runs.                              *)

\* A load completes once the page is readable.
ReadAccess(q) ==
  /\ Runs(q, {"read"})
  /\ prot[q][Cur(q).page] \in {ProtRead, ProtRW}
  /\ frames' = [frames EXCEPT ![q] = Advance(q, View(q, Cur(q).page))]
  /\ UNCHANGED <<memVars, ckpt, nest, ctl, pred, status, latchVars, flag,
                 out, commitLog>>

\* A store completes once the page is writable; the new contents depend
\* on the old ones (a partial update of the page).
WriteAccess(q) ==
  /\ Runs(q, {"write"})
  /\ prot[q][Cur(q).page] = ProtRW
  /\ LET p == Cur(q).page
     IN priv' = [priv EXCEPT ![q][p] = (View(q, p) + Top(q).acc + 1) % K]
  /\ frames' = [frames EXCEPT ![q] = Advance(q, 0)]
  /\ UNCHANGED <<data, ver, localVer, readSet, dirtied, prot, seen, ckpt, nest,
                 ctl, pred, status, latchVars, flag, out, commitLog>>

\* The page q's current instruction loads or stores, if any: a read, a
\* write, or the store of *result in the sync of an in-process thread.
Accessed(q) ==
  IF Cur(q).op = "sync" THEN Cur(q).dest ELSE Cur(q).page

\* A load of an inaccessible page or a store to a page that is not
\* writable raises SIGSEGV; xmemory::handle runs and the access restarts.
Fault(q) ==
  /\ \/ Runs(q, {"read", "write"})
     \/ Runs(q, {"sync"}) /\ Cur(q).dest # "stack"
        /\ ~status[Cur(q).child].forked
  /\ \/ prot[q][Accessed(q)] = ProtNone
     \/ Cur(q).op \in {"write", "sync"} /\ prot[q][Accessed(q)] = ProtRead
  /\ HandleFault(q, Accessed(q))
  /\ UNCHANGED <<data, ver, priv, stackVars, ctl, pred, status, latchVars,
                 flag, out, commitLog>>

\* q's next instruction is pthread_create, which the interposer hands to
\* xthread::spawn through gracespawn and xrun::spawn; the thread id it
\* stores is the xthread's child record.
Spawning(q) == Runs(q, {"spawn"})

\* q's next instruction is pthread_join, handed to xthread::sync through
\* gracesync.
Joining(q) == Runs(q, {"sync"})

\* xthread::spawn at or past the nesting cutoff: call the thread function
\* in-process, one nesting level deeper.
SpawnInline(q) ==
  /\ Spawning(q)
  /\ nest[q] >= ForkDepth
  /\ nest' = [nest EXCEPT ![q] = @ + 1]
  /\ frames' = [frames EXCEPT ![q] = Append(@, NewFrame(Cur(q).child,
                                                        Top(q).acc))]
  /\ UNCHANGED <<memVars, ckpt, ctl, pred, status, latchVars, flag, out, commitLog>>

\* The in-process call returns: the result goes into a ThreadStatus with
\* forked = FALSE, and the nesting level drops again.
ReturnInline(q) ==
  /\ ctl[q].st = "run" /\ ~AtInstr(q) /\ Len(frames[q]) > 1
  /\ LET rest == Front(frames[q])
     IN frames' = [frames EXCEPT ![q] = [rest EXCEPT ![Len(rest)].pc = @ + 1]]
  /\ status' = [status EXCEPT ![Top(q).t] =
                  [forked |-> FALSE, tid |-> NoPid, retval |-> Top(q).acc]]
  /\ nest' = [nest EXCEPT ![q] = @ - 1]
  /\ UNCHANGED <<memVars, ckpt, ctl, pred, latchVars, flag, out, commitLog>>

\* xthread::spawn below the cutoff: end the current section first.
SpawnFork(q) ==
  /\ Spawning(q)
  /\ nest[q] < ForkDepth
  /\ CallEnd(q, "spawn", Cur(q).child)

\* xthread::sync of an in-process thread: the result is already there, and
\* *result = t->retval is a store of the running section: into the frame,
\* or, once the page is writable, into the page.
SyncInline(q) ==
  /\ Joining(q)
  /\ ~status[Cur(q).child].forked
  /\ LET d == Cur(q).dest
         v == status[Cur(q).child].retval
     IN IF d = "stack"
        THEN /\ frames' = [frames EXCEPT ![q] = Advance(q, v)]
             /\ UNCHANGED priv
        ELSE /\ prot[q][d] = ProtRW
             /\ priv' = [priv EXCEPT ![q][d] = v]
             /\ frames' = [frames EXCEPT ![q] = Advance(q, 0)]
  /\ UNCHANGED <<data, ver, localVer, readSet, dirtied, prot, seen, ckpt, nest,
                 ctl, pred, status, latchVars, flag, out, commitLog>>

\* xthread::sync of a forked thread: end the current section first.
SyncFork(q) ==
  /\ Joining(q)
  /\ status[Cur(q).child].forked
  /\ CallEnd(q, "sync", Cur(q).child)

\* Variant of ThreadDone in which finalize does not end main's last
\* section before waiting for its predecessor.
ThreadDoneNoEnd(q) ==
  /\ ctl[q].st = "run" /\ ~AtInstr(q) /\ Len(frames[q]) = 1
  /\ ctl' = [ctl EXCEPT ![q] = IF q = Main THEN Stage("after", "final", NoPid)
                                          ELSE Stage("end", "exit", NoPid)]
  /\ UNCHANGED <<memVars, stackVars, pred, status, latchVars, flag, out, commitLog>>

\* The thread function returns in its own process: run_thread calls
\* atomicEnd (a child), or the destructor calls xrun::finalize (main).
ThreadDone(q) ==
  /\ ctl[q].st = "run" /\ ~AtInstr(q) /\ Len(frames[q]) = 1
  /\ CallEnd(q, IF q = Main THEN "final" ELSE "exit", NoPid)

\* gracewait and gracesignal both start with a punctuate.
CondCall(q) ==
  /\ Runs(q, {"wait", "signal"})
  /\ CallEnd(q, Cur(q).op, NoPid)

\* gracewait, after a punctuate: if the flag is set, clear it and
\* punctuate once more; otherwise sleep and punctuate again.  The flag
\* lives outside the versioned regions: no fault, no rollback.
Poll(q) ==
  /\ ctl[q].st = "run" /\ Top(q).sub = "poll"
  /\ LET c == Cur(q).cv
     IN /\ flag' = [flag EXCEPT ![c] = FALSE]
        /\ ctl' = [ctl EXCEPT ![q] =
                     Stage("end", IF flag[c] THEN "waitEnd" ELSE "wait", NoPid)]
  /\ UNCHANGED <<memVars, stackVars, pred, status, latchVars, out, commitLog>>

\* gracesignal, after its first punctuate: set the flag, punctuate again.
SetFlag(q) ==
  /\ ctl[q].st = "run" /\ Top(q).sub = "set"
  /\ flag' = [flag EXCEPT ![Cur(q).cv] = TRUE]
  /\ ctl' = [ctl EXCEPT ![q] = Stage("end", "signalEnd", NoPid)]
  /\ UNCHANGED <<memVars, stackVars, pred, status, latchVars, out, commitLog>>

\* The printf interposer ends the section before writing.
PrintCall(q) ==
  /\ Runs(q, {"print"})
  /\ CallEnd(q, "print", NoPid)

\* The pthread mutex, rwlock and attribute interposers: each returns 0 at
\* once, so a lock or unlock is no step of the runtime at all and leaves
\* the section running; isolation comes from the sections alone.
MutexCall(q) ==
  /\ Runs(q, {"lock"})
  /\ frames' = [frames EXCEPT ![q] = Advance(q, 0)]
  /\ UNCHANGED <<memVars, ckpt, nest, ctl, pred, status, latchVars, flag,
                 out, commitLog>>

\* pthread_exit: _exit(0) ends the process on the spot, with no commit
\* and no setExited.
PthreadExit(q) ==
  /\ Runs(q, {"exit"})
  /\ ctl' = [ctl EXCEPT ![q] = Exited]
  /\ UNCHANGED <<memVars, stackVars, pred, status, latchVars, flag, out, commitLog>>

\* Variant of IrrevCall that does not wait for the predecessor.
IrrevCallNoWait(q) ==
  /\ Runs(q, {"io"})
  /\ ctl' = [ctl EXCEPT ![q] = Stage("xDone", "irrev", NoPid)]
  /\ UNCHANGED <<memVars, stackVars, pred, status, latchVars, flag, out, commitLog>>

\* A call of xrun's I/O interface (open, close, write, read, lseek,
\* connect, accept) starts with ensureIrrevocable, whose waitPred waits
\* on the predecessor's exit latch inside the running section.
IrrevCall(q) ==
  /\ Runs(q, {"io"})
  /\ ctl' = [ctl EXCEPT ![q] = Stage("xWait", "irrev", NoPid)]
  /\ UNCHANGED <<memVars, stackVars, pred, status, latchVars, flag, out, commitLog>>

\* ensureIrrevocable, once waitPred returns: xmemory::isConsistent (under
\* the lock); if it holds the I/O call goes ahead, which changes neither
\* memory nor the section; if not, xrun::abort rolls the section back as
\* a failed commit does.
IrrevCheck(q) ==
  /\ ctl[q].st = "xDone" /\ ctl[q].k = "irrev"
  /\ IF IsConsistent(q)
     THEN /\ frames' = [frames EXCEPT ![q] = Advance(q, 0)]
          /\ UNCHANGED <<memVars, ckpt>>
     ELSE /\ MemAbort(q)
          /\ MemBegin(q)
          /\ RestoreContext(q)
          /\ UNCHANGED <<data, ver, localVer, ckpt>>
  /\ ctl' = [ctl EXCEPT ![q] = Running]
  /\ UNCHANGED <<nest, pred, status, latchVars, flag, out, commitLog>>

-----------------------------------------------------------------------------
(* xrun::atomicEnd and atomicCommit.                                      *)

\* Variant of EndOptimized that clears _pred as a SUCCEEDED commit does.
EndOptimizedClearPred(q) ==
  /\ ctl[q].st = "end" /\ MemIsNop(q)
  /\ MemUpdateAll(q)
  /\ ctl' = [ctl EXCEPT ![q].st = "after"]
  /\ pred' = [pred EXCEPT ![q] = NoPid]
  /\ UNCHANGED <<data, ver, localVer, readSet, dirtied, seen, stackVars,
                 status, latchVars, flag, out, commitLog>>

\* atomicCommit: the null optimization.  Nothing was read or written:
\* remap both regions (updateAll) and return OPTIMIZED, keeping _pred.
EndOptimized(q) ==
  /\ ctl[q].st = "end" /\ MemIsNop(q)
  /\ MemUpdateAll(q)
  /\ ctl' = [ctl EXCEPT ![q].st = "after"]
  /\ UNCHANGED <<data, ver, localVer, readSet, dirtied, seen, stackVars,
                 pred, status, latchVars, flag, out, commitLog>>

\* Variant of EndWait that goes to tryToCommit without waitPred.
EndWaitNoPred(q) ==
  /\ ctl[q].st = "end" /\ ~MemIsNop(q)
  /\ ctl' = [ctl EXCEPT ![q].st = "commit"]
  /\ UNCHANGED <<memVars, stackVars, pred, status, latchVars, flag, out,
                 commitLog>>

\* atomicCommit otherwise: waitPred first.
EndWait(q) ==
  /\ ctl[q].st = "end" /\ ~MemIsNop(q)
  /\ ctl' = [ctl EXCEPT ![q].st = "predWait"]
  /\ UNCHANGED <<memVars, stackVars, pred, status, latchVars, flag, out, commitLog>>

\* tryToCommit succeeds: the section's pages are published, and atomicEnd
\* clears _pred (SUCCEEDED).  The history records where the section
\* started (the checkpoint) and ended (the current instruction).
EndSucceeded(q) ==
  /\ ctl[q].st = "commit"
  /\ TryToCommitOK(q)
  /\ pred' = [pred EXCEPT ![q] = NoPid]
  /\ commitLog' = Append(commitLog,
                         [start |-> <<Last(ckpt[q]).t, Last(ckpt[q]).pc>>,
                          end |-> <<Top(q).t, Top(q).pc>>])
  /\ ctl' = [ctl EXCEPT ![q].st = "after"]
  /\ UNCHANGED <<localVer, readSet, dirtied, seen, stackVars, status,
                 latchVars, flag, out>>

\* tryToCommit fails: xrun::abort reverts memory (xmemory::abort) and
\* restores the context saved by atomicBegin (xcontext::abort), which
\* resumes inside atomicBegin and calls xmemory::begin again.  _pred and
\* _nestingLevel are not part of the restored context.
EndFailed(q) ==
  /\ ctl[q].st = "commit"
  /\ ~Consistent(q)
  /\ MemAbort(q)
  /\ MemBegin(q)
  /\ RestoreContext(q)
  /\ ctl' = [ctl EXCEPT ![q] = Running]
  /\ UNCHANGED <<data, ver, localVer, ckpt, nest, pred, status, latchVars,
                 flag, out, commitLog>>

-----------------------------------------------------------------------------
(* Exit latches (xlatch, through xthread::waitExited and setExited).      *)

\* The latch a process waits on: its predecessor's in atomicCommit and in
\* the waitPred after a thread's last section, the synced thread's in
\* xthread::sync.
WaitTarget(q) ==
  IF ctl[q].st = "xWait" /\ ctl[q].k = "sync" THEN ctl[q].c ELSE pred[q]

Waiting(q) == ctl[q].st \in {"predWait", "xWait"}

AfterWait(q) == IF ctl[q].st = "predWait" THEN "commit" ELSE "xDone"

\* xlatch::wait tests _unlatched; waitPred returns at once when there is
\* no predecessor.
LatchCheck(q) ==
  /\ Waiting(q) /\ ctl[q].w = "check"
  /\ ctl' = [ctl EXCEPT ![q] =
               IF WaitTarget(q) = NoPid \/ unlatched[WaitTarget(q)]
               THEN [@ EXCEPT !.st = AfterWait(q)]
               ELSE [@ EXCEPT !.w = "sem"]]
  /\ UNCHANGED <<memVars, stackVars, pred, status, latchVars, flag, out, commitLog>>

\* Variant of LatchSem that does not block on an empty semaphore.
LatchSemNoWait(q) ==
  /\ Waiting(q) /\ ctl[q].w = "sem"
  /\ sem' = [sem EXCEPT ![WaitTarget(q)] = @ - 1]
  /\ ctl' = [ctl EXCEPT ![q] = [@ EXCEPT !.st = AfterWait(q), !.w = "check"]]
  /\ UNCHANGED <<memVars, stackVars, pred, status, unlatched, flag, out, commitLog>>

\* sem_wait returns once the semaphore is positive.
LatchSem(q) ==
  /\ Waiting(q) /\ ctl[q].w = "sem"
  /\ sem[WaitTarget(q)] > 0
  /\ sem' = [sem EXCEPT ![WaitTarget(q)] = @ - 1]
  /\ ctl' = [ctl EXCEPT ![q] = [@ EXCEPT !.st = AfterWait(q), !.w = "check"]]
  /\ UNCHANGED <<memVars, stackVars, pred, status, unlatched, flag, out, commitLog>>

\* Variant of Unlatch that posts the semaphore once.
UnlatchOnce(q) ==
  /\ unlatched' = [unlatched EXCEPT ![q] = TRUE]
  /\ sem' = [sem EXCEPT ![q] = @ + 1]

\* Variant of Unlatch that sets the flag but posts nothing.
UnlatchNoPost(q) ==
  /\ unlatched' = [unlatched EXCEPT ![q] = TRUE]
  /\ UNCHANGED sem

\* xlatch::unlatch: set the flag, then post the semaphore twice.
Unlatch(q) ==
  /\ unlatched' = [unlatched EXCEPT ![q] = TRUE]
  /\ sem' = [sem EXCEPT ![q] = @ + 2]

-----------------------------------------------------------------------------
(* What the callers of atomicEnd do once it returns.                       *)

\* forkSpawn: fork.  The child copies the parent's address space (its
\* transient mappings, _localVersions, _pred, _nestingLevel and the
\* stack), raises its nesting level and begins its first section in
\* run_thread.  The parent makes the child its predecessor and begins a
\* section.
Fork(q) ==
  /\ ctl[q].st = "after" /\ ctl[q].k = "spawn"
  /\ LET c == ctl[q].c
         child == <<NewFrame(c, Top(q).acc)>>
         cont == Advance(q, 0)
     IN /\ ctl[c].st = "idle"
        /\ frames' = [frames EXCEPT ![q] = cont, ![c] = child]
        /\ ckpt' = [ckpt EXCEPT ![q] = cont, ![c] = child]
        /\ nest' = [nest EXCEPT ![c] = nest[q] + 1]
        /\ ctl' = [ctl EXCEPT ![q] = Running, ![c] = Running]
        /\ pred' = [pred EXCEPT ![q] = c, ![c] = pred[q]]
        /\ status' = [status EXCEPT ![c] = [forked |-> TRUE, tid |-> c,
                                            retval |-> 0]]
        /\ prot' = [prot EXCEPT ![c] = prot[q]]
        /\ priv' = [priv EXCEPT ![c] = priv[q]]
        /\ localVer' = [localVer EXCEPT ![c] = localVer[q]]
        /\ seen' = [seen EXCEPT ![q] = {}, ![c] = {}]
        /\ readSet' = [readSet EXCEPT ![q] = {}, ![c] = {}]
        /\ dirtied' = [dirtied EXCEPT ![q] = {}, ![c] = {}]
  /\ UNCHANGED <<data, ver, latchVars, flag, out, commitLog>>

\* sync, run_thread's end and finalize wait on a latch once atomicEnd
\* returns; run_thread first stores the thread's result in its status.
AfterEnd(q) ==
  /\ ctl[q].st = "after" /\ ctl[q].k \in {"sync", "exit", "final"}
  /\ ctl' = [ctl EXCEPT ![q].st = "xWait"]
  /\ status' = IF ctl[q].k = "exit"
               THEN [status EXCEPT ![q].retval = Top(q).acc]
               ELSE status
  /\ UNCHANGED <<memVars, stackVars, pred, latchVars, flag, out, commitLog>>

\* The atomicBegin of a punctuate in gracewait or gracesignal: the context
\* saved is the position inside the call.
Resume(q) ==
  /\ ctl[q].st = "after"
  /\ ctl[q].k \in {"wait", "waitEnd", "signal", "signalEnd"}
  /\ LET k == ctl[q].k
         top == IF k \in {"waitEnd", "signalEnd"}
                THEN [Top(q) EXCEPT !.pc = @ + 1, !.sub = "none"]
                ELSE [Top(q) EXCEPT !.sub = IF k = "wait" THEN "poll" ELSE "set"]
     IN AtomicBegin(q, WithTop(q, top))
  /\ UNCHANGED <<data, ver, localVer, prot, priv, nest, pred, status,
                 latchVars, flag, out, commitLog>>

\* printf, once atomicEnd returns: vprintf writes the line (standard output
\* is line-buffered and every line ends in a newline), then atomicBegin.
PrintOut(q) ==
  /\ ctl[q].st = "after" /\ ctl[q].k = "print"
  /\ out' = Append(out, <<Top(q).t, Top(q).pc>>)
  /\ AtomicBegin(q, Advance(q, 0))
  /\ UNCHANGED <<data, ver, localVer, prot, priv, nest, pred, status,
                 latchVars, flag, commitLog>>

\* *result = t->retval in sync of a forked thread, into page p: a store
\* between atomicEnd and atomicBegin, while _pages still holds the pages
\* of the section that ended.  It faults until p is writable: a page not
\* in _pages is first recorded as a read (PROT_READ, _localVersions[p] =
\* the current version), the retried store faults again and is recorded
\* as a write (PROT_READ|WRITE); it then lands in the private copy.  What
\* the faults add to _read and _dirtied is cleared by the atomicBegin
\* that follows.
StoreResult(q, p, v) ==
  /\ prot' = [prot EXCEPT ![q][p] = ProtRW]
  /\ priv' = [priv EXCEPT ![q][p] = v]
  /\ localVer' = IF prot[q][p] # ProtRW /\ p \notin seen[q]
                 THEN [localVer EXCEPT ![q][p] = ver[p]]
                 ELSE localVer

\* sync: take the result (*result = t->retval), free the handle's memory
\* and begin a section.
SyncFinish(q) ==
  /\ ctl[q].st = "xDone" /\ ctl[q].k = "sync"
  /\ LET d == Cur(q).dest
         v == status[ctl[q].c].retval
     IN IF d = "stack"
        THEN /\ AtomicBegin(q, Advance(q, v))
             /\ UNCHANGED <<localVer, prot, priv>>
        ELSE /\ AtomicBegin(q, Advance(q, 0))
             /\ StoreResult(q, d, v)
  /\ UNCHANGED <<data, ver, nest, pred, status, latchVars, flag, out,
                 commitLog>>

\* forkSpawn after run_thread and waitPred: setExited, then _exit.
ChildExit(q) ==
  /\ ctl[q].st = "xDone" /\ ctl[q].k = "exit"
  /\ Unlatch(q)
  /\ ctl' = [ctl EXCEPT ![q] = Exited]
  /\ UNCHANGED <<memVars, stackVars, pred, status, flag, out, commitLog>>

\* finalize has waited for main's predecessor: main's process ends.
FinalExit(q) ==
  /\ ctl[q].st = "xDone" /\ ctl[q].k = "final"
  /\ ctl' = [ctl EXCEPT ![q] = Exited]
  /\ UNCHANGED <<memVars, stackVars, pred, status, latchVars, flag, out, commitLog>>

-----------------------------------------------------------------------------
(* The specification.                                                      *)

\* xthread::initExited, run by the xthread constructor: the table of exit
\* latches in a MAP_SHARED mapping, every latch constructed not unlatched
\* with its semaphore at 0.  It is indexed by pid; pids are distinct here.
InitExited ==
  /\ unlatched = [q \in Procs |-> FALSE]
  /\ sem = [q \in Procs |-> 0]

\* After xrun::initialize: main runs its first section at nesting level 0.
RunInit ==
  /\ PersistInit
  /\ seen = [q \in Procs |-> {}]
  /\ frames = [q \in Procs |-> IF q = Main THEN <<NewFrame(Main, 0)>> ELSE <<>>]
  /\ ckpt = frames
  /\ nest = [q \in Procs |-> 0]
  /\ ctl = [q \in Procs |-> IF q = Main THEN Running ELSE Idle]
  /\ pred = [q \in Procs |-> NoPid]
  /\ status = [t \in Threads |-> NoPid]
  /\ InitExited
  /\ flag = [c \in CVs |-> FALSE]
  /\ out = <<>>
  /\ commitLog = <<>>

\* Every process has ended.  The system stops here.
Finished == \A q \in Procs : ctl[q].st \in {"idle", "exited"}

Step(q) ==
  \/ ReadAccess(q) \/ WriteAccess(q) \/ Fault(q)
  \/ SpawnInline(q) \/ ReturnInline(q) \/ SpawnFork(q)
  \/ SyncInline(q) \/ SyncFork(q) \/ ThreadDone(q)
  \/ CondCall(q) \/ Poll(q) \/ SetFlag(q) \/ PrintCall(q) \/ PthreadExit(q)
  \/ MutexCall(q)
  \/ IrrevCall(q) \/ IrrevCheck(q)
  \/ EndOptimized(q) \/ EndWait(q) \/ EndSucceeded(q) \/ EndFailed(q)
  \/ LatchCheck(q) \/ LatchSem(q)
  \/ Fork(q) \/ AfterEnd(q) \/ Resume(q) \/ PrintOut(q) \/ SyncFinish(q)
  \/ ChildExit(q) \/ FinalExit(q)

RunNext == \E q \in Procs : Step(q)

\* Every thread is an OS process that the kernel keeps scheduling while it
\* is runnable; a process blocked in sem_wait is not enabled.
RunFairness == \A q \in Procs : WF_runVars(Step(q))

RunSpec == RunInit /\ [][RunNext]_runVars /\ RunFairness

-----------------------------------------------------------------------------
(***************************************************************************)
(* The reference: the serial elision of the program, in which spawn calls *)
(* the thread function, sync returns its saved result, wait and signal    *)
(* only end sections, printf writes its line, and pthread_exit returns 0 *)
(* from the thread.                                                        *)
(* Serial(t, pc, acc, s) runs thread t from instruction pc with register  *)
(* acc on the state s: the memory, the threads' results, the positions    *)
(* executed in serial order (a thread's end included) and the memory      *)
(* before each of them.                                                    *)
(***************************************************************************)
RECURSIVE Serial(_, _, _, _)
Serial(t, pc, acc, s) ==
  LET s1 == [s EXCEPT !.trace = Append(@, <<t, pc>>), !.snap = Append(@, s.mem)]
      i == Prog[t][pc]
  IN IF pc > Len(Prog[t]) THEN [s1 EXCEPT !.ret[t] = acc]
     ELSE CASE i.op = "read" ->
                 Serial(t, pc + 1, (acc + s1.mem[i.page]) % K, s1)
            [] i.op = "write" ->
                 Serial(t, pc + 1, acc,
                        [s1 EXCEPT !.mem[i.page] = (@ + acc + 1) % K])
            [] i.op = "spawn" ->
                 Serial(t, pc + 1, acc, Serial(i.child, 1, acc, s1))
            [] i.op = "sync" /\ i.dest = "stack" ->
                 Serial(t, pc + 1, (acc + s1.ret[i.child]) % K, s1)
            [] i.op = "sync" ->
                 Serial(t, pc + 1, acc,
                        [s1 EXCEPT !.mem[i.dest] = s1.ret[i.child]])
            [] i.op \in {"wait", "signal", "print", "io", "lock"} ->
                 Serial(t, pc + 1, acc, s1)
            [] i.op = "exit" ->
                 [s1 EXCEPT !.ret[t] = 0]

SerialRun ==
  Serial(Main, 1, 0, [mem |-> [p \in Pages |-> 0],
                      ret |-> [t \in Threads |-> 0],
                      trace |-> <<>>, snap |-> <<>>])

\* Position of an instruction in the serial order.
SerialPos(e) == CHOOSE i \in DOMAIN SerialRun.trace : SerialRun.trace[i] = e

\* The refinement mapping: the serial position where the last committed
\* section ended.
LastEnd == IF commitLog = <<>> THEN 1 ELSE SerialPos(Last(commitLog).end)

\* The printf calls of the program, in serial order.
SerialPrints ==
  LET IsPrint(e) == e[2] <= Len(Prog[e[1]]) /\ Prog[e[1]][e[2]].op = "print"
  IN SelectSeq(SerialRun.trace, IsPrint)

Abstract == INSTANCE SerialMemory WITH Snap <- SerialRun.snap,
                                       mem <- data, pos <- LastEnd

-----------------------------------------------------------------------------
(* Properties.                                                             *)

(* Grace's promise about shared memory (spec sections 1 and 5): each      *)
(* commit moves the heap and globals to the state the serial elision has  *)
(* where the committed section ends, and that position only moves          *)
(* forward.  It rests on the _pred chain that forkSpawn sets up, keeps    *)
(* across OPTIMIZED commits and clears after SUCCEEDED ones, and on the   *)
(* validation that rolls back sections that read stale pages.             *)
SerialRefinement == Abstract!Spec

(* Determinism: once every process has exited, the heap and globals hold *)
(* what the serial elision computes, so no section's writes were lost.   *)
Deterministic == Finished => data = SerialRun.mem

(* printf output is deterministic: the lines written so far are the first *)
(* lines of the serial elision's output.  The printf interposer writes    *)
(* right after atomicEnd, which waits for the predecessor only when the   *)
(* section read or wrote something.                                       *)
OutputSerial == out = SubSeq(SerialPrints, 1, Len(out))

\* q's running section has passed ensureIrrevocable: an I/O call lies
\* between the instruction it started at and the current one.
Irrevocable(q) ==
  LET s == Last(ckpt[q])
  IN  /\ ctl[q].st \in {"run", "end", "predWait", "commit"}
      /\ s.t = Top(q).t
      /\ \E i \in s.pc .. Top(q).pc - 1 : Prog[s.t][i].op = "io"

(* Once a section has passed ensureIrrevocable, it stays consistent until *)
(* it commits: no other process commits a page it read in between, so    *)
(* the section cannot roll back and the I/O it did is never done twice.  *)
(* xrun relies on this for I/O that it cannot undo; it holds only        *)
(* because waitPred waits for the predecessor chain and every process    *)
(* behind the chain waits for this one before committing.                *)
IrrevocableConsistent == \A q \in Procs : Irrevocable(q) => Consistent(q)

(* Every process eventually exits.  No process stays blocked on an exit  *)
(* latch: xlatch::unlatch posts its semaphore twice, for the two          *)
(* processes that may wait on one thread's exit (its successor in the     *)
(* _pred chain and the parent in sync).  No section rolls back forever,   *)
(* and no gracewait polls forever.  A state with no successor short of    *)
(* Finished also violates it, so the runs do not check deadlock           *)
(* separately.                                                            *)
Termination == <>Finished

(* A page a process can store to without a fault is in its dirtied set,  *)
(* so the next commit copies it back.  The fault handler makes a page     *)
(* writable only with recordWrite, and xmemory::begin clears _pages,      *)
(* _read and _dirtied but no protection: a store made between atomicEnd   *)
(* and atomicBegin (by spawn, sync, printf, gracewait or gracesignal) is  *)
(* classified against the pages of the section that ended, and a page it *)
(* makes writable stays writable, untracked, in the next section.         *)
WritableIsDirtied ==
  \A q \in Procs, p \in Pages : prot[q][p] = ProtRW => p \in dirtied[q]

=============================================================================
