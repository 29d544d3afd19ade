# TLA+ models of Grace

Grace runs a multithreaded C/C++ program deterministically. It turns every
thread into a process and every section between synchronization points into a
transaction. This directory holds TLA+ models of the runtime under `src/src/`
and TLC configurations that check them. `PROJECT.json` lists the components,
the runs, the map from each definition to the lines of code it models, the
findings and the hazards.

## The system

| Part (spec section) | Code | What it does |
|---|---|---|
| VersionedRegion (4.1) | `include/xpersist.h`, `include/xglobals.h` | A region backed by a shared file with one version counter per page. Each process sees the region through a `MAP_PRIVATE` *transient* mapping. It keeps `_read`, `_dirtied` and `_localVersions`. `consistent()` compares versions. `commit()` copies each dirtied page back and then stores its new version. `updateAll()` remaps everything `PROT_NONE`. |
| AccessTracker / MemorySpace (4.2) | `include/xmemory.h` | Pairs the heap and globals regions. Its SIGSEGV handler treats the first fault on a page in a transaction as a read (`PROT_READ`, `recordRead`). It treats a second fault as a write (`PROT_READ\|WRITE`, `recordWrite`). `tryToCommit` validates and commits under both region locks. |
| cross-process lock | `xplock.h` | A process-shared pthread mutex in a shared mapping. It is held across validate+commit. Readers never take it. |
| RollbackCheckpoint (4.3) | `xcontext.cpp` | Saves the stack and registers at `atomicBegin` and restores them on abort. |
| ThreadEmulator (4.4) | `source/xthread.cpp`, `include/xthread.h`, `include/xlatch.h`, `log.h` | `spawn` runs the thread function in-process when the nesting level is at least log2(nCPUs). Otherwise it ends the transaction and forks. The parent makes the child its predecessor (`_pred`), and the child inherits the parent's `_pred`. `sync` ends the transaction and waits for the child's exit latch. A child ends its last section, waits for its predecessor, then unlatches. |
| TransactionCoordinator (4.5) | `xrun.h` | `atomicEnd` calls `atomicCommit`, with three outcomes. **OPTIMIZED**: nothing was touched, so `updateAll` runs and `_pred` is kept. **SUCCEEDED**: wait for the predecessor, then `tryToCommit`, then clear `_pred`. **FAILED**: abort memory, restore the context and re-run from `atomicBegin`. |
| interposition | `libgrace.cpp` | The constructor and destructor call `initialize` and `finalize`. `pthread_create`/`pthread_join` call `spawn`/`sync`. `printf` runs as end + output + begin. The condition variable is a flag in `MAP_SHARED` memory polled with `punctuate` (`gracewait`/`gracesignal`). `pthread_exit` is `_exit(0)`. The mutex calls are no-ops. |
| heap (6, external collaborator) | `include/graceheap.h`, `warpheap.h`, `xoneheap.h`, `xadaptheap.h`, `bumpheap.h`, `ppheap.h` | Sixteen Kingsley heaps live inside the heap region. `PPHeap` picks one by `pthread_self() & 15`, and libgrace's `pthread_self` returns the process's pid. Their memory comes through `NewSourceHeap` (object headers, page alignment of large objects) from one bump allocator. That allocator is built in a static buffer of the runtime library, outside the versioned regions. |
| buffered I/O | `include/xio.h`, `include/xfile.h`, `xrun.h` 157-205 | `xrun::open/close/write/read/lseek` first call `ensureIrrevocable`, which waits for the predecessor and aborts if the section is no longer consistent. `xio` keeps a list of open files; `write` appends a copy of the bytes as a section of the file; `read` and `lseek` flush first; `close` marks the entry. `xio::commit` runs after each SUCCEEDED commit: it writes every section and then closes the marked files. No interposer of this build calls these entry points: libgrace.cpp's are under `#if 0`, and xio.h's are under `REPLACE_IO_FUNCTIONS`, which is defined only after the include. |
| page-diff test | `testdiffs.cpp` | A stand-alone program: `writeDiffs` merges the bytes of a page that differ from its twin into a destination, with SSE. `naiveWriteDiffs` is the byte loop. |

How the parts interact:
- The predecessor chain is the only thing that orders commits. A section
  commits only after its predecessor process has exited. OPTIMIZED sections
  pass the predecessor on.
- Validation catches any tracked page read before a conflicting commit.
- The library's own static data is private to each process and is copied at
  fork. This covers `_pred`, `_nestingLevel`, the thread handles and the bump
  allocator.

## Modules

- **`XPersist`**: the region.
  - The shared state is `data` and `ver`. Each process has `localVer`,
    `readSet`, `dirtied`, `prot` and `priv`.
  - `View(q,p)` is what a load through the transient mapping sees: the private
    copy, otherwise the live page cache.
  - There is one operator per xpersist method. In `PersistCommit`, validate
    and commit are one step, because the lock is held across them.
    `UpdatePages` is the `updatePage` loop at the end of `commit`.
    `ZeroPages` is the constructor's zero-filled file and version array.
- **`XMemory`** (extends XPersist): `seen` (`_pages`), `HandleFault`
  (xmemory::handle), `MemBegin`, `MemIsNop`, `MemUpdateAll`,
  `IsConsistent`, `TryToCommitOK` and `MemAbort`. The heap and globals
  regions are one page set `Pages`, so each xmemory method that calls
  both regions is the XPersist operator over `Pages`.
- **`XCommit`** (extends XMemory): the commit path taken apart.
  - The lock is acquired and released as separate steps (`LockInit`,
    `Acquire`, `Unlock`, from `xplock`).
  - `Validate` is `consistent()`. On failure it unlocks and aborts.
  - The loop body of `xpersist::commit` is split into `CopyPage` (memcpy)
    and `StoreVersion`. `FinishCommit` runs `updatePage` and unlocks.
  - Other processes fault and load concurrently, without the lock. The
    history `contents` records each page's contents at each version. `obs`
    records each tracked load with the version its fault recorded.
- **`XRun`** (extends XMemory): the whole runtime, driven by a fixed client
  program `Prog`.
  - Each logical thread is a list of `read p`, `write p`, `spawn t`,
    `sync t` (its result going to the frame or to a page), `wait c`,
    `signal c`, `print` and `exit`.
  - The state of each process:
    - `frames`: the stack of logical-thread frames; in-process spawns push one;
    - `ckpt`: the xcontext checkpoint;
    - `ctl`: the control stage inside atomicEnd, the latch wait and the caller;
    - `pred`: `_pred`;
    - `nest`: `_nestingLevel`;
    - `status`: the ThreadStatus handles;
    - `unlatched`/`sem`: the exit latches.
  - Shared state: `flag` (the condition flags), `out` (the lines printed) and
    `commitLog` (a history).
  - Each code step is an action:
    - spawn and sync: `SpawnInline`, `ReturnInline`, `SpawnFork`, `Fork`,
      `SyncInline`, `SyncFork`, `SyncFinish`. A sync into a page stores
      `*result` through the fault handler (`Fault`, `Accessed`). For a
      forked thread that store comes after atomicEnd, and `StoreResult`
      gives the net effect of its faults before atomicBegin;
    - thread and process end: `ThreadDone`, `AfterEnd`, `ChildExit`,
      `FinalExit`;
    - atomicEnd: `EndOptimized`, `EndWait`, `EndSucceeded`, `EndFailed`;
    - latches: `LatchCheck`, `LatchSem`;
    - condition variables: `CondCall`, `Poll`, `SetFlag`, `Resume`;
    - output: `PrintCall`, `PrintOut`;
    - `PthreadExit`, and `MutexCall` for the no-op mutex and rwlock calls;
    - `Spawning` and `Joining` are the guards of the `pthread_create` and
      `pthread_join` interposers.
  - `InitExited` is the latch state that `xthread`'s constructor sets up.
  - Rollback restores only the frames, as in the code. `_pred`,
    `_nestingLevel` and the handles live outside the rolled-back state.
  - `Serial` (RECURSIVE) computes the serial elision: its memory after each
    step, its final memory and its output. `Log` (RECURSIVE) is the `log.h`
    loop.
  - An `io` instruction is a call of xrun's I/O interface: `IrrevCall` is
    `ensureIrrevocable`'s `waitPred` (through the same latch stages) and
    `IrrevCheck` its `isConsistent` check, which aborts the section on
    failure.
- **`XThread`**: the thread table of `xthread.h`/`xthread.cpp` next to
  `xrun::_pred`. Each logical thread has a process with a pid, taken by
  fork from the pids no running or zombie process holds. The table also
  has the handle's stored `tid`, the parent, and the latch array indexed
  by `pid % THREAD_STATUS_LENGTH`, which is never reset.
  - `Spawn`, `SyncEnd`/`SyncReturn`, `ThreadEnd`/`SetExited` and
    `Finalize` are the forked paths of spawn, sync, run_thread and the end
    of main.
  - `Reap` is init reaping a zombie whose parent has exited. Nothing in
    the runtime calls `waitpid`.
  - Data is reduced to whether the running section stored to a tracked
    page, since that decides between an OPTIMIZED end, which keeps
    `_pred`, and a SUCCEEDED one, which clears it.
  - XRun keeps a latch per thread and has no pids. XThread adds pids and
    leaves out memory and in-process spawns. `MC_XThread` instantiates it.
- **`XIO`**: xrun's I/O interface over xio, for processes that run a fixed
  list of calls (`open`, `connect`, `accept`, `write`, `close`, `read`,
  `lseek` on a descriptor,
  `touch` a tracked page, `end` a section, `spawn`).
  - State: `files[q]` is q's `_filelist`, a sequence of records with the
    descriptor, the closed mark and the sequence of buffered sections;
    `kfds[q]` is q's kernel descriptor table; `dirty[q]` says whether the
    section is non-null; `out[fd]` is what write(2) put in each file; the
    history `issued` holds every write that returned count.
  - A datum is `<<process, pc>>` of the write that buffered it.
  - `XioCommit` returns the set of outcomes of `xio::commit`: the code's
    loops erase an iterator and then advance it, which is undefined
    behaviour. `WriteLoop` and `CloseLoop` (RECURSIVE) return each outcome the
    build can produce: either the freed node is still intact and the loop goes
    on, or the process crashes.
  - `AtomicEnd` calls `XioCommit` only for a non-null section, as
    `atomicCommit` does. `Spawn` copies the list and descriptors into the
    child. `Finish` is the last atomicEnd before `_exit`.
  - Aborts are left out. Once a section has made its first I/O call,
    `ensureIrrevocable` has passed, and XRun's `IrrevocableConsistent` shows
    that such a section then no longer aborts. Before that call, the section
    has buffered nothing.
- **`XDiffs`**: `testdiffs.cpp`. `MoveChunk` is one iteration of
  `writeDiffs` (a bytewise compare, XOR with all ones, and a masked store of
  the bytes whose mask has its high bit set, with `Bitwise`'s `^^` and
  `shiftR`). `WriteDiffsFrom` (RECURSIVE) is the chunk loop. The reference is
  `NaiveWriteDiffs`. A page of 4 bytes in chunks of 2 stands for 4096 in
  chunks of 16.
- **`SerialMemory`**: the abstract promise. The shared memory moves only
  through the memory states of the serial elision, and only forward, several
  steps at a time. XRun refines it. The mapping sends `mem` to `data`, and
  `pos` to the serial position where the last committed section ends.
- **`XHeap`**: malloc on the path that reaches the bump allocator.
  - The path runs through NewSourceHeap's enlargement of page-sized requests
    and its header placement, and then through `bumpheap::malloc`'s rounding
    and NULL return.
  - Each process has its own `position`, `remaining` and `pred`
    (xrun's `_pred`). `Fork` copies them, then makes the child the
    parent's predecessor, as forkSpawn's `setPred` does. A rolled-back
    section does not restore them.
  - `EndSection` waits for the predecessor to exit (`PredDone`, waitPred
    in atomicCommit) before it validates. A commit clears `pred`. `Exit`
    waits the same way, as the child does before `setExited` and main
    does in `finalize`.
  - `StoreObject` is the header store and xmemory::malloc's store of 0
    into the first byte, which for a large object is on the next page.
    Each is a page write, validated at `EndSection` against the
    page versions `pver`.
  - `Realloc` is libgrace's `realloc` for a live object and a non-zero
    size. It loads the old header (`GetSize`, NewSourceHeap::getSize: the
    size the header records, enlarged for a page-sized request), takes the
    Malloc path, and copies `CopyLen` = min(getSize, sz) bytes. `copied`
    holds the last copy. The old object's pages are loads and the new one's
    are stores: `touched` records every page's version for validation, and
    only `written` pages get a new version at commit. The `gracefree` that
    follows is Heap Layers code and is not modelled.
  - `owned` holds the committed objects.
  - Addresses are offsets in the region. A page of 64 bytes stands for 4096,
    so that a few allocations reach a page boundary.

Every module defines, next to the operator it changes, a *variant* that
models a plausible bug. Each variant is used once to confirm that a property
detects the bug (see `mutants` in PROJECT.json).

## Runs

| run | cfg | result | shows |
|---|---|---|---|
| run_forks | `XRun.cfg` | pass, 7.3K states | Under `ProgForks`, XRun refines SerialMemory (`SerialRefinement`). The final memory is the serial result (`Deterministic`). Every process exits (`Termination`). |
| run_reread | `XRun_reread.cfg` | **violation** | main reads x, forks a child that writes x, and reads x again untracked. Its later commit validates, so the final memory differs from the serial result (`Deterministic`). |
| run_condwait | `XRun_condwait.cfg` | **violation** | main forks a and signals after a write. a waits. main's section waits in `waitPred` for a, and a polls forever (`Termination`). |
| run_print | `XRun_print.cfg` | **violation** | main and its child both print. main's print ends an OPTIMIZED section and does not wait for the child, so the lines come out in either order (`OutputSerial`). |
| run_irrevocable | `XRun_irrev.cfg` | pass, 1.4K states | Once `ensureIrrevocable` has returned, the section stays consistent until it ends, so I/O is never issued by a section that later aborts (`IrrevocableConsistent`). main's join of a ends OPTIMIZED without waiting for b, so main calls `pthread_exit` while b may still run, and every process still exits (`Termination`). Both branches of the check fire. |
| commit_loop | `XCommit.cfg` | pass, 506K states, ~30 s | A writable page is always in the dirtied set (`NoUntrackedWrite`), so no store escapes the commit. A process that passes validation loaded, through every recorded read, the contents of the version the handler recorded (`ReadsMatchVersion`). This holds because commit copies a page before storing its version. The lock is held exactly while a process is inside `tryToCommit`, so it is released on both exits (`LockHeldInCommit`). |
| io_buffer | `XIO.cfg` | pass, 1.1K states | Under `ProgAll` each process's output reaches each file in the order it buffered it (`IssueOrder`). No listed descriptor is closed in the kernel (`ListedFdsOpen`). open(2), accept(2) and connect(2) may fail. |
| diffs | `XDiffs.cfg` | pass, 12K states | For every page over two byte values, repeated `writeDiffs` leaves the destination as one `naiveWriteDiffs` would (`MatchesNaive`). |
| heap_alloc | `XHeap.cfg` | pass, 83K states, ~6 s | Small objects are allocated and reallocated with forks, rollbacks and predecessor waits. `HeapTypeOK` includes `remaining` staying within the region, so no path of malloc or realloc hands out more than is left. `ObjectInBlock` and `ReallocInBlocks` are not checked here. With classes below a page they hold by arithmetic, since getSize equals the request. With a page-sized class, heap_header's defect is met first. |
| heap_alias | `XHeap_alias.cfg` | **violation** | main and its child allocate from the same bump position. The child commits and exits. main's allocation faults after that, and it waits for the child as its predecessor. It then validates, so both objects commit at one address (`NoAlias`). |
| heap_header | `XHeap_header.cfg` | **violation** | After two small objects the bump position is 8 bytes below a page boundary. A page-sized object's header then lands before its block (`ObjectInBlock`). |
| thread_pidreuse | `XThread_pidreuse.cfg` | **violation** | a forks b and exits without joining it; once both are reaped, main's next child c gets b's old pid, whose latch is already open, so main's `pthread_join(c)` returns while c runs (`JoinAfterExit`). |

`MC_XRun` and `MC_XIO` also define programs that no configured run uses.
`ProgMainExit` (main calls `pthread_exit` right after a fork) is kept as a
second `Deterministic` scenario. Each of the others reproduces a defect listed under "Known defects" below with the
property named there (swap the program into the cfg's `Prog`):
`ProgExit` (`Termination`), `ProgLost`
(`NoLostOutput`), `ProgForkDup` and `ProgTwoWrites` (`WrittenOnce`),
`ProgSeek` (`NoCrash`), `ProgJoinTo` (`WritableIsDirtied`, `Deterministic`).
`XHeap`'s `ReallocInBlocks` is likewise kept for the realloc over-read
below.

Bounds:
- **run_forks**: `ProgForks` is built so that every interesting path
  happens:
  - a null section between two forks, so `b` inherits `a` as its
    predecessor;
  - main syncing `a` while `b` also waits on `a`'s latch, i.e. two waiters
    on one latch;
  - `b` reading the page `a` writes, which makes rollbacks happen;
  - `b` at nesting level 1 = log2(2), so its spawn of `d` runs in-process,
    and `b` joins `d` into page x, a store that faults inside the section;
  - main waiting on a condition that `a` signals;
  - `a` locking a mutex (a no-op), and `d` printing.
- **run_irrevocable**: in `ProgIrrev`, main first calls the I/O interface
  between a read and a write of y. It then forks two children with nothing
  between, so the chain is b, a, main. Both children call the I/O interface
  between a read of x and writes the other reads, and b's call waits for a.
  main's section after the spawn of b is empty, so its join of a ends
  OPTIMIZED without waiting for b. main then calls `pthread_exit` while b
  may still run. `PthreadExit`, `IrrevCall` and both outcomes of
  `IrrevCheck` fire there. b aborts at its check when a's commit of x
  came after b's read.
- **commit_loop**: two processes, two pages, one commit per page, with
  symmetry over processes and over pages. The run checks safety only, so
  symmetry is sound. A reader racing one commit of a
  page is the case the property is about. Every load, store, fault and end
  outcome is open to both processes, so a store that skips the fault
  handler would be found.
- **thread_pidreuse**: four threads, pids 1..4 and five latches, so every
  pid has a latch of its own and reuse is the only route to a shared latch.
  With pid_max = 4194304 and 1048576 latches, aliasing of two live pids is
  a second route that this bound leaves out.
- **heap_alloc**: two processes and a 128-byte region, of which the
  PerThreadHeap takes 48 bytes (`MetaSize`). That leaves two or three
  allocations or reallocations per process, the first of them across the
  page boundary at 64, and a NULL return after that. Rollbacks happen
  because the two processes share bump positions after the fork. realloc
  can take an object of either process, committed or its own pending one.
- **io_buffer**: two processes and four descriptors (two files, stdout and a
  socket). main opens a file, accepts on the other, writes twice to the first
  before a fork, and closes and seeks after it; the child connects the
  socket, writes, closes, reads and seeks through the copied list. Every
  call hits both a listed and an unlisted descriptor somewhere, and open,
  accept and connect may fail. Two writes in one section is the smallest
  case of the commit loop's undefined behaviour.
- **diffs**: 3 x 16 x 16 x 16 initial pages. Two lanes per chunk is the least
  that tells a bytewise compare from a lane compare.

Fairness: each XRun process has weak fairness on its steps. Every Grace
thread is an OS process, and the kernel keeps scheduling a runnable process.
A process blocked in `sem_wait` is not enabled, so fairness does not hide a
lost wakeup. The program stops when every process has exited, so the runs
set `CHECK_DEADLOCK FALSE`. `Termination` fails on any state without a
successor other than the end. XCommit, XHeap and XIO check safety only, and their processes may stop
anywhere. In XCommit, deadlock checking and `LockHeldInCommit` together
cover the lock. Between `lock` and `unlock` the holder always has a step,
and it leaves only through `unlock`.

## Findings (violation runs)

1. **Leftover `PROT_READ`** (run_reread). `xpersist::commit` calls
   `updatePage` only on dirtied pages, and `xpersist::begin` only clears the
   sets. Spec 4.2 says the per-page state is "reset every transaction". So a
   page read but not written keeps `PROT_READ` after a SUCCEEDED commit, and
   into a forked child. Later loads of it are invisible to validation.
2. **Condition variable livelock** (run_condwait). `gracewait` polls with
   null sections, which never wait for anyone. A signaller that is the
   waiter's successor blocks in `waitPred` until the waiter exits.
3. **Output order** (run_print). `printf` writes right after `atomicEnd`,
   and an OPTIMIZED end does not wait for the predecessor.
4. **Heap aliasing** (heap_alias). The bump allocator lives in the library's
   static data. After fork each process hands out the same addresses.
   Validation only stops this when the header page conflicts. The
   predecessor wait orders the commits but not the bump pointers, so a
   parent that allocates after its child's commit still validates.
5. **Header before the block** (heap_header). `NewSourceHeap` puts the header
   of a large object 16 bytes below the next page boundary. That is before
   the block when the block starts less than 16 bytes below a boundary.

6. **Exit latch of a reused pid** (thread_pidreuse). `setExited` opens
   latch `getpid() % THREAD_STATUS_LENGTH`, and nothing closes it again.
   With `USE_XLATCH` nothing calls `waitpid`, so the kernel reuses a pid
   once init has reaped the zombie that held it. A thread forked with that
   pid finds its latch open, and `pthread_join` and `waitPred` return
   before it has committed. Two live pids that agree modulo 1048576 share
   one latch in the same way.

## Known defects without a configured run

These are listed as hazards in PROJECT.json. The XRun ones are reproduced by
one of the unused programs above, the realloc over-read by the instance
given with it.

- **`pthread_exit` in a joined thread** (`ProgExit`). `_exit(0)` skips the
  commit and the exit latch, so `pthread_join` never returns.
- **Buffered output lost** (`ProgLost`). `atomicCommit` calls `xio::commit`
  only on SUCCEEDED. Writes in a section that touched no tracked page stay
  buffered, and are lost when the thread exits.
- **Buffered output duplicated** (`ProgForkDup`). fork copies the pending
  sections, and both processes flush them.
- **`list_remove` erases the wrong node** (`ProgTwoWrites`). It erases
  `_sect`, which stays at the first section. The commit loop then advances
  an erased iterator (undefined behaviour). The later sections are either
  rewritten at the next commit, or the process crashes.
- **Inverted assertion in `lseek`** (`ProgSeek`). It asserts that the lookup
  found nothing and then dereferences the result.
- **A joined result stored to the heap or globals is lost** (`ProgJoinTo`).
  `sync` of a forked thread stores `*result` after `atomicEnd` and before
  `atomicBegin`. The store faults against the `_pages` of the section that
  ended, and the page becomes writable with `recordWrite`. `atomicBegin`
  then clears `_dirtied` but not the protection. The result, and every
  later store to that page, stays private, and the next OPTIMIZED end
  drops it. For `pthread_join(a, &y)` with a global `y`, y ends at 0 where
  the serial program has a's result.
- **Stores outside the regions succeed.** `xmemory::handle` calls
  `mprotect` on the faulting page before `recordRead` or `recordWrite`
  look for its region. A store to a read-only page outside both regions
  (a string literal, code) faults twice and then succeeds, where the
  program would crash without Grace. Spec 4.2 says such an address is
  ignored. The models' pages are the regions' pages only.
- **realloc over-reads an enlarged object.** `getSize` returns the size
  the header recorded, which for a page-sized request is a page more than
  the bytes after the header. With the classes {64, 128} (main alone, a
  512-byte region) TLC finds `ReallocInBlocks` violated: an object of 64
  bytes in the block [8, 152) has its body at 64, and realloc to 128 copies
  128 bytes, up to byte 191. heap_alloc's classes stay below a page.
- **realloc frees the block it could not replace.** It calls `gracefree`
  even when `gracemalloc` returned NULL, where C leaves the old block
  intact. Frees are not modelled (below).
- `xio::connect` returns the descriptor rather than connect's result, and
  the xpersist constructor reads `_versionsFd` before it is set; neither is
  part of a model's state.

The xio defects are reached only by a client of xrun's I/O interface; no
interposer in this build calls it.

## Not modelled, and why

- **The file position of xio's sections**: it is kept but never used by
  `commit`.
- **Heap frees, free lists and the zone heap**: their code (Heap Layers) is
  not in this repository, and neither is the Kingsley size-class rounding
  of a request. `calloc` is left out with it: it clears exactly the wrapped
  `n * s` it allocated, so its unchecked product overruns only in the
  caller. It is listed as a hazard.
- **Throttle semaphore**: its uses are commented out.
- **libgrace2.cpp**: an older front end. It creates xrun with `new` through
  a private constructor and calls `initialize` with an argument, so it does
  not build against this xrun.
- **`madvise` of `_localVersions` in `updateAll`**: it is never read before
  `recordRead` refreshes it.
- **Fatal SEGV branches**: they end the program.
- **stdio buffering**: the model writes each line at once.

## Plan for the next steps

1. Model the globals region bounds and `xmemory::initialize`.
2. Add the condition-variable and print programs as abstract steps of
   SerialMemory, so that output order is part of the refinement.
3. Model `vprintf` in `PrintOut` as a store to the heap page of stdout's
   buffer when libc allocates it with the interposed `malloc`. It is
   another store between `atomicEnd` and `atomicBegin`, open to the same
   loss as the joined result.
4. Give `ProgJoinTo` and the realloc instance a configured run each, if the
   number of runs allows it.
