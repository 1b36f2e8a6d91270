# TLA+ models of the kPanic virtual-memory core, user threads and processes

These modules model the copy-on-write (COW) virtual-memory core of kPanic, as
described in `spec.md` and implemented under `src/`. The core has three parts:
- the four-level page tables (`ArchMemory`);
- the COW ownership tracker (`COWManager`);
- the page fault handler (`PageFaultHandler`).

The modules also model the process operations that drive the core: fork,
exit and teardown (`UserProcess`, `Syscall`). Each definition is written from
the source lines that `PROJECT.json` ("map") gives it. Beyond the core, they
model the page tables themselves (`ArchMemory`) against an abstract address
space, user-stack growth and thread creation, and the user-thread join /
cancel / exit protocol with process exit and execv, the process
registry with `waitpid`, and pipes shared between processes (against an
abstract FIFO). Only the frame
allocator and the Loader are not in this repository. They are modelled from
spec section 6 and marked `spec_modelled`.

## 1. Inventory

### Components and their state

| Component | Source | State |
|---|---|---|
| COW ownership tracker | `COWManager.cpp` | `cow_map_`: frame -> set of processes; `cow_map_lock_` (a Mutex) |
| Page fault resolver | `PageFaultHandler.cpp` | stateless; reads the trap flags and the faulting thread's stack counter |
| Address space manager | `ArchMemory.cpp` | one four-level table per process; a lock per level (`pml4_lock_` ... `pt_lock_`) |
| Process lifecycle | `UserProcess.cpp`, `Syscall.cpp`, `UserThread.cpp` | process slots (pid), threads, `called_exit_`, `loader_` |
| User threads | `UserProcess.cpp`, `UThreadManager.cpp`, `UserThread.cpp` | `thread_list_` + `thread_list_lock_`, `ret_values_`, `waiting_list_` + `waiters_lock_` and its Condition, per-thread `stack_pages_`, cancel flags |
| Scheduler (its effect on user threads) | `Scheduler.cpp` | cancellation at dispatch; `cleanupDeadThreads` |
| Process registry and waitpid | `ProcessRegistry.cpp`, `UserThread.cpp`, `Syscall.cpp` | `pid_counter_`, `process_list_`, `progs_running_` + `counter_lock_` and `all_processes_killed_`; `waitpid_map_` (pid -> Condition), `wait_pid_map_helper_`, `last_dead_pid_` under `waitpid_map_lock_`, and `any_process_died_` |
| Pipes | `UserProcess.cpp`, `Syscall.cpp`, `RingBuffer.h` | per process `pipes_` (fd pair -> RingBuffer) + `pipes_lock_`; per RingBuffer `buffer_`, `write_pos_`, `read_pos_`, `connected_proc_counter_` |
| Frame allocator (external) | not in the repository | free frames |
| Loader (external) | not in the repository | demand-loads image pages |

### Operations

- **Tracker:**
  - `addToCOWMap`, `ppnShared` and `eraseProcessFromCOWMap`;
  - `handleCOWPageFault`, which has four branches: the assert (size 0, or the faulting process not in the set), case 1, case 2 and case 3+;
  - `eraseProcessFromPage`, which has no caller.
- **Resolver:** `enterPageFault` (trap, cancellation point, interrupts on) calls `checkPageFaultIsValid`, then `handlePageFault`. That dispatches to COW, then stack growth, then the Loader; an invalid fault goes to `Syscall::exit`.
- **Address space:**
  - `mapPage` and `unmapPage`, with per-level locks and table reclamation;
  - `resolveMapping`;
  - `copyPagesToNewArchMemCOW`, which calls `copyPageHierarchy` and then `insertCopy`;
  - `~ArchMemory`.
- **Lifecycle:**
  - fork: the `UserProcess` copy constructor runs the COW walk and creates the first thread;
  - `Syscall::exit` calls `UserProcess::kill`, which cancels and joins siblings;
  - `~UserProcess` calls `eraseProcessFromCOWMap`, then `delete loader_`, which runs `~ArchMemory`;
  - `restructureProcessForExecv`, which starts with `killThreadsSiblings`.
- **User threads:** `createThread` (holding `thread_list_lock_` across the
  `UserThread` constructor, which maps the first stack page), `joinThread`,
  `exitThread`, `cancelThread`, `onThreadDestroyed`; stack growth in
  `PageFaultHandler::increaseUserStackSize`.
- **Registry:** `Run` (create the programs, wait until `progs_running_` is
  0), `processStart` / `processExit`, `addToWaitPIDMap` /
  `removeFromWaitPIDMap`, `getCondToWait` with `checkWaitPidDeadlock`;
  `waitpid` through `UserThread::waitForPid` and `waitForAnyPid`;
  `Syscall::createprocess`, which counts on `processCount`.
- **Pipes:** `Syscall::pipe` / `openPipe`, `read` / `readFromPipe`,
  `write` / `writeToPipe`, `close` / `removeLocalFD`, with
  `RingBuffer::put` / `get`; fork copies `pipes_` and counts the pipe,
  `~UserProcess` uncounts it and deletes the last reference.

### How the parts interact

- **fork** writes the tracker and two address spaces. For each present page it makes the child entry, write-protects the parent, then calls `addToCOWMap`. Each page's addToCOWMap is a separate critical section.
- **A write fault on a shared page** reads the tracker twice without holding the lock: once in the validity check and once in dispatch. Then it takes the lock and rewrites page table entries. In case 2 it also rewrites an entry of *another* process.
- **Teardown** erases the process from the tracker, then frees every present leaf frame of its address space.

### Hard behaviours

- Two owners of a frame fault concurrently.
- A fault races a fork that is half-way through its walk.
- A thread runs while a sibling thread is between the two halves of case 2: the redirect and the copy.
- A process exits while it shares frames.
- The present flag is captured at the trap and used after preemption.
- Every fault waits on the one map-wide lock.

`PROJECT.json` ("hazards") lists each of these at the line where it bites.

### Properties per component

| Property | Component | What it says |
|---|---|---|
| `Isolation` | fork, tracker, resolver together | A running process reads at each page what it last wrote there, or what it inherited at fork. |
| `OwnersHoldReadOnly` | tracker | spec section 3: every member of an owner set maps that frame read-only. The one exception is the faulting process between the halves of case 2. |
| `NoFrameLeak`, `MappedFramesAllocated` | allocator use by tracker and teardown | No frame is allocated but unmapped; no frame is mapped but free. |
| `LegitimateFaultsSurvive` | resolver | A write to a page the process legitimately maps neither kills it nor fails a kernel assertion. |
| `FaultCompletes` | resolver, tracker lock | Every fault and fork returns to user mode. |
| `PipeRefined` | pipes (RingBuffer) | With one writer and one reader process, the pipe is a bounded FIFO. |
| `PipeLivesWithHolders` | pipes, fork, process teardown | The buffer exists exactly while a live process holds the pipe. |

## 2. Modules

### `CopyOnWrite.tla`

Fork, page faults on user data pages, COW resolution and teardown, all
composed in one module, because their interleavings are the point.

- **Abstractions:**
  - An address space is abstracted to its leaf entries `pt[p][v]` (`present`, `writeable`, `ppn`), one per data page.
  - The contents of a frame are abstracted to the number of the write that produced them (`content`).
  - The ghost variable `view[p][v]` is what process `p` must read at `v`.

- **Threads:** each thread has a control point `pc` and the locals of its
  current fault or fork (`ctx`).
  - In user mode (`"idle"`), a thread either writes a present, writable page (`UserWrite`) or traps (`enterPageFault`).
  - In the kernel, each action is one step of the handler between two points where another thread may run.
  - `cow_map_lock_` is a variable only where the code holds it across such a point, in case 2. Every other critical section is a single atomic action.

- **Actions and the code they model:**

  | Action | Code |
  |---|---|
  | `enterPageFault` | `PageFaultHandler.cpp:15-56`: trap flags captured with interrupts off |
  | `checkPageFaultIsValid` | `:60-96`: valid if not present, or present and `ppnShared`; otherwise `Syscall::exit`, the process becomes `"killed"` |
  | `handlePageFault` | `:98-166`: COW if `ppnShared`, else the Loader |
  | `loadPage` | spec-modelled Loader |
  | `handleCOWPageFault` | `COWManager.cpp:71-152`: lock, then `COWNotOwner` (assert: the kernel halts), `COWCase1`, `COWCase2` (allocate and redirect, keeping the lock) or `COWCase3` |
  | `resolveOtherOwner` | `COWManager.cpp:114-128`: the copy, the other owner's entry made writable, set emptied, lock released |
  | `forkStart` | `UserProcess.cpp:66-116` |
  | `copyPageToChild` | `ArchMemory.cpp:436-511`: child entry, parent write-protect |
  | `forkAddToCOWMap` | `ArchMemory.cpp:513`: `addToCOWMap` under the lock, re-reading the parent's entry |
  | `forkFinish` | the first thread of the child |
  | `exit` | `UserProcess::kill` |
  | `destroyProcess` | `~UserProcess`: `eraseProcessFromCOWMap` once no thread of the process is in the kernel |
  | `freeArchMemory` | `~ArchMemory` |

- **Terminal states:** `Halted` (a failed kernel assertion) and `Quiescent`
  (every thread in user mode and done) are the states where the system really
  stops. They are stuttering steps, so deadlock checking stays on and still
  finds a thread stuck in the kernel.
- **Specifications:** `CoreSpec` has no teardown. `Spec` adds exit and teardown.

### `MCCopyOnWrite.tla`

Extends `CopyOnWrite` for TLC. The constants are given in each `.cfg`.

### `PageTables.tla`, `MCPageTables.tla`

`ArchMemory::mapPage`, `unmapPage` and `resolveMapping` over a four-level
hierarchy with `Fanout` entries per table (2 in the runs).
- **State:** the tables (`mem[f][i]`: present bit and target frame of entry
  `i` of the table in frame `f`), the free frames, and each thread's locals
  (`loc[t]`: the path it resolved, the table being allocated, the result).
  The level locks have no variable: each insertion or removal under a level's
  lock is one atomic step, which is what the lock gives, and the unlocked
  resolve is a separate, earlier step.
- **Actions:** `CallMapPage` resolves unlocked (`resolveMapping`); for each
  missing level `mapTable` allocates a frame (`AllocPPN`, spec-modelled), takes
  the level's lock and `insert`s (which asserts the entry is empty,
  `ArchMemory.cpp:99`); `mapLeaf` inserts the leaf under `pt_lock_` only if
  the leaf it resolved before locking was empty. `CallUnmapPage`, `unmapLeaf`,
  `unmapCheck` and `unmapUp` are the unmap and its cascade (`checkAndRemove`).
- **Panic:** a failed kernel assertion stops every thread; with more than one
  thread TLC reports that as a deadlock, which it is.

### `AddressSpace.tla`

The abstract specification: `as`, a partial injective function from pages to
frames. `Map` installs a frame no other page uses on an unmapped page,
`MapRejected` leaves a mapped page unchanged, `Unmap` removes a mapping.
`PageTables` refines it: `AS == INSTANCE AddressSpace WITH as <- ...` maps each
page to what it resolves to through the four levels, and `mapped` to each
caller's last result. `AddressSpaceRefined == AS!Spec` is a checked property.

### `StackGrowth.tla`, `MCStackGrowth.tla`

Extends `PageTables`: one process whose threads fault on image pages and on
their stacks, concurrently with thread creation.
- **Thread creation:** `createThread` takes `thread_list_lock_`, picks an
  ASLR start (`ASLRStackManager`, `UserProcess.cpp:256-302`: a start in `Starts` whose `Conflicts` test (`UserProcess.cpp:277-290`) passes, registered in `user_stack_list_`), and
  `ctorStart` / `ctorDone` run the constructor, which maps the first stack page
  and asserts it succeeded, before the lock is released.
- **Fork:** `forkCopy` / `forkThread` give the child's thread an
  uninitialised `stack_pages_`: a nondeterministic value from `Garbage`
  (`UserThread.h:124` has no initialiser).
- **Faults:** `access` traps on a page at an offset; `handlePageFault` looks
  the address up (`addrIsWithinAnyUserStack`, under `thread_list_lock_`);
  `increaseUserStackSize` checks the `uint16` counter against
  `STACK_MAX_PAGES`, allocates and maps; `growDone` frees the frame if the map
  failed and exits the process. Image pages go to the Loader (`loadPage`,
  `loadDone`, spec-modelled), which calls `mapPage` too.

### `ThreadLifecycle.tla`, `MCThreadLifecycle.tla`

The join / cancel / exit protocol between the threads of one process.
- **State:** per-thread `pc` and scheduler `state`; `threadList`,
  `retValues` (`ret_values_`), `waiting` (`waiting_list_`) and the set of
  threads signalled on the Condition (`woken`); the holders of
  `waiters_lock_` (`wLock`) and `thread_list_lock_` (`tLock`); the cancel
  request and cancelable flags; `exited` (really-exited), `calledExit`, the
  kernel panic flag.
- **Join:** `joinStart` claims `ret_values_` first; `joinWait` checks that the
  target is listed and not exited, nobody waits on it and no wait cycle forms
  (`joinDeadlock`, over the recursive `WaitChain`), then sleeps releasing
  `waiters_lock_`; `joinWake` asserts the value is there (`UserProcess.cpp:474-475`).
- **Exit and cancel:** `exitThread` publishes the value and signals the
  waiter; `cancelThread` only sets a flag, which `scheduleCancel` acts on at
  dispatch, and only for a thread in user mode; `cleanupDeadThreads` deletes
  a ToBeDestroyed thread and `onThreadDestroyed` erases it from the list.
- **kill (`Syscall::exit`):** `killStart` tests and sets `called_exit_`
  unlocked; `killCollect`, `killCancel`, `killJoin` cancel every sibling, then
  join each. The second caller ends with `UserThread::exit`.
- **execv:** `execv` (argument checks abstracted: a rejected call changes
  nothing); `killThreadsSiblings` and `execCancelJoin` look up the next sibling
  under `thread_list_lock_`, then cancel it and join it, one at a time;
  `execLoad` swaps the image (its address-space effect is outside this module).

### `ProcessRegistry.tla`, `MCProcessRegistry.tla`

The registry and `waitpid`, with each process abstracted to one thread
(how the threads of one process end is `ThreadLifecycle`'s subject).
- **State:** `pidCounter`, each pid's `pstate` (none, ctor, failed, live,
  exiting, destroying, dead) and its thread's `pc`; `running`, `plist`;
  `waitMap` (the pids whose Condition exists) and `helper`, a function whose
  domain is the keys of `wait_pid_map_helper_`; `lastDead`; Run's `rpc`
  and `runPid` (its `new_process`, since a fork or createprocess may take
  a pid while Run's constructor runs); `cpCount`, the count createprocess
  read.
- **Creation:** `registryCreate` / `registryCtorDone` are Run's
  `createProcess` and the constructor, `forkStart` / `forkDone` the copy
  constructor inside `Syscall::fork`. A failed load ends the constructor
  with `processExit`; after a fork that dereferences the missing first
  thread, a kernel fault. `createprocess` / `createprocessDone` /
  `createprocessYield` are `Syscall::createprocess`: a bad path returns -1;
  otherwise the caller reads `processCount`, runs `createProcess` itself
  and, with `sleep` set, yields until the count is back to what it read.
- **waitpid:** `getCondToWait` is one critical section: the recursive
  `checkWaitPidDeadlock` (`Reach` over `helper`), then either -1 or the
  waiter's record and the Condition. `waitForPid` re-acquires the lock and
  waits; `waitForAnyPid` / `waitAnyDone` are `waitpid(-1)`.
- **End:** `exit`, then the cleanup's `destroyProcess` (`processExit`,
  waking Run at 0) and `removeFromWaitPIDMap` (broadcasts, `last_dead_pid_`,
  Condition and helper entry deleted).
- **Undefined behaviour:** `map::at` of a missing key (uSTL is not in the
  repository) is a fault or an empty vector; waiting on a deleted Condition
  is a fault or a sleep that nothing ends.

### `Pipe.tla`, `MCPipe.tla`, `PipeFifo.tla`

One pipe, opened by process 1, which may fork process 2 (`Parent`,
`Child`); one thread per process.
- **State:** per process `pstate`, `pipes` (its `pipes_` holds the pipe) and
  the thread's `pc`, `pos`, `cur`, `left`, `ret`; the RingBuffer's `ring`
  (none, alloc, freed), `procCount`, `buf`, `writePos`, `readPos`; the
  history `out` of every character a read returned.
- **Actions:** `openPipe`, `fork` (the pipe part of the copy constructor),
  `exit` (the pipe loop of `~UserProcess`, run by the cleanup thread),
  `write` / `writeToPipe` and `read` / `readFromPipe`, then the RingBuffer
  steps: `putCheck` (read `write_pos_`, full test), `putStore`,
  `putPublish` (`testSetLock` of `write_pos_`), and `getCheck`, `getLoad`,
  `getPublish` likewise. Each process locks its own `pipes_lock_`, so two
  processes' steps interleave freely.
- **close:** `removeLocalFD` iterates `pipes_` by value and marks the closed
  end in the copy, so it changes nothing; the model's `close` returns 0 and
  leaves the pipe as it was.
- **Refinement:** `PipeFifo` is the promise, a bounded FIFO of
  `Capacity` characters with the history `out`. `Fifo` instantiates it
  with `q <- Contents` (the slots between `read_pos_` and `write_pos_`) and
  `Capacity <- Size - 1`; `PipeRefined` is `Fifo!Spec`. A put is the
  abstract `Put` at its publish; a get is `Get` at its publish.
- **Roles:** `Writers` and `Readers` name the processes whose program
  writes and reads; the pass run has one of each, the use the RingBuffer
  (single producer, single consumer) is written for.

## 3. Runs

| Run | Spec | Bounds | Result |
|---|---|---|---|
| `cow_two_procs` | CoreSpec | 2 procs, 1 thread, 2 pages, 10 frames, 3 writes | pass: `Isolation`, `OwnersHoldReadOnly`, `FaultCompletes` (32,652 states) |
| `cow_three_procs` | CoreSpec | 3 procs, 1 thread, 1 page, 7 frames, 3 writes | pass: `NoFrameLeak`, `FaultCompletes` (11,130 states) |
| `cow_teardown` | Spec | as `cow_two_procs` | pass: `TypeOK`, `OwnersHoldReadOnly`, `NoFrameLeak`, `FaultCompletes` (146,680 states) |
| `cow_eager_race` | CoreSpec | as `cow_two_procs` | violation of `LegitimateFaultsSurvive` |
| `fork_fault_race` | CoreSpec | as `cow_three_procs` | violation of `Isolation` |
| `tables_seq` | PageTables `Spec` | 1 thread, fanout 2, pages {0,1,4}, 10 frames | pass: `TablesReclaimed`, `NoFrameLeak`, `AddressSpaceRefined` (3,658 states) |
| `stack_threads` | StackSpec | 2 threads, exec'd and forked origins, 1 image page, 3 stack pages max, 24 frames | pass: `LiveFramesAllocated`, `StackCommitted`, `FaultCompletes` (441,274 states, about 2 min) |
| `stack_fork_counter` | StackSpec | 1 forked thread, `stack_pages_` garbage in {0, 2, 65535} | violation of `StackFaultsServed` |
| `exit_join_hang` | ThreadLifecycle `Spec` | 2 threads | violation of `ExitTerminates` |
| `waitpid_lost_wakeup` | ProcessRegistry `Spec` | 2 pids, 1 program | violation of `WaitTargetAlive` |
| `registry_waits` | ProcessRegistry `Spec` | 3 pids, 2 programs | pass: `NoWaitCycle`, `RegistryFinishes` (89,505 states) |
| `pipe_fork` | Pipe `Spec` | size 3 (2 characters), 2 characters, parent writes, child reads, counts up to 2, 4 calls | pass: `TypeOK`, `PipeLivesWithHolders`, `PipeRefined` (22,794 states) |

What the violations show:
- **`cow_eager_race`:** parent and child both write a shared page. The first
  fault's case 2 resolves both sides. The second fault, already taken, then
  finds the page present and unshared and exits the process. If it was already
  past the validity check, it fails the owner-set assertion instead.
- **`fork_fault_race`:** process B (a child of A) forks C. Between B's fork
  walk write-protecting a page and its `addToCOWMap`, A's case 2 makes B's
  entry writable again. The frame is then shared by B and C with B writable,
  and B's next write shows through to C.
- **`stack_fork_counter`:** the fork child's thread has an uninitialised
  `stack_pages_`. With 0 its first stack fault maps a page it already
  inherited, `mapPage` fails and the process exits. With 65535 the `uint16`
  increment wraps to 0: the page at the start address itself is mapped and
  `stack_pages_` becomes 0, so the next stack fault maps the first stack page,
  which the child inherited; `mapPage` fails and the process exits.
- **`exit_join_hang`:** both threads call exit. The second finds
  `called_exit_` set and ends with `UserThread::exit`, publishing no value and
  not marking itself exited. The first's `cancelThread` on it returns -2, its
  join then finds it listed and not exited and sleeps on a signal that never
  comes, so the process never terminates.
- **`waitpid_lost_wakeup`:** process 0 forks 1 and calls `waitpid(1)`.
  `getCondToWait` hands it 1's Condition and releases the lock; before
  `waitForPid` re-acquires it, 1 exits and is destroyed, and
  `removeFromWaitPIDMap` broadcasts to nobody and deletes the Condition.
  Process 0 then waits on freed memory: it faults or never returns.

What `registry_waits` shows: over every interleaving of two programs and a
third process calling fork, createprocess, exit, `waitpid(-1)` and
`waitpid(pid)`, the
waits-for relation between threads in `waitForPid` never has a cycle
(`NoWaitCycle`: the deadlock check and the record of the wait are one
critical section), and once both programs were created and every process
has been destroyed or failed its constructor, Run ends (`RegistryFinishes`).
The premise is stated over the processes, not over `progs_running_`, so a
`processExit` that loses the decrement (mutant `processExit_noDec`) breaks
the property as a lost signal does. Pid 0 is never a waitpid target, so
with 3 pids the cycles the check must refuse have two processes; the longer
cycles that `waitpid2.c` builds were checked once with 4 pids (17M states, before
`createprocess` was added to the module); that is too long for a routine run. The run ends in states where
Run is done, or a kernel fault stopped the system, so deadlock is not
checked.

What `pipe_fork` shows: with the parent writing and the child reading
through a pipe shared by fork, put and get interleaved step by step, the
RingBuffer implements `PipeFifo` (`PipeRefined`), and it is deleted exactly
when the last live holder is destroyed (`PipeLivesWithHolders`), wherever
the exits fall between fork and the reads and writes. Runs end with the
syscall budget spent or both processes gone, so deadlock is not checked.

Hazards that have no run of their own are noted in `PROJECT.json` with the
trace that reaches them; among them the off-by-one at the stack bottom in
`addrIsWithinAnyUserStack` (`UserProcess.cpp:737`), a join that steals a value
another joiner waits for (3 threads), and execv blocking forever in
`killThreadsSiblings` when a sibling sleeps in a join on a sibling not yet
cancelled (3 threads). Also:
- case 2 of the COW fault mapping the new frame writable before copying
  into it, against spec section 4.2. A sibling thread reads the uncopied
  frame. This was a run of its own until `waitpid_lost_wakeup` took its
  place; `Isolation` still states what it breaks.
- stale `wait_pid_map_helper_` entries: `waitpid` looks up a missing key
  (3 pids).
- two threads faulting on the same image page (`ArchMemory.cpp:110`):
  both resolve the leaf empty before taking `pt_lock_`, both `mapPage`
  calls return true, and the second overwrites the first mapping, leaking
  its frame; `AddressSpaceRefined` fails under `StackSpec` with two image
  pages. This was the run `image_page_race` until `registry_waits` took its
  place; `tables_seq` still checks `AddressSpaceRefined` for one thread.
- exit while sharing frames (`ArchMemory.cpp:180`): `~ArchMemory` frees the
  frames the child still maps, violating `MappedFramesAllocated` with the
  bounds of `cow_teardown`. This was the run `exit_frees_shared` until
  `pipe_fork` took its place.
- two processes writing one pipe (`RingBuffer.h:59`): both puts read the
  same `write_pos_`, the second store overwrites the character the first
  published, and both report it written; `PipeRefined` fails in 10 steps
  with `Writers = {1, 2}`.
- `createprocess` with `sleep` returns as soon as the process count is back
  to what it read, which another process's exit or failed constructor
  brings about while the new process still runs (`Syscall.cpp:228`).

### Why the bounds are enough

- **Processes and pages:**
  - Two processes with two pages give every case-1 and case-2 interleaving, including faults on different pages that contend for the lock.
  - Three processes on one page give owner sets of size 3 and the nested-fork race.
- **Frames:** the frame count is the ASSUME'd minimum, so allocation never
  fails (exhaustion is outside the spec's contract).
- **Writes:** three writes are enough for a write before the fork, one in each
  process, and a fault after every transition.
- **Threads:** one thread per process suffices for the cross-process races.
  The two-thread run is the only one that needs a sibling.
- **Page tables:** fanout 2 keeps four levels with a branch at each; pages
  0 and 1 share a leaf table and page 4 shares only the upper tables with
  them, so unmapping them in any order reaches every cascade depth.
- **Stacks:** a stack of 3 pages lets a stack grow, reach `STACK_MAX_PAGES`
  and fault past it; `Garbage` holds 0, a value in range and the `uint16`
  maximum.
- **Processes in the registry:** two pids (a program and its child) give
  the lost wake-up; stale helper entries and a two-process wait cycle need
  a third, which `registry_waits` has (two programs, so that two live
  processes can wait on each other, and a fork); a probe with four pids,
  17M states, also found no wait cycle.
- **Pipes:** a RingBuffer of 3 slots holds 2 characters, so counts of 1
  and 2 and four calls reach a full buffer (a write that stops short), an
  empty one (a read that returns 0) and wrap-around of both positions; two
  characters tell an out-of-order or repeated read from a correct one.
- **Threads:** two threads give the concurrent-exit hang; the value-steal and
  execv hangs need a third (reached by hand-run probes, not by a kept run).

## 4. Fairness

Kernel steps of a thread are weakly fair: the scheduler is preemptive
round-robin, so a runnable thread eventually runs.

`handleCOWPageFault` and `forkAddToCOWMap` wait for `cow_map_lock_`. It is a
`Mutex` that wakes a waiter on release, but the lock is free only
intermittently, so these steps are strongly fair.

Teardown (`destroyProcess`) is strongly fair, because it also needs the lock.
`freeArchMemory` is weakly fair.

User-mode steps have no fairness: a program may stop writing at any time.

In `StackGrowth`, kernel steps are weakly fair and the stack lookup, which
waits for `thread_list_lock_`, is strongly fair. In `ThreadLifecycle` every
kernel step is strongly fair (`SF_vars(KernelStep(t))`): the steps that wait
for `waiters_lock_` or `thread_list_lock_` are enabled only intermittently,
and a woken thread is eventually scheduled. Sleeping on the Condition is not
a kernel step, so a thread nobody signals stays asleep, as in the code.

`ProcessRegistry` makes Run's steps and every kernel step of a process
(the end of fork, the wait steps, the cleanup thread's `destroyProcess` and
`removeFromWaitPIDMap`) weakly fair: each is a kernel thread the
round-robin scheduler keeps runnable until it acts. `RegistryFinishes`
rests on it: a Run that stays enabled to re-test `progs_running_` does so.
A thread sleeping on a Condition takes no step, so a lost wake-up is not
hidden by the fairness.

`Pipe` makes each process's read and write steps weakly fair (a thread in
a syscall stays runnable; put and get never block). Its properties are
safety properties: the fairness only keeps the specification honest.

## 5. Not modelled

- The scheduler beyond dispatch-time cancellation and `cleanupDeadThreads`;
  timers, file descriptors of files (`addLocalFD`, `getGlobalFD`, the VFS),
  stdin/stdout and syscall dispatch. Only their effect on the modelled parts is kept, as the steps and
  fairness above.
- execv's effect on the COW map: `restructureProcessForExecv` swaps the loader
  without `eraseProcessFromCOWMap`. It is listed as a hazard; the run budget
  holds no run for it.
- The cancellation safe point in `enterPageFault` is dead code (it clears
  `switch_to_userspace_` before testing it) and the syscall entry that would
  set that flag is not in the repository, so a thread in the kernel is
  modelled as not cancellable.
- `unmapPage` has no caller in the repository; it is checked on its own by
  `tables_seq`.
- The direct-map window is a pure function.
- Huge pages and the kernel half of the address space never change after boot.
- `eraseProcessFromPage` and `copyPagesToNewArchMem` have no caller.
- Pipes: one pipe and one thread per process. The `fd_num_` race between
  `openPipe` (no `fds_lock_`) and `addLocalFD` needs two threads of one
  process and file fds, which the model leaves out; two writers or two
  readers of one pipe are reached by a probe, not by a kept run.
- Frame exhaustion is not modelled: the allocator is external and its
  behaviour when memory runs out is unspecified.
