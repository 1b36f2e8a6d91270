--------------------------- MODULE ProcessRegistry ---------------------------
(***************************************************************************)
(* The process registry and waitpid (ProcessRegistry.cpp, the UserProcess *)
(* constructors and destructor, Syscall::fork/waitpid/exit and            *)
(* UserThread::waitForPid/waitForAnyPid).                                 *)
(*                                                                         *)
(* The registry thread (Run) creates the initial programs and sleeps on   *)
(* all_processes_killed_ until progs_running_ drops to 0.  Every process  *)
(* is counted by processStart at the start of its constructor and by      *)
(* processExit on a failed constructor or in ~UserProcess.  A process is  *)
(* waitable once addToWaitPIDMap gave it a Condition; removeFromWaitPIDMap *)
(* broadcasts and deletes it.  waitpid(pid) first runs the recursive      *)
(* deadlock check over wait_pid_map_helper_ (who waited for whom) under   *)
(* waitpid_map_lock_, releases the lock, and re-acquires it to wait.      *)
(*                                                                         *)
(* Each process is abstracted to one thread: how the threads of a process *)
(* end is ThreadLifecycle's subject; here exit ends the process.  pids    *)
(* come from a counter and are never reused.                              *)
(***************************************************************************)
EXTENDS Integers, FiniteSets, Relation, TLC

CONSTANTS
  MaxPid,    \* bound on pid_counter_: pids are 0..MaxPid-1
  NumProgs   \* the programs Run starts (progs_)

ASSUME MaxPid \in Nat /\ NumProgs \in 1..MaxPid

Pids == 0..(MaxPid - 1)
NoPid == MaxPid
NoCount == -1   \* createprocess without sleep keeps no count

VARIABLES
  pidCounter,  \* ProcessRegistry::pid_counter_
  pstate,      \* per pid: "none", "ctor", "failed", "live", "exiting", "destroying", "dead"
  pc,          \* per pid, its thread: "user", "fork", "wait_cond", "wait_sleep",
               \*   "wait_any", "wait_any_woken", "wait_lost", "cp_ctor",
               \*   "cp_sleep", "dead"
  target,      \* the child being forked, or the pid waited for
  ret,         \* the last value waitpid returned to the process (-1 or a pid)
  running,     \* progs_running_
  plist,       \* keys of process_list_
  waitMap,     \* keys of waitpid_map_: pids whose Condition exists
  helper,      \* wait_pid_map_helper_: a function on the pids it has keys for
  lastDead,    \* last_dead_pid_
  rpc,         \* Run: "create", "ctor", "wait", "sleep", "done"
  created,     \* programs Run has created so far
  runPid,      \* the pid of Run's new_process in createProcess
  cpCount,     \* per pid: process_count read by createprocess with sleep set
  panic        \* a kernel assertion or fault stopped the system

vars == <<pidCounter, pstate, pc, target, ret, running, plist, waitMap, helper,
          lastDead, rpc, created, runPid, cpCount, panic>>

-----------------------------------------------------------------------------
(* The registry's bookkeeping (ProcessRegistry.cpp).                       *)

\* getNewPID: pid_counter_++ under pid_counter_lock_.
getNewPID == pidCounter' = pidCounter + 1

insertIntoProcessList(p) == plist' = plist \cup {p}

\* Erases the pid if pidInProcessList finds it.
eraseFromProcessList(p) == plist' = plist \ {p}

\* processStart: insertIntoProcessList, then ++progs_running_.
processStart(p) ==
  /\ insertIntoProcessList(p)
  /\ running' = running + 1

\* A processExit that erases the pid but never decrements the count.
processExit_noDec(p) ==
  /\ eraseFromProcessList(p)
  /\ running' = running

\* processExit: eraseFromProcessList, then --progs_running_.
processExit(p) ==
  /\ eraseFromProcessList(p)
  /\ running' = running - 1

\* ... and all_processes_killed_.signal() when the count reaches 0, which
\* wakes Run if it sleeps on it (it holds counter_lock_ while it tests).
wakeRegistry ==
  rpc' = IF running' = 0 /\ rpc = "sleep" THEN "wait" ELSE rpc

\* processCount: progs_running_ read under counter_lock_.
processCount == running

\* addToWaitPIDMap: a new Condition and an empty helper vector for pid.
addToWaitPIDMap(p) ==
  /\ waitMap' = waitMap \cup {p}
  /\ helper' = helper @@ (p :> {})

\* checkWaitPidDeadlock(pid, waited_by): the pids reachable from pid in
\* the helper, looking up each with at().  Reach collects those it can look
\* up; Missing those it looks up without a key.
RECURSIVE Reach(_, _)
Reach(S, k) ==
  IF k = 0 THEN S
  ELSE Reach(S \cup UNION {helper[q] : q \in S \cap DOMAIN helper}, k - 1)

\* The check run from the caller instead of from the waited-for pid.
checkWaitPidDeadlockSwapped(q, p) ==
  LET seen == Reach({p}, MaxPid) IN
  [deadlock |-> \E s \in seen \cap DOMAIN helper : q \in helper[s],
   missing  |-> seen \ DOMAIN helper]

checkWaitPidDeadlock(q, p) ==
  LET seen == Reach({q}, MaxPid) IN
  [deadlock |-> \E s \in seen \cap DOMAIN helper : p \in helper[s],
   missing  |-> seen \ DOMAIN helper]

-----------------------------------------------------------------------------
(* Process creation: Run's createProcess and Syscall::fork.                *)

\* Run's loop: createProcess -> getNewPID and the UserProcess constructor
\* up to processStart.
registryCreate ==
  LET p == pidCounter IN
  /\ ~panic
  /\ rpc = "create"
  /\ pidCounter < MaxPid
  /\ getNewPID
  /\ processStart(p)
  /\ pstate' = [pstate EXCEPT ![p] = "ctor"]
  /\ target' = [target EXCEPT ![p] = NoPid]
  /\ created' = created + 1
  /\ runPid' = p
  /\ rpc' = "ctor"
  /\ UNCHANGED <<pc, ret, waitMap, helper, lastDead, panic, cpCount>>

\* The rest of the constructor: a failed load ends it with processExit
\* (createProcess then sees no first thread and gives up); otherwise the
\* first thread is added, the pid becomes waitable, and the scheduler
\* starts the thread.  Run moves to the next program, or to waiting.
registryCtorDone ==
  LET p == runPid
      nextRpc == IF created < NumProgs THEN "create" ELSE "wait" IN
  /\ ~panic
  /\ rpc = "ctor"
  /\ \/ /\ processExit(p)
        /\ pstate' = [pstate EXCEPT ![p] = "failed"]
        /\ UNCHANGED <<pc, waitMap, helper>>
     \/ /\ addToWaitPIDMap(p)
        /\ pstate' = [pstate EXCEPT ![p] = "live"]
        /\ pc' = [pc EXCEPT ![p] = "user"]
        /\ UNCHANGED <<plist, running>>
  /\ rpc' = nextRpc
  /\ UNCHANGED <<pidCounter, target, ret, lastDead, created, runPid, panic, cpCount>>

\* Syscall::fork -> createProcessOnFork -> the copy constructor up to
\* processStart.
forkStart(p) ==
  LET c == pidCounter IN
  /\ ~panic
  /\ pstate[p] = "live" /\ pc[p] = "user"
  /\ pidCounter < MaxPid
  /\ getNewPID
  /\ processStart(c)
  /\ pstate' = [pstate EXCEPT ![c] = "ctor"]
  /\ pc' = [pc EXCEPT ![p] = "fork"]
  /\ target' = [target EXCEPT ![p] = c]
  /\ UNCHANGED <<ret, waitMap, helper, lastDead, rpc, created, runPid, panic, cpCount>>

\* The rest of the copy constructor and of Syscall::fork.  A failed load
\* ends the constructor with processExit, and fork then dereferences the
\* missing first thread (a kernel fault); otherwise the child's thread is
\* added, its pid made waitable and the thread scheduled.
forkDone(p) ==
  LET c == target[p] IN
  /\ ~panic
  /\ pc[p] = "fork"
  /\ \/ /\ processExit(c)
        /\ pstate' = [pstate EXCEPT ![c] = "failed"]
        /\ panic' = TRUE
        /\ UNCHANGED <<pc, waitMap, helper>>
     \/ /\ addToWaitPIDMap(c)
        /\ pstate' = [pstate EXCEPT ![c] = "live"]
        /\ pc' = [pc EXCEPT ![c] = "user", ![p] = "user"]
        /\ UNCHANGED <<plist, running, panic>>
  /\ UNCHANGED <<pidCounter, target, ret, lastDead, rpc, created, runPid, cpCount>>

\* Syscall::createprocess(path, sleep): a path at or above USER_BREAK, or
\* one that does not open, returns -1; otherwise the caller reads
\* processCount, if sleep is set, and runs createProcess itself: getNewPID
\* and the constructor up to processStart.
createprocess(p, sleep) ==
  LET c == pidCounter IN
  /\ ~panic
  /\ pstate[p] = "live" /\ pc[p] = "user"
  /\ \/ /\ ret' = [ret EXCEPT ![p] = -1]
        /\ UNCHANGED <<pidCounter, pstate, pc, target, running, plist, cpCount>>
     \/ /\ pidCounter < MaxPid
        /\ getNewPID
        /\ processStart(c)
        /\ pstate' = [pstate EXCEPT ![c] = "ctor"]
        /\ pc' = [pc EXCEPT ![p] = "cp_ctor"]
        /\ target' = [target EXCEPT ![p] = c]
        /\ cpCount' = [cpCount EXCEPT ![p] = IF sleep THEN processCount ELSE NoCount]
        /\ UNCHANGED ret
  /\ UNCHANGED <<waitMap, helper, lastDead, rpc, created, runPid, panic>>

\* The rest of the constructor and of createProcess (a failed load ends
\* it with processExit and createProcess gives up; otherwise the thread is
\* scheduled); then createprocess returns 0, or with sleep set yields
\* until processCount is back to what it read.
createprocessDone(p) ==
  LET c == target[p]
      next == IF cpCount[p] = NoCount THEN "user" ELSE "cp_sleep" IN
  /\ ~panic
  /\ pc[p] = "cp_ctor"
  /\ \/ /\ processExit(c)
        /\ wakeRegistry
        /\ pstate' = [pstate EXCEPT ![c] = "failed"]
        /\ pc' = [pc EXCEPT ![p] = next]
        /\ UNCHANGED <<waitMap, helper>>
     \/ /\ addToWaitPIDMap(c)
        /\ pstate' = [pstate EXCEPT ![c] = "live"]
        /\ pc' = [pc EXCEPT ![c] = "user", ![p] = next]
        /\ UNCHANGED <<plist, running, rpc>>
  /\ ret' = [ret EXCEPT ![p] = 0]
  /\ UNCHANGED <<pidCounter, target, lastDead, created, runPid, cpCount, panic>>

\* The yield loop of createprocess: it returns once processCount is no
\* longer above the count it read (while it is, each yield changes nothing).
createprocessYield(p) ==
  /\ ~panic
  /\ pc[p] = "cp_sleep"
  /\ processCount <= cpCount[p]
  /\ pc' = [pc EXCEPT ![p] = "user"]
  /\ cpCount' = [cpCount EXCEPT ![p] = NoCount]
  /\ UNCHANGED <<pidCounter, pstate, target, ret, running, plist, waitMap,
                 helper, lastDead, rpc, created, runPid, panic>>

-----------------------------------------------------------------------------
(* waitpid (Syscall::waitpid, UserThread::waitForPid/waitForAnyPid).       *)

\* waitpid(-1): waitForAnyPid acquires waitpid_map_lock_ and sleeps on
\* any_process_died_ (the wait releases the lock).
waitForAnyPid(p) ==
  /\ ~panic
  /\ pstate[p] = "live" /\ pc[p] = "user"
  /\ pc' = [pc EXCEPT ![p] = "wait_any"]
  /\ UNCHANGED <<pidCounter, pstate, target, ret, running, plist, waitMap,
                 helper, lastDead, rpc, created, runPid, panic, cpCount>>

\* Woken, the wait re-acquires the lock; then getLastDeadPID is returned.
waitAnyDone(p) ==
  /\ ~panic
  /\ pc[p] = "wait_any_woken"
  /\ ret' = [ret EXCEPT ![p] = lastDead]
  /\ pc' = [pc EXCEPT ![p] = "user"]
  /\ UNCHANGED <<pidCounter, pstate, target, running, plist, waitMap,
                 helper, lastDead, rpc, created, runPid, panic, cpCount>>

\* waitpid(q) -> waitForPid -> getCondToWait, one critical section of
\* waitpid_map_lock_.  The deadlock check looks up each pid it meets with
\* ustl's map::at; a pid without a key (one that has not finished its
\* constructor or is already destroyed) is undefined behaviour, taken as
\* either a kernel fault or an empty vector.  A deadlock, or a pid with no
\* Condition, returns -1; otherwise the caller records that it waits for
\* q, keeps the Condition pointer and releases the lock.
getCondToWait(p, q) ==
  LET chk == checkWaitPidDeadlock(q, p) IN
  /\ ~panic
  /\ pstate[p] = "live" /\ pc[p] = "user"
  /\ \/ /\ chk.missing # {}
        /\ panic' = TRUE
        /\ UNCHANGED <<pc, target, ret, helper>>
     \/ /\ chk.deadlock \/ q \notin waitMap
        /\ ret' = [ret EXCEPT ![p] = -1]
        /\ UNCHANGED <<pc, target, helper, panic>>
     \/ /\ ~chk.deadlock /\ q \in waitMap
        /\ helper' = [helper EXCEPT ![p] = @ \cup {q}]
        /\ target' = [target EXCEPT ![p] = q]
        /\ pc' = [pc EXCEPT ![p] = "wait_cond"]
        /\ UNCHANGED <<ret, panic>>
  /\ UNCHANGED <<pidCounter, pstate, running, plist, waitMap, lastDead, rpc, created, runPid, cpCount>>

\* waitForPid re-acquires waitpid_map_lock_ and waits on the Condition it
\* was given (without re-acquiring the lock on wake-up).  If the process
\* it waits for was destroyed in between, the Condition has been deleted:
\* waiting on freed memory either faults or sleeps where no broadcast will
\* ever come.
waitForPid(p) ==
  /\ ~panic
  /\ pc[p] = "wait_cond"
  /\ \/ /\ target[p] \in waitMap
        /\ pc' = [pc EXCEPT ![p] = "wait_sleep"]
        /\ UNCHANGED panic
     \/ /\ target[p] \notin waitMap
        /\ \/ pc' = [pc EXCEPT ![p] = "wait_lost"] /\ UNCHANGED panic
           \/ panic' = TRUE /\ UNCHANGED pc
  /\ UNCHANGED <<pidCounter, pstate, target, ret, running, plist, waitMap,
                 helper, lastDead, rpc, created, runPid, cpCount>>

\* Syscall::waitpid: -1 waits for any process; 0 and the caller's own
\* pid return -1 at once (as do a bad status pointer or options, which the
\* model leaves out); any other pid goes to waitForPid.
waitpid(p) ==
  \/ waitForAnyPid(p)
  \/ \E q \in Pids \ {0, p} : getCondToWait(p, q)

-----------------------------------------------------------------------------
(* Process end: Syscall::exit and ~UserProcess.                            *)

\* Syscall::exit -> UserProcess::kill: the (only) thread exits and is left
\* to the scheduler's cleanup.
exit(p) ==
  /\ ~panic
  /\ pstate[p] = "live" /\ pc[p] = "user"
  /\ pstate' = [pstate EXCEPT ![p] = "exiting"]
  /\ pc' = [pc EXCEPT ![p] = "dead"]
  /\ UNCHANGED <<pidCounter, target, ret, running, plist, waitMap, helper,
                 lastDead, rpc, created, runPid, panic, cpCount>>

\* cleanupDeadThreads deletes the thread; onThreadDestroyed deletes the
\* process, whose destructor calls processExit.
destroyProcess(p) ==
  /\ ~panic
  /\ pstate[p] = "exiting"
  /\ processExit(p)
  /\ wakeRegistry
  /\ pstate' = [pstate EXCEPT ![p] = "destroying"]
  /\ UNCHANGED <<pidCounter, pc, target, ret, waitMap, helper, lastDead,
                 created, runPid, panic, cpCount>>

\* ... and then removeFromWaitPIDMap: broadcast the pid's Condition and
\* any_process_died_, set last_dead_pid_, delete the Condition and erase
\* the helper entry.  A waiter on the Condition returns the pid.
removeFromWaitPIDMap(p) ==
  LET onCond == {w \in Pids : pc[w] = "wait_sleep" /\ target[w] = p}
      onAny  == {w \in Pids : pc[w] = "wait_any"} IN
  /\ ~panic
  /\ pstate[p] = "destroying"
  /\ pc' = [w \in Pids |-> IF w \in onCond THEN "user"
                           ELSE IF w \in onAny THEN "wait_any_woken" ELSE pc[w]]
  /\ ret' = [w \in Pids |-> IF w \in onCond THEN p ELSE ret[w]]
  /\ lastDead' = p
  /\ waitMap' = waitMap \ {p}
  /\ helper' = [q \in DOMAIN helper \ {p} |-> helper[q]]
  /\ pstate' = [pstate EXCEPT ![p] = "dead"]
  /\ UNCHANGED <<pidCounter, target, running, plist, rpc, created, runPid, panic, cpCount>>

\* Run, after creating the programs, holds counter_lock_ and sleeps on
\* all_processes_killed_ while progs_running_ is not 0; then it unmounts
\* and ends.
registryWait ==
  /\ ~panic
  /\ rpc = "wait"
  /\ rpc' = IF running = 0 THEN "done" ELSE "sleep"
  /\ UNCHANGED <<pidCounter, pstate, pc, target, ret, running, plist, waitMap,
                 helper, lastDead, created, runPid, panic, cpCount>>

-----------------------------------------------------------------------------

Init ==
  /\ pidCounter = 0
  /\ pstate = [p \in Pids |-> "none"]
  /\ pc = [p \in Pids |-> "none"]
  /\ target = [p \in Pids |-> NoPid]
  /\ ret = [p \in Pids |-> 0]
  /\ running = 0
  /\ plist = {}
  /\ waitMap = {}
  /\ helper = [q \in {} |-> {}]
  /\ lastDead = 0
  /\ rpc = "create"
  /\ created = 0
  /\ runPid = NoPid
  /\ cpCount = [p \in Pids |-> NoCount]
  /\ panic = FALSE

\* Steps of the kernel: Run, the cleanup thread, and threads in a syscall.
KernelStep(p) ==
  \/ forkDone(p) \/ waitForPid(p) \/ waitAnyDone(p)
  \/ destroyProcess(p) \/ removeFromWaitPIDMap(p)
  \/ createprocessDone(p) \/ createprocessYield(p)

\* Syscalls a process's program may make.
UserStep(p) ==
  \/ forkStart(p) \/ exit(p) \/ waitpid(p)
  \/ \E sleep \in BOOLEAN : createprocess(p, sleep)

Next ==
  \/ registryCreate \/ registryCtorDone \/ registryWait
  \/ \E p \in Pids : KernelStep(p) \/ UserStep(p)

\* The kernel threads are scheduled round robin; a user program may stop.
Spec ==
  /\ Init /\ [][Next]_vars
  /\ WF_vars(registryCreate \/ registryCtorDone \/ registryWait)
  /\ \A p \in Pids : WF_vars(KernelStep(p))

-----------------------------------------------------------------------------
(* Properties.                                                              *)

\* waitForPid holds a pointer to the waited-for process's Condition from
\* getCondToWait until its wait ends; removeFromWaitPIDMap deletes that
\* Condition.  The comment at UserThread.cpp:230 says waitpid returns -1
\* only for a missing pid or a deadlock; so a waiter must never be left
\* holding a Condition that no longer exists.
WaitTargetAlive ==
  \A p \in Pids : pc[p] \in {"wait_cond", "wait_sleep"} => target[p] \in waitMap

\* WaitsFor[x, y]: x's thread is in waitForPid, waiting for y.
WaitsFor == [x, y \in Pids |-> pc[x] \in {"wait_cond", "wait_sleep"} /\ target[x] = y]

\* checkWaitPidDeadlock (ProcessRegistry.cpp:221) exists so that waitpid
\* never closes a cycle of processes waiting for each other: the waits-for
\* relation between threads in waitForPid has no cycle, however the
\* processes interleave their waitpid calls under waitpid_map_lock_.
NoWaitCycle == IsIrreflexive(TransitiveClosure(WaitsFor, Pids), Pids)

\* Every program Run started, and every process they forked or created,
\* has gone through ~UserProcess (or failed its constructor).
AllProcessesGone ==
  /\ created = NumProgs
  /\ \A p \in Pids : pstate[p] \in {"none", "failed", "dead"}

\* Run ends (unmounts and returns) once every process is gone: each
\* processExit decrements progs_running_ and the last one signals
\* all_processes_killed_, and Run re-tests the count under counter_lock_.
\* Stated over the processes, not over progs_running_, so a lost decrement
\* or a lost signal both leave Run asleep.
RegistryFinishes ==
  AllProcessesGone ~> (rpc = "done" \/ panic)

=============================================================================
