--------------------------- MODULE ThreadLifecycle ---------------------------
(***************************************************************************)
(* The threads of one process after they are created: pthread_join,       *)
(* pthread_exit, pthread_cancel and exit (UserProcess.cpp, UThreadManager, *)
(* UserThread.cpp), and their destruction by the scheduler's cleanup.     *)
(*                                                                         *)
(* joinThread and exitThread meet under waiters_lock_: the exiting thread *)
(* publishes its return value in ret_values_ and signals the joiner that  *)
(* waiting_list_ records; the joiner sleeps on a Condition of that lock   *)
(* and, woken, takes the value.  A cancel request is only a flag; the     *)
(* thread acts on it when the scheduler next dispatches it in user mode.  *)
(* exit (UserProcess::kill) cancels every sibling, joins each, and ends   *)
(* the calling thread.  Threads are created before the behaviours start   *)
(* (creation is modelled in StackGrowth); tids are never reused because   *)
(* allocNextFreeTID only counts up.                                        *)
(***************************************************************************)
EXTENDS Naturals, FiniteSets, FiniteSetsExt

CONSTANT Threads    \* the tids of the process, all created

NoThread == 0
ASSUME NoThread \notin Threads

VARIABLES
  pc,          \* control point of each thread ("user" = running user code)
  state,       \* Thread::state_: "Running", "Sleeping", "ToBeDestroyed", "Destroyed"
  threadList,  \* thread_list_: the tids of threads not yet destroyed
  retValues,   \* keys of ret_values_: exited threads whose value is unclaimed
  waiting,     \* waiting_list_: waiting[x] is the thread joining x, or NoThread
  woken,       \* joiners whose Condition was signalled
  wLock,       \* holder of waiters_lock_
  tLock,       \* holder of thread_list_lock_
  cancelReq,   \* UserThread::cancel_req_
  cancelable,  \* UserThread::cancelable_
  exited,      \* UserThread::exited_ (wasReallyExited)
  calledExit,  \* UserProcess::called_exit_
  panic,       \* a kernel assertion failed
  jTarget,     \* joinThread's tid argument, per caller
  jRet,        \* where joinThread returns to: "user", "kill_cancel" (kill) or "exec_kill" (execv)
  killLeft     \* kill's tid_list_ still to cancel ("cancel") or to join ("join")

vars == <<pc, state, threadList, retValues, waiting, woken, wLock, tLock,
          cancelReq, cancelable, exited, calledExit, panic, jTarget, jRet, killLeft>>

-----------------------------------------------------------------------------
(* Helpers.                                                                 *)

\* joinDeadlock(caller, target): follow waiting_list_ from the caller to
\* the thread waiting for it, and on; the join would deadlock if the
\* target is met.  The chain has at most |Threads| links.
RECURSIVE WaitChain(_, _)
WaitChain(n, k) ==
  IF k = 0 \/ waiting[n] = NoThread THEN {}
  ELSE {waiting[n]} \cup WaitChain(waiting[n], k - 1)

joinDeadlock(c, x) == x \in WaitChain(c, Cardinality(Threads))

\* UserThread::isCancelableState.
isCancelableState(x) == state[x] \in {"Running", "Sleeping"}

\* UserThread::shouldCancel: a request is pending and not yet acted upon.
shouldCancel(t) == cancelReq[t] /\ cancelable[t]

\* Return from joinThread to its caller's continuation.
JoinReturn(t) == pc' = [pc EXCEPT ![t] = jRet[t]]

\* UserThread::exit: the thread is marked for the cleanup thread.
ThreadExit(t) == state' = [state EXCEPT ![t] = "ToBeDestroyed"]

-----------------------------------------------------------------------------
(* joinThread(caller, tid): UserProcess.cpp:410-492.                       *)

\* Joining oneself fails at once; otherwise waiters_lock_ is taken, and a
\* return value already in ret_values_ is claimed and returned.
joinStart(t) ==
  LET x == jTarget[t] IN
  /\ ~panic
  /\ pc[t] = "join_lock"
  /\ \/ /\ x = t
        /\ JoinReturn(t)
        /\ UNCHANGED <<wLock, retValues>>
     \/ /\ x # t
        /\ wLock = NoThread
        /\ \/ /\ x \in retValues
              /\ retValues' = retValues \ {x}
              /\ JoinReturn(t)
              /\ UNCHANGED wLock
           \/ /\ x \notin retValues
              /\ wLock' = t
              /\ pc' = [pc EXCEPT ![t] = "join_list"]
              /\ UNCHANGED retValues
  /\ UNCHANGED <<state, threadList, waiting, woken, tLock, cancelReq, cancelable,
                 exited, calledExit, panic, jTarget, jRet, killLeft>>

\* Still under waiters_lock_: the target must be in thread_list_ (read under
\* thread_list_lock_) and not exited, nobody may be joining it already, and
\* joinDeadlock must not see it waiting on the caller; else the join fails.
\* Otherwise the caller enters waiting_list_ and sleeps on the Condition,
\* which releases waiters_lock_.
joinWait(t) ==
  LET x == jTarget[t]
      fails == \/ x \notin threadList \/ exited[x]
               \/ waiting[x] # NoThread
               \/ joinDeadlock(t, x)
  IN
  /\ ~panic
  /\ pc[t] = "join_list"
  /\ tLock = NoThread
  /\ wLock' = NoThread
  /\ \/ /\ fails
        /\ JoinReturn(t)
        /\ UNCHANGED <<waiting, state>>
     \/ /\ ~fails
        /\ waiting' = [waiting EXCEPT ![x] = t]
        /\ state' = [state EXCEPT ![t] = "Sleeping"]
        /\ pc' = [pc EXCEPT ![t] = "join_wait"]
  /\ UNCHANGED <<threadList, retValues, woken, tLock, cancelReq, cancelable,
                 exited, calledExit, panic, jTarget, jRet, killLeft>>

\* Signalled, the joiner reacquires waiters_lock_, asserts that it is still
\* in waiting_list_ and that the target's value is in ret_values_, and
\* claims the value.  A failed assertion halts the kernel.
joinWake(t) ==
  LET x == jTarget[t]
      ok == waiting[x] = t /\ x \in retValues
  IN
  /\ ~panic
  /\ pc[t] = "join_wait"
  /\ t \in woken
  /\ wLock = NoThread
  /\ woken' = woken \ {t}
  /\ \/ /\ ok
        /\ waiting' = [waiting EXCEPT ![x] = NoThread]
        /\ retValues' = retValues \ {x}
        /\ state' = [state EXCEPT ![t] = "Running"]
        /\ JoinReturn(t)
        /\ UNCHANGED panic
     \/ /\ ~ok
        /\ panic' = TRUE
        /\ UNCHANGED <<waiting, retValues, state, pc>>
  /\ UNCHANGED <<threadList, wLock, tLock, cancelReq, cancelable, exited,
                 calledExit, jTarget, jRet, killLeft>>

-----------------------------------------------------------------------------
(* exitThread(retval): UserProcess.cpp:368-408.                            *)

\* Under waiters_lock_: a thread that already has a value or is already
\* exited returns; otherwise its value goes into ret_values_, its joiner
\* (if any) is signalled, it is marked really exited, and UserThread::exit
\* hands it to the cleanup thread.
exitThread(t) ==
  /\ ~panic
  /\ pc[t] = "exit_thread"
  /\ wLock = NoThread
  /\ \/ /\ t \in retValues \/ exited[t]
        /\ pc' = [pc EXCEPT ![t] = "user"]
        /\ UNCHANGED <<retValues, woken, exited, state>>
     \/ /\ t \notin retValues /\ ~exited[t]
        /\ retValues' = retValues \cup {t}
        /\ woken' = IF waiting[t] # NoThread THEN woken \cup {waiting[t]} ELSE woken
        /\ exited' = [exited EXCEPT ![t] = TRUE]
        /\ ThreadExit(t)
        /\ pc' = [pc EXCEPT ![t] = "dead"]
  /\ UNCHANGED <<threadList, waiting, wLock, tLock, cancelReq, cancelable,
                 calledExit, panic, jTarget, jRet, killLeft>>

-----------------------------------------------------------------------------
(* cancelThread(id): UserProcess.cpp:494-520.                              *)

\* Under thread_list_lock_: a target not in thread_list_ gives -1, one not
\* sleeping or running gives -2, else its cancel request is set.
CancelResult(x) ==
  IF x \notin threadList THEN -1 ELSE IF ~isCancelableState(x) THEN -2 ELSE 0

cancelThread(x) ==
  cancelReq' = IF CancelResult(x) = 0 THEN [cancelReq EXCEPT ![x] = TRUE] ELSE cancelReq

-----------------------------------------------------------------------------
(* Scheduler: dispatch and cleanup.                                        *)

\* Scheduler::schedule: a user thread dispatched in user mode with a request
\* pending is marked cancelled and redirected to internalThreadCancel, which
\* calls exitThread.  A thread inside a syscall (switch_to_userspace_ = 0)
\* is never cancelled here.
scheduleCancel(t) ==
  /\ ~panic
  /\ pc[t] = "user"
  /\ state[t] = "Running"
  /\ shouldCancel(t)
  /\ cancelable' = [cancelable EXCEPT ![t] = FALSE]
  /\ pc' = [pc EXCEPT ![t] = "exit_thread"]
  /\ UNCHANGED <<state, threadList, retValues, waiting, woken, wLock, tLock,
                 cancelReq, exited, calledExit, panic, jTarget, jRet, killLeft>>

\* UserProcess::eraseThreadInformation.
eraseThreadInformation(x) == threadList \ {x}

\* ~UserThread calls onThreadDestroyed, which under thread_list_lock_
\* erases the thread (the process is deleted with its last thread).
onThreadDestroyed(t) ==
  /\ tLock = NoThread
  /\ state' = [state EXCEPT ![t] = "Destroyed"]
  /\ threadList' = eraseThreadInformation(t)
  /\ UNCHANGED <<pc, retValues, waiting, woken, wLock, tLock, cancelReq,
                 cancelable, exited, calledExit, panic, jTarget, jRet, killLeft>>

\* Scheduler::cleanupDeadThreads, run by the cleanup thread: every thread in
\* state ToBeDestroyed is taken off the scheduler's list and deleted.
cleanupDeadThreads(t) ==
  /\ ~panic
  /\ state[t] = "ToBeDestroyed"
  /\ onThreadDestroyed(t)

-----------------------------------------------------------------------------
(* exit: Syscall::exit -> UserProcess::kill, UserProcess.cpp:628-685.      *)

\* A second exit finds called_exit_ set (read without a lock) and ends its
\* own thread with UserThread::exit; the first goes on.
killStart(t) ==
  /\ ~panic
  /\ pc[t] = "kill_start"
  /\ \/ /\ calledExit
        /\ ThreadExit(t)
        /\ pc' = [pc EXCEPT ![t] = "dead"]
     \/ /\ ~calledExit
        /\ pc' = [pc EXCEPT ![t] = "kill_collect"]
        /\ UNCHANGED state
  /\ UNCHANGED <<threadList, retValues, waiting, woken, wLock, tLock, cancelReq,
                 cancelable, exited, calledExit, panic, jTarget, jRet, killLeft>>

\* called_exit_ = true, then under thread_list_lock_ every other tid of
\* thread_list_ goes into tid_list_.
killCollect(t) ==
  /\ ~panic
  /\ pc[t] = "kill_collect"
  /\ tLock = NoThread
  /\ calledExit' = TRUE
  /\ killLeft' = [killLeft EXCEPT ![t] = [cancel |-> threadList \ {t}, join |-> {}]]
  /\ pc' = [pc EXCEPT ![t] = "kill_cancel"]
  /\ UNCHANGED <<state, threadList, retValues, waiting, woken, wLock, tLock,
                 cancelReq, cancelable, exited, panic, jTarget, jRet>>

\* In tid order, cancelThread on each; a tid it reports as gone (-1) is
\* dropped from tid_list_, the others are joined afterwards.
killCancel(t) ==
  LET x == Min(killLeft[t].cancel) IN
  /\ ~panic
  /\ pc[t] = "kill_cancel"
  /\ killLeft[t].cancel # {}
  /\ tLock = NoThread
  /\ cancelThread(x)
  /\ killLeft' = [killLeft EXCEPT ![t].cancel = @ \ {x},
                                  ![t].join = IF CancelResult(x) = -1 THEN @ ELSE @ \cup {x}]
  /\ UNCHANGED <<pc, state, threadList, retValues, waiting, woken, wLock, tLock,
                 cancelable, exited, calledExit, panic, jTarget, jRet>>

\* In tid order, joinThread on each remaining tid (its result is ignored);
\* then the calling thread ends with UserThread::exit.
killJoin(t) ==
  /\ ~panic
  /\ pc[t] = "kill_cancel"
  /\ killLeft[t].cancel = {}
  /\ \/ /\ killLeft[t].join # {}
        /\ jTarget' = [jTarget EXCEPT ![t] = Min(killLeft[t].join)]
        /\ jRet' = [jRet EXCEPT ![t] = "kill_cancel"]
        /\ killLeft' = [killLeft EXCEPT ![t].join = @ \ {Min(@)}]
        /\ pc' = [pc EXCEPT ![t] = "join_lock"]
        /\ UNCHANGED state
     \/ /\ killLeft[t].join = {}
        /\ ThreadExit(t)
        /\ pc' = [pc EXCEPT ![t] = "dead"]
        /\ UNCHANGED <<jTarget, jRet, killLeft>>
  /\ UNCHANGED <<threadList, retValues, waiting, woken, wLock, tLock, cancelReq,
                 cancelable, exited, calledExit, panic>>

-----------------------------------------------------------------------------
(* execv: Syscall::execv -> restructureProcessForExecv, which first runs   *)
(* killThreadsSiblings (UserProcess.cpp:755-813).                          *)

\* Under thread_list_lock_ the iteration moves to the next sibling in tid
\* order after the one last joined (jTarget); with none left, the new
\* image is loaded.  The lock is released before the sibling is cancelled.
killThreadsSiblings(t) ==
  LET next == {y \in threadList : y # t /\ y > jTarget[t]} IN
  /\ ~panic
  /\ pc[t] = "exec_kill"
  /\ tLock = NoThread
  /\ \/ /\ next # {}
        /\ jTarget' = [jTarget EXCEPT ![t] = Min(next)]
        /\ pc' = [pc EXCEPT ![t] = "exec_cancel"]
     \/ /\ next = {}
        /\ pc' = [pc EXCEPT ![t] = "exec_load"]
        /\ UNCHANGED jTarget
  /\ UNCHANGED <<state, threadList, retValues, waiting, woken, wLock, tLock,
                 cancelReq, cancelable, exited, calledExit, panic, jRet, killLeft>>

\* cancel_thread on that sibling, then join_thread on it; the iteration
\* resumes when the join returns.
execCancelJoin(t) ==
  /\ ~panic
  /\ pc[t] = "exec_cancel"
  /\ tLock = NoThread
  /\ cancelThread(jTarget[t])
  /\ jRet' = [jRet EXCEPT ![t] = "exec_kill"]
  /\ pc' = [pc EXCEPT ![t] = "join_lock"]
  /\ UNCHANGED <<state, threadList, retValues, waiting, woken, wLock, tLock,
                 cancelable, exited, calledExit, panic, jTarget, killLeft>>

\* The new Loader is built and swapped in and the calling thread is
\* restructured (or loading fails and execv returns -1); either way the
\* thread goes back to user code.  The address space is not part of this
\* module.
execLoad(t) ==
  /\ ~panic
  /\ pc[t] = "exec_load"
  /\ pc' = [pc EXCEPT ![t] = "user"]
  /\ UNCHANGED <<state, threadList, retValues, waiting, woken, wLock, tLock,
                 cancelReq, cancelable, exited, calledExit, panic, jTarget, jRet, killLeft>>

-----------------------------------------------------------------------------
(* The user program of each thread: syscalls through UThreadManager.       *)

\* The thread runs user code: dispatched, and no cancellation pending.
Runs(t) == ~panic /\ pc[t] = "user" /\ state[t] = "Running" /\ ~shouldCancel(t)

\* UThreadManager::join_thread -> joinThread(own tid, x).
join_thread(t, x) ==
  /\ Runs(t)
  /\ jTarget' = [jTarget EXCEPT ![t] = x]
  /\ jRet' = [jRet EXCEPT ![t] = "user"]
  /\ pc' = [pc EXCEPT ![t] = "join_lock"]
  /\ UNCHANGED <<state, threadList, retValues, waiting, woken, wLock, tLock,
                 cancelReq, cancelable, exited, calledExit, panic, killLeft>>

\* UThreadManager::exit_thread -> exitThread.
exit_thread(t) ==
  /\ Runs(t)
  /\ pc' = [pc EXCEPT ![t] = "exit_thread"]
  /\ UNCHANGED <<state, threadList, retValues, waiting, woken, wLock, tLock,
                 cancelReq, cancelable, exited, calledExit, panic, jTarget, jRet, killLeft>>

\* UThreadManager::cancel_thread -> cancelThread(x), under thread_list_lock_.
cancel_thread(t, x) ==
  /\ Runs(t)
  /\ tLock = NoThread
  /\ cancelThread(x)
  /\ UNCHANGED <<pc, state, threadList, retValues, waiting, woken, wLock, tLock,
                 cancelable, exited, calledExit, panic, jTarget, jRet, killLeft>>

\* Syscall::execv: the path and arguments are checked and copied into the
\* arguments segment (a bad argument returns -1 and changes nothing), then
\* restructureProcessForExecv starts with killThreadsSiblings.
execv(t) ==
  /\ Runs(t)
  /\ jTarget' = [jTarget EXCEPT ![t] = NoThread]
  /\ pc' = [pc EXCEPT ![t] = "exec_kill"]
  /\ UNCHANGED <<state, threadList, retValues, waiting, woken, wLock, tLock,
                 cancelReq, cancelable, exited, calledExit, panic, jRet, killLeft>>

\* Syscall::exit -> UserProcess::kill.
exit(t) ==
  /\ Runs(t)
  /\ pc' = [pc EXCEPT ![t] = "kill_start"]
  /\ UNCHANGED <<state, threadList, retValues, waiting, woken, wLock, tLock,
                 cancelReq, cancelable, exited, calledExit, panic, jTarget, jRet, killLeft>>

-----------------------------------------------------------------------------

Init ==
  /\ pc = [t \in Threads |-> "user"]
  /\ state = [t \in Threads |-> "Running"]
  /\ threadList = Threads
  /\ retValues = {}
  /\ waiting = [t \in Threads |-> NoThread]
  /\ woken = {}
  /\ wLock = NoThread
  /\ tLock = NoThread
  /\ cancelReq = [t \in Threads |-> FALSE]
  /\ cancelable = [t \in Threads |-> TRUE]
  /\ exited = [t \in Threads |-> FALSE]
  /\ calledExit = FALSE
  /\ panic = FALSE
  /\ jTarget = [t \in Threads |-> NoThread]
  /\ jRet = [t \in Threads |-> "user"]
  /\ killLeft = [t \in Threads |-> [cancel |-> {}, join |-> {}]]

\* A step of the kernel on behalf of thread t.
KernelStep(t) ==
  \/ joinStart(t) \/ joinWait(t) \/ joinWake(t) \/ exitThread(t)
  \/ killStart(t) \/ killCollect(t) \/ killCancel(t) \/ killJoin(t)
  \/ killThreadsSiblings(t) \/ execCancelJoin(t) \/ execLoad(t)
  \/ scheduleCancel(t) \/ cleanupDeadThreads(t)

UserStep(t) ==
  \/ exit_thread(t) \/ exit(t) \/ execv(t)
  \/ \E x \in Threads : join_thread(t, x) \/ cancel_thread(t, x)

Next == \E t \in Threads : KernelStep(t) \/ UserStep(t)

\* Kernel steps run whenever the thread is scheduled (weak fairness); the
\* steps that wait for waiters_lock_ or thread_list_lock_ get a Mutex that
\* is free only now and then (strong fairness).  User code may stop.
Spec ==
  /\ Init /\ [][Next]_vars
  /\ \A t \in Threads : SF_vars(KernelStep(t))

-----------------------------------------------------------------------------
(* Properties.                                                              *)

\* exit terminates the process (UserProcess::kill: "cancel and join all the
\* threads until there are no more"): once called_exit_ is set, every
\* thread is eventually destroyed, whatever the threads were doing.
ExitTerminates == calledExit ~> threadList = {}

====
