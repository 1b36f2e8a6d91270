---------------------------- MODULE CopyOnWrite ----------------------------
(***************************************************************************)
(* Copy-on-write sharing of user pages between forked processes.           *)
(*                                                                         *)
(* Components modelled together, because their races are the point:        *)
(*  - the fork path  ArchMemory::copyPagesToNewArchMemCOW  (page by page:  *)
(*    child entry, parent write-protect, then COWManager::addToCOWMap      *)
(*    under the COW map lock);                                             *)
(*  - the page fault path  PageFaultHandler::enterPageFault ->             *)
(*    checkPageFaultIsValid -> handlePageFault -> either                   *)
(*    COWManager::handleCOWPageFault or the Loader;                        *)
(*  - process teardown  ~UserProcess -> eraseProcessFromCOWMap, then       *)
(*    ~ArchMemory freeing every present leaf frame.                        *)
(*                                                                         *)
(* A process's page table is abstracted to its leaf entries (one per       *)
(* virtual page); the four-level hierarchy is the subject of another       *)
(* module.  Frame contents are abstracted to the number of the write that  *)
(* produced them; the ghost variable view records what each process has    *)
(* last written (or inherited at fork) at each page, so isolation between  *)
(* processes can be stated.                                                *)
(***************************************************************************)
EXTENDS Naturals, FiniteSets, FiniteSetsExt

CONSTANTS
  NumProcs,     \* process slots; process 1 exists initially, fork uses the rest
  InitThreads,  \* threads of the initial process (a forked child gets one)
  NumVPages,    \* user data pages (not stack pages) of every address space
  NumFrames,    \* physical frames managed by the frame allocator
  MaxWrites     \* bound on user-mode writes, which also bounds faults

Procs    == 1..NumProcs
TIDs     == 1..InitThreads
Threads  == Procs \X TIDs
VPages   == 1..NumVPages
Frames   == 1..NumFrames
NoFrame  == 0
NoThread == <<0, 0>>
InitProc == 1

ASSUME /\ NumProcs \in Nat \ {0}
       /\ InitThreads \in Nat \ {0}
       /\ NumVPages \in Nat \ {0}
       \* initial pages, plus one load and one COW copy per page and process
       /\ NumFrames >= NumVPages * (1 + 2 * NumProcs)
       /\ MaxWrites \in Nat \ {0}

VARIABLES
  procState,  \* lifecycle of each process slot
  pt,         \* pt[p][v]: leaf page-table entry of process p for page v
  cow,        \* COWManager::cow_map_: frame -> set of sharing processes
  free,       \* frames not allocated (PageManager)
  content,    \* content[f]: number of the write whose data frame f holds
  view,       \* ghost: view[p][v] is what process p must read at page v
  nwrites,    \* number of user writes so far
  pc,         \* control point of each thread
  ctx,        \* per-thread locals of the fault or fork in progress
  cowLock,    \* holder of COWManager::cow_map_lock_ across a step boundary
  panic       \* a kernel assertion failed: the kernel halts

vars == <<procState, pt, cow, free, content, view, nwrites, pc, ctx, cowLock, panic>>

Entry    == [present : BOOLEAN, writeable : BOOLEAN, ppn : Frames \cup {NoFrame}]
Unmapped == [present |-> FALSE, writeable |-> FALSE, ppn |-> NoFrame]
NoCtx    == [vpage |-> 0, present |-> FALSE, ppn |-> NoFrame, newppn |-> NoFrame,
             child |-> 0, todo |-> {}]

ProcStates == {"unused", "creating", "alive", "exiting", "killed", "erased", "dead"}
PCs == {"none", "idle", "trapped", "valid", "load", "cow_wait", "cow_copy",
        "fork_copy", "fork_add"}
InKernel(t) == pc[t] \notin {"none", "idle"}

Proc(t) == t[1]
ThreadsOf(p) == {t \in Threads : Proc(t) = p}

\* PageManager::allocPPN hands out the lowest free frame.
AllocPPN == Min(free)

\* COWManager::ppnShared(ppn): in the map with a non-empty owner set.
ppnShared(f) == f \in Frames /\ cow[f] # {}

\* COWManager::addToCOWMap: both owners inserted into the frame's set.
addToCOWMap(f, p1, p2) == [cow EXCEPT ![f] = @ \cup {p1, p2}]

\* COWManager::eraseProcessFromCOWMap: p removed from every owner set.
eraseProcessFromCOWMap(p) == [f \in Frames |-> cow[f] \ {p}]

Goto(t, l) == pc' = [pc EXCEPT ![t] = l]
Return(t)  == /\ pc'  = [pc EXCEPT ![t] = "idle"]
              /\ ctx' = [ctx EXCEPT ![t] = NoCtx]

Init ==
  /\ procState = [p \in Procs |-> IF p = InitProc THEN "alive" ELSE "unused"]
  \* the loader may or may not have mapped each page yet; page v is in frame v
  /\ \E loaded \in SUBSET VPages :
       /\ pt = [p \in Procs |-> [v \in VPages |->
                 IF p = InitProc /\ v \in loaded
                 THEN [present |-> TRUE, writeable |-> TRUE, ppn |-> v]
                 ELSE Unmapped]]
       /\ free = Frames \ loaded
  /\ cow = [f \in Frames |-> {}]
  /\ content = [f \in Frames |-> 0]
  /\ view = [p \in Procs |-> [v \in VPages |-> 0]]
  /\ nwrites = 0
  /\ pc = [t \in Threads |-> IF Proc(t) = InitProc THEN "idle" ELSE "none"]
  /\ ctx = [t \in Threads |-> NoCtx]
  /\ cowLock = NoThread
  /\ panic = FALSE

-----------------------------------------------------------------------------
(* User mode: the MMU lets a write through or raises a page fault.         *)

UserRunnable(t) == /\ ~panic
                   /\ pc[t] = "idle"
                   /\ procState[Proc(t)] = "alive"
                   /\ nwrites < MaxWrites

\* A write to a present, writable page.
UserWrite(t, v) ==
  LET p == Proc(t) IN
  /\ UserRunnable(t)
  /\ pt[p][v].present /\ pt[p][v].writeable
  /\ content' = [content EXCEPT ![pt[p][v].ppn] = nwrites + 1]
  /\ view' = [view EXCEPT ![p][v] = nwrites + 1]
  /\ nwrites' = nwrites + 1
  /\ UNCHANGED <<procState, pt, cow, free, pc, ctx, cowLock, panic>>

\* PageFaultHandler::enterPageFault: the fault flags are captured with
\* interrupts disabled, then interrupts are enabled for the handler.
enterPageFault(t, v) ==
  LET p == Proc(t) IN
  /\ UserRunnable(t)
  /\ ~(pt[p][v].present /\ pt[p][v].writeable)
  /\ Goto(t, "trapped")
  /\ ctx' = [ctx EXCEPT ![t] = [NoCtx EXCEPT !.vpage = v, !.present = pt[p][v].present]]
  /\ UNCHANGED <<procState, pt, cow, free, content, view, nwrites, cowLock, panic>>

-----------------------------------------------------------------------------
(* Kernel mode: the page fault handler.                                    *)

\* checkPageFaultIsValid: every modelled page is a user page above the null
\* border, so a fault is invalid only when the page was present at the trap
\* and is not (any more) COW-shared; then Syscall::exit kills the process.
checkPageFaultIsValid(t) ==
  LET p == Proc(t)
      v == ctx[t].vpage
      valid == ~ctx[t].present \/ ppnShared(pt[p][v].ppn)
  IN
  /\ ~panic
  /\ pc[t] = "trapped"
  /\ \/ /\ valid
        /\ Goto(t, "valid")
        /\ UNCHANGED <<procState, ctx>>
     \/ /\ ~valid
        /\ procState' = [procState EXCEPT ![p] = "killed"]
        /\ Return(t)
  /\ UNCHANGED <<pt, cow, free, content, view, nwrites, cowLock, panic>>

\* handlePageFault: data pages are in no stack region, so the fault goes to
\* the COW manager if the page's frame is shared and to the Loader otherwise.
\* handleCOWPageFault resolves the mapping before taking the lock; the frame
\* it read is kept in ctx.ppn.
handlePageFault(t) ==
  LET p == Proc(t)
      f == pt[p][ctx[t].vpage].ppn
  IN
  /\ ~panic
  /\ pc[t] = "valid"
  /\ \/ /\ ppnShared(f)
        /\ Goto(t, "cow_wait")
        /\ ctx' = [ctx EXCEPT ![t].ppn = f]
     \/ /\ ~ppnShared(f)
        /\ Goto(t, "load")
        /\ UNCHANGED ctx
  /\ UNCHANGED <<procState, pt, cow, free, content, view, nwrites, cowLock, panic>>

\* Loader::loadPage: maps a fresh frame holding the image's data, or finds
\* the page already mapped by someone else and gives the frame back.
loadPage(t) ==
  LET p == Proc(t)
      v == ctx[t].vpage
  IN
  /\ ~panic
  /\ pc[t] = "load"
  /\ \/ /\ ~pt[p][v].present
        /\ pt' = [pt EXCEPT ![p][v] = [present |-> TRUE, writeable |-> TRUE, ppn |-> AllocPPN]]
        /\ free' = free \ {AllocPPN}
        /\ content' = [content EXCEPT ![AllocPPN] = 0]
     \/ /\ pt[p][v].present
        /\ UNCHANGED <<pt, free, content>>
  /\ Return(t)
  /\ UNCHANGED <<procState, cow, view, nwrites, cowLock, panic>>

\* The assert at the top of handleCOWPageFault: the faulting process must
\* be in the frame's owner set; a failed assert halts the kernel.
COWNotOwner(t, m) ==
  /\ Proc(t) \notin cow[m]
  /\ panic' = TRUE
  /\ UNCHANGED <<pt, cow, free, content, pc, ctx, cowLock>>

\* Case 1: the only owner left keeps the frame and may write it again.
COWCase1(t, m) ==
  LET p == Proc(t)  v == ctx[t].vpage IN
  /\ cow[m] = {p}
  /\ pt' = [pt EXCEPT ![p][v].writeable = TRUE]
  /\ cow' = [cow EXCEPT ![m] = @ \ {p}]
  /\ Return(t)
  /\ UNCHANGED <<free, content, cowLock, panic>>

\* Case 2, first half: a new frame is mapped writable before the copy; the
\* lock stays held into the second half (resolveOtherOwner).
COWCase2(t, m) ==
  LET p == Proc(t)  v == ctx[t].vpage IN
  /\ p \in cow[m] /\ Cardinality(cow[m]) = 2
  /\ pt' = [pt EXCEPT ![p][v].ppn = AllocPPN, ![p][v].writeable = TRUE]
  /\ free' = free \ {AllocPPN}
  /\ cowLock' = t
  /\ Goto(t, "cow_copy")
  /\ ctx' = [ctx EXCEPT ![t].newppn = AllocPPN]
  /\ UNCHANGED <<cow, content, panic>>

\* Faulty variant of case 3: the copy is made but the entry keeps the old frame.
COWCase3_noRemap(t, m) ==
  LET p == Proc(t) IN
  /\ p \in cow[m] /\ Cardinality(cow[m]) >= 3
  /\ content' = [content EXCEPT ![AllocPPN] = content[m]]
  /\ free' = free \ {AllocPPN}
  /\ cow' = [cow EXCEPT ![m] = @ \ {p}]
  /\ Return(t)
  /\ UNCHANGED <<pt, cowLock, panic>>

\* Case 3 and more: the faulting process copies the frame and leaves the set.
COWCase3(t, m) ==
  LET p == Proc(t)  v == ctx[t].vpage IN
  /\ p \in cow[m] /\ Cardinality(cow[m]) >= 3
  /\ content' = [content EXCEPT ![AllocPPN] = content[m]]
  /\ pt' = [pt EXCEPT ![p][v].ppn = AllocPPN, ![p][v].writeable = TRUE]
  /\ free' = free \ {AllocPPN}
  /\ cow' = [cow EXCEPT ![m] = @ \ {p}]
  /\ Return(t)
  /\ UNCHANGED <<cowLock, panic>>

\* COWManager::handleCOWPageFault: takes cow_map_lock_ and branches on the
\* current size of the owner set of the frame resolved before the lock.
handleCOWPageFault(t) ==
  /\ ~panic
  /\ pc[t] = "cow_wait"
  /\ cowLock = NoThread
  /\ \/ COWNotOwner(t, ctx[t].ppn)
     \/ COWCase1(t, ctx[t].ppn)
     \/ COWCase2(t, ctx[t].ppn)
     \/ COWCase3(t, ctx[t].ppn)
  /\ UNCHANGED <<procState, view, nwrites>>

\* Faulty variants of the second half: the other owner is left in the set,
\* or the lock is never released.
resolveOtherOwner_keepsOther(t) ==
  LET p == Proc(t)  v == ctx[t].vpage  m == ctx[t].ppn
      q == CHOOSE q \in cow[m] \ {p} : TRUE
  IN
  /\ ~panic /\ pc[t] = "cow_copy"
  /\ content' = [content EXCEPT ![ctx[t].newppn] = content[m]]
  /\ pt' = [pt EXCEPT ![q][v].writeable = TRUE]
  /\ cow' = [cow EXCEPT ![m] = @ \ {p}]
  /\ cowLock' = NoThread
  /\ Return(t)
  /\ UNCHANGED <<procState, free, view, nwrites, panic>>

resolveOtherOwner_noRelease(t) ==
  LET p == Proc(t)  v == ctx[t].vpage  m == ctx[t].ppn
      q == CHOOSE q \in cow[m] \ {p} : TRUE
  IN
  /\ ~panic /\ pc[t] = "cow_copy"
  /\ content' = [content EXCEPT ![ctx[t].newppn] = content[m]]
  /\ pt' = [pt EXCEPT ![q][v].writeable = TRUE]
  /\ cow' = [cow EXCEPT ![m] = {}]
  /\ Return(t)
  /\ UNCHANGED <<procState, free, view, nwrites, cowLock, panic>>

\* Case 2, second half, still under the lock: copy the data, drop the
\* faulting process, then make the other owner's entry at the same virtual
\* page writable and drop it too.
resolveOtherOwner(t) ==
  LET p == Proc(t)
      v == ctx[t].vpage
      m == ctx[t].ppn
      q == CHOOSE q \in cow[m] \ {p} : TRUE
  IN
  /\ ~panic
  /\ pc[t] = "cow_copy"
  /\ content' = [content EXCEPT ![ctx[t].newppn] = content[m]]
  /\ pt' = [pt EXCEPT ![q][v].writeable = TRUE]
  /\ cow' = [cow EXCEPT ![m] = {}]
  /\ cowLock' = NoThread
  /\ Return(t)
  /\ UNCHANGED <<procState, free, view, nwrites, panic>>

-----------------------------------------------------------------------------
(* fork: UserProcess copy constructor and copyPagesToNewArchMemCOW.        *)

\* Syscall::fork -> new UserProcess(parent): a new pid, an empty address
\* space, then the page walk over the parent's lower half.
forkStart(t) ==
  LET p == Proc(t)
      c == Min({q \in Procs : procState[q] = "unused"})
  IN
  /\ ~panic
  /\ pc[t] = "idle"
  /\ procState[p] = "alive"
  /\ \E q \in Procs : procState[q] = "unused"
  /\ procState' = [procState EXCEPT ![c] = "creating"]
  /\ Goto(t, "fork_copy")
  /\ ctx' = [ctx EXCEPT ![t] = [NoCtx EXCEPT !.child = c, !.todo = VPages]]
  /\ UNCHANGED <<pt, cow, free, content, view, nwrites, cowLock, panic>>

\* Faulty variant: the parent's entry is not write-protected.
copyPageToChild_noWriteProtect(t) ==
  LET p == Proc(t)  c == ctx[t].child  v == Min(ctx[t].todo) IN
  /\ ~panic /\ pc[t] = "fork_copy" /\ ctx[t].todo # {}
  /\ \/ /\ pt[p][v].present
        /\ pt' = [pt EXCEPT ![c][v] = [pt[p][v] EXCEPT !.writeable = FALSE]]
        /\ view' = [view EXCEPT ![c][v] = view[p][v]]
        /\ Goto(t, "fork_add")
        /\ ctx' = [ctx EXCEPT ![t].vpage = v]
     \/ /\ ~pt[p][v].present
        /\ ctx' = [ctx EXCEPT ![t].todo = @ \ {v}]
        /\ UNCHANGED <<pt, view, pc>>
  /\ UNCHANGED <<procState, cow, free, content, nwrites, cowLock, panic>>

\* One iteration of the walk: copyPageHierarchy gives the child the same
\* frame read-only, then the parent's entry is write-protected.
copyPageToChild(t) ==
  LET p == Proc(t)
      c == ctx[t].child
      v == Min(ctx[t].todo)
  IN
  /\ ~panic
  /\ pc[t] = "fork_copy"
  /\ ctx[t].todo # {}
  /\ \/ /\ pt[p][v].present
        /\ pt' = [pt EXCEPT ![c][v] = [pt[p][v] EXCEPT !.writeable = FALSE],
                            ![p][v].writeable = FALSE]
        /\ view' = [view EXCEPT ![c][v] = view[p][v]]
        /\ Goto(t, "fork_add")
        /\ ctx' = [ctx EXCEPT ![t].vpage = v]
     \/ /\ ~pt[p][v].present
        /\ ctx' = [ctx EXCEPT ![t].todo = @ \ {v}]
        /\ UNCHANGED <<pt, view, pc>>
  /\ UNCHANGED <<procState, cow, free, content, nwrites, cowLock, panic>>

\* addToCOWMap(pt[pti].page_ppn, parent, child): the parent's entry is read
\* again here, and the map lock must be free.
forkAddToCOWMap(t) ==
  LET p == Proc(t)
      v == ctx[t].vpage
  IN
  /\ ~panic
  /\ pc[t] = "fork_add"
  /\ cowLock = NoThread
  /\ cow' = addToCOWMap(pt[p][v].ppn, p, ctx[t].child)
  /\ Goto(t, "fork_copy")
  /\ ctx' = [ctx EXCEPT ![t].todo = @ \ {v}]
  /\ UNCHANGED <<procState, pt, free, content, view, nwrites, cowLock, panic>>

\* The walk is done: the child's first thread is created and scheduled.
forkFinish(t) ==
  LET c == ctx[t].child IN
  /\ ~panic
  /\ pc[t] = "fork_copy"
  /\ ctx[t].todo = {}
  /\ procState' = [procState EXCEPT ![c] = "alive"]
  /\ pc' = [pc EXCEPT ![t] = "idle", ![<<c, 1>>] = "idle"]
  /\ ctx' = [ctx EXCEPT ![t] = NoCtx]
  /\ UNCHANGED <<pt, cow, free, content, view, nwrites, cowLock, panic>>

-----------------------------------------------------------------------------
(* exit and teardown.                                                      *)

\* Syscall::exit -> UserProcess::kill: no new threads, siblings cancelled.
exit(t) ==
  /\ ~panic
  /\ pc[t] = "idle"
  /\ procState[Proc(t)] = "alive"
  /\ procState' = [procState EXCEPT ![Proc(t)] = "exiting"]
  /\ UNCHANGED <<pt, cow, free, content, view, nwrites, pc, ctx, cowLock, panic>>

\* Faulty variant: the process is never erased from the COW map.
destroyProcess_noErase(p) ==
  /\ ~panic
  /\ procState[p] \in {"exiting", "killed"}
  /\ \A t \in ThreadsOf(p) : ~InKernel(t)
  /\ cowLock = NoThread
  /\ procState' = [procState EXCEPT ![p] = "erased"]
  /\ pc' = [t \in Threads |-> IF Proc(t) = p THEN "none" ELSE pc[t]]
  /\ UNCHANGED <<pt, cow, free, content, view, nwrites, ctx, cowLock, panic>>

\* ~UserProcess, run once the last thread has left the kernel and been
\* destroyed: the process is erased from the COW map under its lock.
destroyProcess(p) ==
  /\ ~panic
  /\ procState[p] \in {"exiting", "killed"}
  /\ \A t \in ThreadsOf(p) : ~InKernel(t)
  /\ cowLock = NoThread
  /\ cow' = eraseProcessFromCOWMap(p)
  /\ procState' = [procState EXCEPT ![p] = "erased"]
  /\ pc' = [t \in Threads |-> IF Proc(t) = p THEN "none" ELSE pc[t]]
  /\ UNCHANGED <<pt, free, content, view, nwrites, ctx, cowLock, panic>>

\* Faulty variants of the teardown walk: the present bit is not consulted
\* (freePPN of whatever the entry holds), or frames are unmapped, not freed.
freeArchMemory_noPresentCheck(p) ==
  /\ ~panic
  /\ procState[p] = "erased"
  /\ free' = free \cup {pt[p][v].ppn : v \in VPages}
  /\ pt' = [pt EXCEPT ![p] = [v \in VPages |-> Unmapped]]
  /\ procState' = [procState EXCEPT ![p] = "dead"]
  /\ UNCHANGED <<cow, content, view, nwrites, pc, ctx, cowLock, panic>>

freeArchMemory_noFree(p) ==
  /\ ~panic
  /\ procState[p] = "erased"
  /\ pt' = [pt EXCEPT ![p] = [v \in VPages |-> Unmapped]]
  /\ procState' = [procState EXCEPT ![p] = "dead"]
  /\ UNCHANGED <<cow, free, content, view, nwrites, pc, ctx, cowLock, panic>>

\* deleteResources -> delete loader_ -> ~ArchMemory: every present leaf's
\* frame is freed, whether or not it is still shared.
freeArchMemory(p) ==
  /\ ~panic
  /\ procState[p] = "erased"
  /\ free' = free \cup {pt[p][v].ppn : v \in {w \in VPages : pt[p][w].present}}
  /\ pt' = [pt EXCEPT ![p] = [v \in VPages |-> Unmapped]]
  /\ procState' = [procState EXCEPT ![p] = "dead"]
  /\ UNCHANGED <<cow, content, view, nwrites, pc, ctx, cowLock, panic>>

-----------------------------------------------------------------------------

\* The kernel halted on a failed assertion.
Halted == panic /\ UNCHANGED vars

\* Every thread is in user mode and chooses to do nothing more.
Quiescent == /\ ~panic
             /\ \A t \in Threads : ~InKernel(t)
             /\ UNCHANGED vars

ThreadStep(t) ==
  \/ \E v \in VPages : UserWrite(t, v) \/ enterPageFault(t, v)
  \/ checkPageFaultIsValid(t)
  \/ handlePageFault(t)
  \/ loadPage(t)
  \/ handleCOWPageFault(t)
  \/ resolveOtherOwner(t)
  \/ forkStart(t)
  \/ copyPageToChild(t)
  \/ forkAddToCOWMap(t)
  \/ forkFinish(t)

\* Fork and faults only: no process is ever torn down.
CoreNext == (\E t \in Threads : ThreadStep(t)) \/ Halted \/ Quiescent

Next ==
  \/ CoreNext
  \/ \E t \in Threads : exit(t)
  \/ \E p \in Procs : destroyProcess(p) \/ freeArchMemory(p)

\* Kernel steps of a thread run whenever they are enabled (preemptive
\* round-robin); steps that take cow_map_lock_ wait on a Mutex, which hands
\* the lock to a waiter on release, hence strong fairness.
KernelFairness ==
  \A t \in Threads :
    /\ WF_vars(checkPageFaultIsValid(t))
    /\ WF_vars(handlePageFault(t))
    /\ WF_vars(loadPage(t))
    /\ WF_vars(resolveOtherOwner(t))
    /\ WF_vars(copyPageToChild(t))
    /\ WF_vars(forkFinish(t))
    /\ SF_vars(handleCOWPageFault(t))
    /\ SF_vars(forkAddToCOWMap(t))

CoreSpec == Init /\ [][CoreNext]_vars /\ KernelFairness

Spec == Init /\ [][Next]_vars /\ KernelFairness
          /\ \A p \in Procs : SF_vars(destroyProcess(p)) /\ WF_vars(freeArchMemory(p))

-----------------------------------------------------------------------------
(* Properties.                                                             *)

TypeOK ==
  /\ procState \in [Procs -> ProcStates]
  /\ pt \in [Procs -> [VPages -> Entry]]
  /\ cow \in [Frames -> SUBSET Procs]
  /\ free \subseteq Frames
  /\ content \in [Frames -> 0..MaxWrites]
  /\ view \in [Procs -> [VPages -> 0..MaxWrites]]
  /\ nwrites \in 0..MaxWrites
  /\ pc \in [Threads -> PCs]
  /\ cowLock \in Threads \cup {NoThread}
  /\ panic \in BOOLEAN

\* A process some of whose threads are in user mode can read its pages.
Observable(p) == procState[p] = "alive" /\ \E t \in ThreadsOf(p) : pc[t] = "idle"

\* Isolation (the purpose of COW, handleCOWPageFault and fork together):
\* every page a running process can read holds what that process last wrote
\* there, or inherited at fork; no write of another process shows through.
Isolation ==
  \A p \in Procs : Observable(p) =>
    \A v \in VPages : pt[p][v].present => content[pt[p][v].ppn] = view[p][v]

\* Tracker consistency that handleCOWPageFault's case 2 relies on when it
\* writes the other owner's entry: every process in a frame's owner set maps
\* that frame read-only, except the faulting process between the two halves
\* of case 2, which has already moved to its new frame.
OwnersHoldReadOnly ==
  \A f \in Frames : \A p \in cow[f] :
    \/ \E v \in VPages : pt[p][v] = [present |-> TRUE, writeable |-> FALSE, ppn |-> f]
    \/ \E t \in ThreadsOf(p) : pc[t] = "cow_copy" /\ ctx[t].ppn = f

\* No frame leaks: every allocated frame is mapped by some address space.
NoFrameLeak ==
  \A f \in Frames \ free : \E p \in Procs, v \in VPages :
    pt[p][v].present /\ pt[p][v].ppn = f

\* No use after free: a frame mapped by a process not yet torn down is never
\* on the allocator's free list (~ArchMemory must not free a shared frame).
MappedFramesAllocated ==
  \A p \in Procs, v \in VPages : pt[p][v].present => pt[p][v].ppn \notin free

\* A write fault on a page the process legitimately maps never kills the
\* process (checkPageFaultIsValid) nor fails a COW assertion.
LegitimateFaultsSurvive ==
  /\ ~panic
  /\ \A p \in Procs : procState[p] # "killed"

\* Every page fault and every fork a thread enters in the kernel completes:
\* the thread returns to user mode (or the kernel has halted).
FaultCompletes ==
  \A t \in Threads : InKernel(t) ~> (pc[t] = "idle" \/ panic)

=============================================================================
