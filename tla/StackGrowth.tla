---------------------------- MODULE StackGrowth ----------------------------
(***************************************************************************)
(* The user stacks of one process and the faults that grow them, on top  *)
(* of the process's page tables (PageTables).  Threads are created by the *)
(* UserThread constructor, which places the stack with ASLRStackManager   *)
(* and maps its first page; a thread of a fork child is made by the copy  *)
(* constructor instead, which copies the stack start but never sets       *)
(* stack_pages_.  A fault on an unmapped page is dispatched by            *)
(* handlePageFault: addrIsWithinAnyUserStack finds the thread whose stack *)
(* range holds the address and increaseUserStackSize maps the next page   *)
(* below that stack's committed pages; any other address goes to the      *)
(* Loader.  Every mapPage runs the steps of PageTables, so two faulting   *)
(* threads interleave inside the tables.                                  *)
(*                                                                         *)
(* Pages stand for addresses: an access is a page and an offset in it, 0  *)
(* for the page's first byte and 1 for any other, which is all the stack  *)
(* range tests distinguish.                                                *)
(***************************************************************************)
EXTENDS PageTables

CONSTANTS
  StackMaxPages,     \* STACK_MAX_PAGES; STACK_MAX_SIZE is that many pages
  StackSpaceEnd,     \* first page of the stack space (STACK_SPACE_END)
  ImagePages,        \* pages the Loader can load from the executable
  Offsets,           \* offsets of the accesses the program makes, within {0, 1}
  Origins,           \* how the process came to be: "exec" and/or "fork"
  ParentStackPages,  \* fork child: how many stack pages the parent's thread had
  Garbage            \* fork child: values the uninitialised stack_pages_ may hold

ASSUME /\ StackMaxPages \in Nat \ {0}
       /\ Offsets \subseteq {0, 1} /\ Origins \subseteq {"exec", "fork"}
       /\ ParentStackPages \subseteq 1..StackMaxPages
       /\ Garbage \subseteq 0..65535

UInt16     == 65536
NoThread   == 0
\* the kernel thread running the UserProcess constructor
ProcCtor   == Max(Threads) + 1
MainThread == Min(Threads)
\* page-aligned starts ASLRStackManager can draw: at least STACK_MAX_SIZE
\* above STACK_SPACE_END, and the start address inside the user pages
Starts     == (StackSpaceEnd + StackMaxPages)..Max(Pages)
\* the pages reserved for a stack that starts at page s
Reserved(s) == (s - StackMaxPages)..(s - 1)
NoExit     == [t |-> NoThread, v |-> 0]

VARIABLES
  stackStart,  \* stack_start_addr_ of each thread, as a page; 0 before the ctor
  stackPages,  \* stack_pages_ (uint16) of each thread
  threadList,  \* thread_list_: the threads of the process
  tlLock,      \* holder of thread_list_lock_, NoThread when free
  fault,       \* the fault each thread is handling: page, offset, stack owner, pages
  forkLeft,    \* fork child: parent stack pages not yet copied into the child
  exitedAt     \* the fault whose handler called Syscall::exit, NoExit if none

sgVars == <<stackStart, stackPages, threadList, tlLock, fault, forkLeft, exitedAt>>
vars == <<tableVars, sgVars>>

NoFault == [v |-> 0, off |-> 0, owner |-> NoThread, pages |-> 0]

Stopped == panic \/ exitedAt # NoExit

\* Syscall::exit from the handler of thread t's fault: the process ends.
Exit(t) == exitedAt' = [t |-> t, v |-> fault[t].v]

IsMapped(v) == resolveMapping(v)[1] # NoFrame

-----------------------------------------------------------------------------
(* UserProcess helpers (UserProcess.cpp).                                  *)

\* ASLRStackManager's conflict test against a registered stack, in pages
\* (PAGE_SIZE is one page): all four comparisons must hold to reject.
Conflicts(ns, u) ==
  LET s == stackStart[u]  e == s - StackMaxPages  ne == ns - StackMaxPages IN
  /\ ns < s + 1 /\ ns > e - 1
  /\ ne < s + 1 /\ ne > e - 1

\* addrIsWithinAnyUserStack's range test: start - STACK_MAX_SIZE < address <= start.
InStack(s, v, off) ==
  /\ v < s \/ (v = s /\ off = 0)
  /\ v > s - StackMaxPages \/ (v = s - StackMaxPages /\ off # 0)

\* addrIsWithinAnyUserStack: the first thread of thread_list_ (ordered by
\* tid) whose stack range holds the address, NoThread outside the stack space.
addrIsWithinAnyUserStack(v, off) ==
  LET c == {u \in threadList : InStack(stackStart[u], v, off)} IN
  IF v < StackSpaceEnd \/ c = {} THEN NoThread ELSE Min(c)

-----------------------------------------------------------------------------
(* Thread creation.                                                        *)

\* pthread_create (createThread): thread c takes thread_list_lock_ and runs
\* internalAddNewThread, whose UserThread constructor runs for the next tid.
createThread(c) ==
  LET u == Min({x \in Threads : pc[x] = "unborn"}) IN
  /\ pc[c] = "user"
  /\ \E x \in Threads : pc[x] = "unborn"
  /\ tlLock = NoThread
  /\ tlLock' = c
  /\ pc' = [pc EXCEPT ![c] = "creating", ![u] = "ctor"]
  /\ UNCHANGED <<mem, free, loc, panic, stackStart, stackPages, threadList,
                 fault, forkLeft, exitedAt>>

\* ASLRStackManager: under user_stack_list_lock_, draw page-aligned starts
\* until one lies STACK_MAX_SIZE above STACK_SPACE_END and conflicts with
\* no registered stack, then register it in user_stack_list_.
ASLRStackManager(u, ns) ==
  /\ ns \in Starts
  /\ \A w \in Threads : stackStart[w] # 0 => ~Conflicts(ns, w)
  /\ stackStart' = [stackStart EXCEPT ![u] = ns]

\* UserThread constructor: ASLRStackManager places the stack;
\* stack_pages_ = 1; the page below the start is allocated and mapped.
ctorStart(u) ==
  /\ pc[u] = "ctor"
  /\ Cardinality(free) >= Reserve
  /\ \E ns \in Starts :
       /\ ASLRStackManager(u, ns)
       /\ free' = free \ {AllocPPN}
       /\ CallMapPage(u, ns - 1, AllocPPN, "ctor_done")
  /\ stackPages' = [stackPages EXCEPT ![u] = 1]
  /\ UNCHANGED <<mem, panic, threadList, tlLock, fault, forkLeft, exitedAt>>

\* Faulty variant: the creator keeps thread_list_lock_.
ctorDone_keepLock(u) ==
  /\ pc[u] = "ctor_done"
  /\ \/ /\ loc[u].ok
        /\ threadList' = threadList \cup {u}
        /\ pc' = [x \in Threads |-> IF x \in {u, tlLock} THEN "user" ELSE pc[x]]
        /\ UNCHANGED panic
     \/ /\ ~loc[u].ok
        /\ panic' = TRUE
        /\ UNCHANGED <<pc, threadList>>
  /\ UNCHANGED <<mem, free, loc, stackStart, stackPages, tlLock, fault, forkLeft, exitedAt>>

\* The constructor asserts the first page was mapped; internalAddNewThread
\* inserts the thread into thread_list_; the creator releases the lock.
ctorDone(u) ==
  /\ pc[u] = "ctor_done"
  /\ \/ /\ loc[u].ok
        /\ threadList' = threadList \cup {u}
        /\ tlLock' = NoThread
        /\ pc' = [x \in Threads |-> IF x \in {u, tlLock} THEN "user" ELSE pc[x]]
        /\ UNCHANGED panic
     \/ /\ ~loc[u].ok
        /\ panic' = TRUE
        /\ UNCHANGED <<pc, threadList, tlLock>>
  /\ UNCHANGED <<mem, free, loc, stackStart, stackPages, fault, forkLeft, exitedAt>>

\* Fork child: the UserProcess copy constructor copies each present page of
\* the parent's address space into the child's tables (the parent's stack
\* pages here; the frame stands for the parent's shared frame).
forkCopy(t) ==
  /\ pc[t] = "fork_copy"
  /\ forkLeft # {}
  /\ Cardinality(free) >= Reserve
  /\ free' = free \ {AllocPPN}
  /\ CallMapPage(t, Max(forkLeft), AllocPPN, "fork_copy")
  /\ forkLeft' = forkLeft \ {Max(forkLeft)}
  /\ UNCHANGED <<mem, panic, stackStart, stackPages, threadList, tlLock, fault, exitedAt>>

\* Then addNewThread(on_fork) runs the UserThread copy constructor: it
\* copies the parent thread's stack start, registers it, and leaves
\* stack_pages_ as the allocation found it.
forkThread(t) ==
  /\ pc[t] = "fork_copy"
  /\ forkLeft = {}
  /\ threadList' = threadList \cup {t}
  /\ tlLock' = NoThread
  /\ pc' = [pc EXCEPT ![t] = "user"]
  /\ UNCHANGED <<mem, free, loc, panic, stackStart, stackPages, fault, forkLeft, exitedAt>>

-----------------------------------------------------------------------------
(* Faults (PageFaultHandler.cpp).                                          *)

\* The pages thread t's program touches: its own stack and the image.
Accessible(t) == Reserved(stackStart[t]) \cup ImagePages

\* A user-mode access to an unmapped page traps; the flags are captured.
access(t, v, off) ==
  /\ pc[t] = "user"
  /\ t \in threadList
  /\ ~IsMapped(v)
  /\ fault' = [fault EXCEPT ![t] = [NoFault EXCEPT !.v = v, !.off = off]]
  /\ pc' = [pc EXCEPT ![t] = "pf"]
  /\ UNCHANGED <<mem, free, loc, panic, stackStart, stackPages, threadList,
                 tlLock, forkLeft, exitedAt>>

\* handlePageFault: the captured present flag is clear, so the fault is
\* valid and the page is not COW-shared; addrIsWithinAnyUserStack scans
\* thread_list_ under thread_list_lock_ and decides stack growth or Loader.
handlePageFault(t) ==
  LET owner == addrIsWithinAnyUserStack(fault[t].v, fault[t].off) IN
  /\ pc[t] = "pf"
  /\ tlLock = NoThread
  /\ fault' = [fault EXCEPT ![t].owner = owner]
  /\ pc' = [pc EXCEPT ![t] = IF owner # NoThread THEN "grow" ELSE "load"]
  /\ UNCHANGED <<mem, free, loc, panic, stackStart, stackPages, threadList,
                 tlLock, forkLeft, exitedAt>>

\* Faulty variant: setStackPages before the page is mapped.
increaseUserStackSize_setEarly(t) ==
  LET u == fault[t].owner
      pages == (stackPages[u] + 1) % UInt16
  IN
  /\ pc[t] = "grow"
  /\ \/ /\ pages > StackMaxPages
        /\ Exit(t)
        /\ UNCHANGED <<free, pc, loc, fault, stackPages>>
     \/ /\ pages <= StackMaxPages
        /\ Cardinality(free) >= Reserve
        /\ free' = free \ {AllocPPN}
        /\ CallMapPage(t, stackStart[u] - pages, AllocPPN, "grow_done")
        /\ fault' = [fault EXCEPT ![t].pages = pages]
        /\ stackPages' = [stackPages EXCEPT ![u] = pages]
        /\ UNCHANGED exitedAt
  /\ UNCHANGED <<mem, panic, stackStart, threadList, tlLock, forkLeft>>

\* increaseUserStackSize(owner): one more page (uint16 arithmetic); past
\* STACK_MAX_PAGES the process exits, else the page below the committed
\* ones is allocated and mapped.
increaseUserStackSize(t) ==
  LET u == fault[t].owner
      pages == (stackPages[u] + 1) % UInt16
  IN
  /\ pc[t] = "grow"
  /\ \/ /\ pages > StackMaxPages
        /\ Exit(t)
        /\ UNCHANGED <<free, pc, loc, fault>>
     \/ /\ pages <= StackMaxPages
        /\ Cardinality(free) >= Reserve
        /\ free' = free \ {AllocPPN}
        /\ CallMapPage(t, stackStart[u] - pages, AllocPPN, "grow_done")
        /\ fault' = [fault EXCEPT ![t].pages = pages]
        /\ UNCHANGED exitedAt
  /\ UNCHANGED <<mem, panic, stackStart, stackPages, threadList, tlLock, forkLeft>>

\* Faulty variant: the frame is handed back whether or not it was mapped.
growDone_freeAlways(t) ==
  /\ pc[t] = "grow_done"
  /\ free' = free \cup {loc[t].data}
  /\ \/ /\ loc[t].ok
        /\ stackPages' = [stackPages EXCEPT ![fault[t].owner] = fault[t].pages]
        /\ pc' = [pc EXCEPT ![t] = "user"]
        /\ UNCHANGED exitedAt
     \/ /\ ~loc[t].ok
        /\ Exit(t)
        /\ UNCHANGED <<pc, stackPages>>
  /\ UNCHANGED <<mem, loc, panic, stackStart, threadList, tlLock, fault, forkLeft>>

\* After mapPage: setStackPages on success; else the frame is freed and the
\* process exits.
growDone(t) ==
  /\ pc[t] = "grow_done"
  /\ \/ /\ loc[t].ok
        /\ stackPages' = [stackPages EXCEPT ![fault[t].owner] = fault[t].pages]
        /\ pc' = [pc EXCEPT ![t] = "user"]
        /\ UNCHANGED <<free, exitedAt>>
     \/ /\ ~loc[t].ok
        /\ free' = free \cup {loc[t].data}
        /\ Exit(t)
        /\ UNCHANGED <<pc, stackPages>>
  /\ UNCHANGED <<mem, loc, panic, stackStart, threadList, tlLock, fault, forkLeft>>

\* Loader::loadPage: a page of the image gets a frame and is mapped (the
\* frame is handed back if another thread mapped the page first); for any
\* other address the Loader's own fatal path exits the process.
loadPage(t) ==
  /\ pc[t] = "load"
  /\ \/ /\ fault[t].v \in ImagePages
        /\ Cardinality(free) >= Reserve
        /\ free' = free \ {AllocPPN}
        /\ CallMapPage(t, fault[t].v, AllocPPN, "load_done")
        /\ UNCHANGED exitedAt
     \/ /\ fault[t].v \notin ImagePages
        /\ Exit(t)
        /\ UNCHANGED <<free, pc, loc>>
  /\ UNCHANGED <<mem, panic, stackStart, stackPages, threadList, tlLock, fault, forkLeft>>

loadDone(t) ==
  /\ pc[t] = "load_done"
  /\ free' = IF loc[t].ok THEN free ELSE free \cup {loc[t].data}
  /\ pc' = [pc EXCEPT ![t] = "user"]
  /\ UNCHANGED <<mem, loc, panic, stackStart, stackPages, threadList, tlLock,
                 fault, forkLeft, exitedAt>>

-----------------------------------------------------------------------------
(* The process: exec'd (its first thread made by the UserThread           *)
(* constructor inside the UserProcess constructor, which holds            *)
(* thread_list_lock_ through addNewThread) or a fork child (its tables    *)
(* first receive the parent's stack pages).                                *)

StackInit ==
  /\ TablesInit
  /\ loc = [t \in Threads |-> NoLoc]
  /\ threadList = {}
  /\ tlLock = ProcCtor
  /\ fault = [t \in Threads |-> NoFault]
  /\ exitedAt = NoExit
  /\ \E origin \in Origins :
     IF origin = "fork"
     THEN \E s \in Starts, k \in ParentStackPages, g \in Garbage :
            /\ stackStart = [t \in Threads |-> IF t = MainThread THEN s ELSE 0]
            /\ stackPages = [t \in Threads |-> IF t = MainThread THEN g ELSE 0]
            /\ forkLeft = (s - k)..(s - 1)
            /\ pc = [t \in Threads |-> IF t = MainThread THEN "fork_copy" ELSE "unborn"]
     ELSE /\ stackStart = [t \in Threads |-> 0]
          /\ stackPages = [t \in Threads |-> 0]
          /\ forkLeft = {}
          /\ pc = [t \in Threads |-> IF t = MainThread THEN "ctor" ELSE "unborn"]

\* Kernel steps of thread t, inside mapPage included.
KernelStep(t) ==
  \/ TableStep(t) /\ UNCHANGED sgVars
  \/ ctorStart(t) \/ ctorDone(t) \/ forkCopy(t) \/ forkThread(t)
  \/ increaseUserStackSize(t) \/ growDone(t) \/ loadPage(t) \/ loadDone(t)

\* What the program of thread t does in user mode.
UserStep(t) ==
  \/ createThread(t)
  \/ \E v \in Accessible(t), off \in Offsets : access(t, v, off)

\* The process ended or the kernel halted.
ProcessHalted == Stopped /\ UNCHANGED vars

\* Every thread runs its program in user mode and may stop touching memory.
Quiescent == (\A t \in Threads : pc[t] \in {"user", "unborn"}) /\ UNCHANGED vars

StackNext ==
  \/ ~Stopped /\ \E t \in Threads : KernelStep(t) \/ handlePageFault(t) \/ UserStep(t)
  \/ ProcessHalted
  \/ Quiescent

\* A thread in the kernel is scheduled (preemptive round robin).  The stack
\* lookup waits for thread_list_lock_, a Mutex that is free only between
\* other threads' critical sections, so it is strongly fair.
Fairness ==
  \A t \in Threads :
    /\ WF_vars(~Stopped /\ KernelStep(t))
    /\ SF_vars(~Stopped /\ handlePageFault(t))

StackSpec == StackInit /\ [][StackNext]_vars /\ Fairness

-----------------------------------------------------------------------------
(* Properties.                                                              *)

\* No frame the tables link in, as a table or as a page, is free: the fault
\* paths hand a frame back only when their own mapPage failed, however the
\* threads' mapPage steps interleave.
LiveFramesAllocated == (LiveTables \cup LiveData) \cap free = {}

\* stack_pages_ counts committed pages: for every thread of the process, the
\* pages from its start down by stack_pages_ are all mapped.  Stack growth
\* and the stack lookup rely on it to find the next page to map.
StackCommitted ==
  \A u \in threadList :
    \A v \in Pages : stackStart[u] - stackPages[u] <= v /\ v < stackStart[u] => IsMapped(v)

\* A fault on a page of the faulting thread's own stack (STACK_MAX_SIZE below
\* its start) is served: the handler never exits the process for it
\* (spec 4.3: only growth beyond the maximum terminates the process).
StackFaultsServed ==
  exitedAt # NoExit => exitedAt.v \notin Reserved(stackStart[exitedAt.t])

\* Every fault, thread creation and mapPage returns to user mode, unless the
\* process exits or the kernel halts.
FaultCompletes ==
  \A t \in Threads : pc[t] \notin {"user", "unborn"} ~> (pc[t] = "user" \/ Stopped)

=============================================================================
