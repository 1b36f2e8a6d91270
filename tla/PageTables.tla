----------------------------- MODULE PageTables -----------------------------
(***************************************************************************)
(* One process's four-level page-table hierarchy (ArchMemory): the tables *)
(* themselves, as frames holding Fanout entries each, and the steps of    *)
(* mapPage and unmapPage as the threads of the process execute them.      *)
(*                                                                         *)
(* mapPage resolves the chain once, without a lock, then inserts every    *)
(* missing table and finally the leaf, each insertion under the lock of   *)
(* its level only (pml4_lock_, pdpt_lock_, pd_lock_, pt_lock_).  unmapPage *)
(* resolves, clears the leaf, frees the frame, then walks upward removing *)
(* and freeing every table it left empty, again one level lock at a time. *)
(* A step of this module is one critical section of one level; between    *)
(* two steps of a thread any other thread may run.                        *)
(*                                                                         *)
(* Levels are numbered as the code's tables: 4 PML4, 3 PDPT, 2 PD, 1 PT.  *)
(* The upper half of the PML4 is the kernel's and always present.         *)
(***************************************************************************)
EXTENDS Naturals, FiniteSets, FiniteSetsExt, Functions

CONSTANTS
  Fanout,     \* entries per table (PAGE_TABLE_ENTRIES etc., 512 in the code)
  Threads,    \* threads of the process that call mapPage / unmapPage
  NumFrames   \* physical frames of the allocator

ASSUME Fanout \in {2, 4} /\ NumFrames \in Nat

Frames  == 1..NumFrames
NoFrame == 0
Levels  == 1..4
Indices == 0..(Fanout - 1)
\* user virtual pages: the lower half of the PML4 (pml4i < Fanout / 2)
Pages   == 0..(Fanout^3 * (Fanout \div 2) - 1)

\* resolveMapping: the table index of page v at level l (pti, pdi, pdpti, pml4i).
Idx(v, l) == (v \div Fanout^(l - 1)) % Fanout

Entry      == [present : BOOLEAN, ppn : Frames \cup {NoFrame}]
Absent     == [present |-> FALSE, ppn |-> NoFrame]
EmptyTable == [i \in Indices |-> Absent]

\* ArchMemory(): the root is allocated first, its upper half copied from the
\* kernel's PML4 (present, pointing at kernel tables outside the allocator)
\* and its lower half cleared.
Root      == 1
RootTable == [i \in Indices |-> IF i >= Fanout \div 2
                                THEN [present |-> TRUE, ppn |-> NoFrame]
                                ELSE Absent]

VARIABLES
  mem,    \* mem[f][i]: entry i of the table held in frame f
  free,   \* frames the allocator has not handed out (PageManager)
  pc,     \* control point of each thread
  loc,    \* locals of the mapPage / unmapPage activation of each thread
  panic   \* a kernel assertion failed: the kernel halts

tableVars == <<mem, free, pc, loc, panic>>

\* The resolved mapping m (ArchMemoryMapping) as a function of the level:
\* m[l] is the frame that page v's entry at level l points to (pdpt_ppn,
\* pd_ppn, pt_ppn, page_ppn), NoFrame from the first absent entry down.
RECURSIVE Walk(_, _, _)
Walk(f, l, v) ==
  LET e == mem[f][Idx(v, l)] IN
  [k \in 1..l |-> IF ~e.present THEN NoFrame
                  ELSE IF k = l THEN e.ppn
                  ELSE Walk(e.ppn, l - 1, v)[k]]

resolveMapping(v) == Walk(Root, 4, v)

\* The table at level l of a resolved mapping (m.pml4, m.pdpt, m.pd, m.pt).
TableOf(m, l) == IF l = 4 THEN Root ELSE m[l + 1]

\* PageManager::allocPPN hands out the lowest free frame.
AllocPPN == Min(free)

NoLoc == [v |-> 0, data |-> NoFrame, m |-> [l \in Levels |-> NoFrame],
          lvl |-> 0, empty |-> FALSE, ok |-> FALSE, ret |-> "idle"]

\* Return from mapPage / unmapPage to the caller's continuation: the
\* function's own locals end; the page, the frame and the result remain.
Return(t, ok) ==
  /\ pc' = [pc EXCEPT ![t] = loc[t].ret]
  /\ loc' = [loc EXCEPT ![t] = [NoLoc EXCEPT !.v = loc[t].v, !.data = loc[t].data,
                                             !.ok = ok, !.ret = loc[t].ret]]

-----------------------------------------------------------------------------
(* mapPage(virtual_page, physical_page): ArchMemory.cpp:110-151.          *)

\* insert(map, index, ppn, bzero, ...): with bzero the new table's frame is
\* zero-filled first (and the caller asserts the entry was empty); the
\* entry is then written present, pointing at ppn.
insert(table, i, ppn, bzero) ==
  LET cleared == IF bzero THEN [mem EXCEPT ![ppn] = EmptyTable] ELSE mem IN
  [cleared EXCEPT ![table][i] = [present |-> TRUE, ppn |-> ppn]]

\* Entry: resolve the chain once; the caller continues at ret afterwards.
CallMapPage(t, v, data, ret) ==
  /\ pc' = [pc EXCEPT ![t] = "map_table"]
  /\ loc' = [loc EXCEPT ![t] = [@ EXCEPT !.v = v, !.data = data, !.m = resolveMapping(v),
                                          !.lvl = 4, !.ret = ret]]

\* One missing intermediate table (levels 4, 3, 2 in turn): a frame is
\* allocated, then under the level's lock insert() zero-fills it, asserts
\* that the parent entry is still empty, and writes the parent entry.
mapTable(t) ==
  LET l == loc[t].lvl  v == loc[t].v  m == loc[t].m
      parent == TableOf(m, l)  n == AllocPPN
      next == IF l = 2 THEN "map_leaf" ELSE "map_table"
  IN
  /\ ~panic
  /\ pc[t] = "map_table"
  /\ \/ /\ m[l] # NoFrame
        /\ pc' = [pc EXCEPT ![t] = next]
        /\ loc' = [loc EXCEPT ![t].lvl = l - 1]
        /\ UNCHANGED <<mem, free, panic>>
     \/ /\ m[l] = NoFrame
        /\ free' = free \ {n}
        /\ \/ /\ mem[parent][Idx(v, l)] = Absent
              /\ mem' = insert(parent, Idx(v, l), n, TRUE)
              /\ pc' = [pc EXCEPT ![t] = next]
              /\ loc' = [loc EXCEPT ![t].m[l] = n, ![t].lvl = l - 1]
              /\ UNCHANGED panic
           \/ /\ mem[parent][Idx(v, l)] # Absent
              /\ mem' = [mem EXCEPT ![n] = EmptyTable]
              /\ panic' = TRUE
              /\ UNCHANGED <<pc, loc>>

\* Faulty variant: the leaf is written without the check of the resolved
\* leaf, so a mapped page is overwritten.
mapLeaf_noCheck(t) ==
  LET v == loc[t].v  m == loc[t].m IN
  /\ ~panic
  /\ pc[t] = "map_leaf"
  /\ mem' = insert(m[2], Idx(v, 1), loc[t].data, FALSE)
  /\ Return(t, TRUE)
  /\ UNCHANGED <<free, panic>>

\* The leaf, under pt_lock_: inserted only if the page was unmapped when the
\* chain was resolved; otherwise mapPage returns false.
mapLeaf(t) ==
  LET v == loc[t].v  m == loc[t].m IN
  /\ ~panic
  /\ pc[t] = "map_leaf"
  /\ \/ /\ m[1] = NoFrame
        /\ mem' = insert(m[2], Idx(v, 1), loc[t].data, FALSE)
        /\ Return(t, TRUE)
     \/ /\ m[1] # NoFrame
        /\ Return(t, FALSE)
        /\ UNCHANGED mem
  /\ UNCHANGED <<free, panic>>

-----------------------------------------------------------------------------
(* unmapPage(virtual_page): ArchMemory.cpp:42-88.                         *)

\* Entry: resolve the chain and assert the page is mapped (line 46); the
\* callers of the model only unmap a page they see mapped.
CallUnmapPage(t, v, ret) ==
  /\ resolveMapping(v)[1] # NoFrame
  /\ pc' = [pc EXCEPT ![t] = "unmap_leaf"]
  /\ loc' = [loc EXCEPT ![t] = [@ EXCEPT !.v = v, !.m = resolveMapping(v), !.ret = ret]]

\* Faulty variant: the data frame is never handed back to the allocator.
unmapLeaf_noFree(t) ==
  LET v == loc[t].v  m == loc[t].m IN
  /\ ~panic
  /\ pc[t] = "unmap_leaf"
  /\ mem' = [mem EXCEPT ![m[2]][Idx(v, 1)].present = FALSE]
  /\ pc' = [pc EXCEPT ![t] = "unmap_check"]
  /\ UNCHANGED <<free, loc, panic>>

\* Under pt_lock_ the present bit is cleared; the data frame is freed after
\* the lock is released.
unmapLeaf(t) ==
  LET v == loc[t].v  m == loc[t].m IN
  /\ ~panic
  /\ pc[t] = "unmap_leaf"
  /\ mem' = [mem EXCEPT ![m[2]][Idx(v, 1)].present = FALSE]
  /\ free' = free \cup {m[1]}
  /\ pc' = [pc EXCEPT ![t] = "unmap_check"]
  /\ UNCHANGED <<loc, panic>>

\* checkAndRemove(table, index): the entry is zeroed and the table is
\* reported empty when none of its entries is present.
checkAndRemove(table, i) ==
  LET after == [mem EXCEPT ![table][i] = Absent] IN
  <<after, \A j \in Indices : ~after[table][j].present>>

\* pt_lock_ again: the leaf entry is zeroed and the PT checked for emptiness.
unmapCheck(t) ==
  LET r == checkAndRemove(loc[t].m[2], Idx(loc[t].v, 1)) IN
  /\ ~panic
  /\ pc[t] = "unmap_check"
  /\ mem' = r[1]
  /\ loc' = [loc EXCEPT ![t].empty = r[2], ![t].lvl = 2]
  /\ pc' = [pc EXCEPT ![t] = "unmap_up"]
  /\ UNCHANGED <<free, panic>>

\* Faulty variant: only the PT is reclaimed; the cascade stops below the PD.
unmapUp_noCascade(t) ==
  LET l == loc[t].lvl  v == loc[t].v  m == loc[t].m
      r == checkAndRemove(TableOf(m, l), Idx(v, l))
  IN
  /\ ~panic
  /\ pc[t] = "unmap_up"
  /\ \/ /\ loc[t].empty /\ l <= 2
        /\ mem' = r[1]
        /\ free' = free \cup {m[l]}
        /\ loc' = [loc EXCEPT ![t].empty = r[2], ![t].lvl = l + 1]
        /\ UNCHANGED pc
     \/ /\ ~(loc[t].empty /\ l <= 2)
        /\ Return(t, loc[t].ok)
        /\ UNCHANGED <<mem, free>>
  /\ UNCHANGED panic

\* While the table below was left empty: under the lock of level l the
\* entry pointing at it is removed, then that table's frame is freed.
unmapUp(t) ==
  LET l == loc[t].lvl  v == loc[t].v  m == loc[t].m
      r == checkAndRemove(TableOf(m, l), Idx(v, l))
  IN
  /\ ~panic
  /\ pc[t] = "unmap_up"
  /\ \/ /\ loc[t].empty /\ l <= 4
        /\ mem' = r[1]
        /\ free' = free \cup {m[l]}
        /\ loc' = [loc EXCEPT ![t].empty = r[2], ![t].lvl = l + 1]
        /\ UNCHANGED pc
     \/ /\ ~(loc[t].empty /\ l <= 4)
        /\ Return(t, loc[t].ok)
        /\ UNCHANGED <<mem, free>>
  /\ UNCHANGED panic

\* Every step inside mapPage or unmapPage.
TableStep(t) ==
  \/ mapTable(t) \/ mapLeaf(t)
  \/ unmapLeaf(t) \/ unmapCheck(t) \/ unmapUp(t)

TableStepLabels == {"map_table", "map_leaf", "unmap_leaf", "unmap_check", "unmap_up"}

-----------------------------------------------------------------------------
(* Views of the state used by the properties and the refinement.           *)

\* The tables reachable from the root through the user half.
LiveTables ==
  {Root} \cup ({resolveMapping(v)[l] : v \in Pages, l \in 2..4} \ {NoFrame})

\* The frames that the user pages resolve to.
LiveData == {resolveMapping(v)[1] : v \in Pages} \ {NoFrame}

\* The address space the tables implement, page by page.
asOfTables == [v \in Pages |-> resolveMapping(v)[1]]

\* Frames a thread holds outside the tables: the data frame of a mapPage
\* in progress, until it is inserted or handed back by the caller.
Held(t) == IF pc[t] \in {"map_table", "map_leaf", "map_ret"} THEN {loc[t].data} ELSE {}

\* ArchMemory(): only the root table exists.
TablesInit ==
  /\ mem = [f \in Frames |-> IF f = Root THEN RootTable ELSE EmptyTable]
  /\ free = Frames \ {Root}
  /\ panic = FALSE

-----------------------------------------------------------------------------
(* A caller of the address space, on its own: every thread repeatedly      *)
(* maps a page the way the kernel's callers do (allocate a frame, mapPage, *)
(* free the frame if mapPage failed) or unmaps a page it knows is mapped.  *)
(* unmapPage has no caller in the repository; this harness is where its   *)
(* steps are exercised.                                                     *)

\* Frames a caller wants free before it starts: its data frame and up to
\* three tables.  Running out of frames is outside the allocator's contract.
Reserve == 4

\* The pages the harness maps and unmaps and the refinement observes: pages
\* that share a PT, a PD and a PDPT pairwise reach every cascade depth.
CONSTANT CheckedPages

CallerMap(t, v) ==
  /\ ~panic
  /\ pc[t] = "idle"
  /\ Cardinality(free) >= Reserve
  /\ free' = free \ {AllocPPN}
  /\ CallMapPage(t, v, AllocPPN, "map_ret")
  /\ UNCHANGED <<mem, panic>>

callerMapReturn(t) ==
  /\ pc[t] = "map_ret"
  /\ free' = IF loc[t].ok THEN free ELSE free \cup {loc[t].data}
  /\ pc' = [pc EXCEPT ![t] = "idle"]
  /\ loc' = [loc EXCEPT ![t] = [NoLoc EXCEPT !.ok = loc[t].ok]]
  /\ UNCHANGED <<mem, panic>>

CallerUnmap(t, v) ==
  /\ ~panic
  /\ pc[t] = "idle"
  /\ CallUnmapPage(t, v, "idle")
  /\ UNCHANGED <<mem, free, panic>>

\* A failed kernel assertion (panic) stops every thread: with more than one
\* thread the checker reports it as a deadlock, which is what it is.
Init ==
  /\ TablesInit
  /\ pc = [t \in Threads |-> "idle"]
  /\ loc = [t \in Threads |-> NoLoc]

Next ==
  \/ \E t \in Threads :
       \/ TableStep(t)
       \/ callerMapReturn(t)
       \/ \E v \in CheckedPages : CallerMap(t, v) \/ CallerUnmap(t, v)

Spec == Init /\ [][Next]_tableVars

-----------------------------------------------------------------------------
(* Properties.                                                              *)

\* The tables implement the abstract address space (spec 4.1, 8): resolving
\* each page through the four levels gives a partial function that only
\* ever changes as AddressSpace allows.  mapPage succeeds exactly on an
\* unmapped page, and the linearisation point is the leaf insertion.
AS == INSTANCE AddressSpace WITH
        Pages <- CheckedPages, Frames <- Frames, Callers <- Threads,
        as <- [v \in CheckedPages |-> asOfTables[v]], mapped <- [t \in Threads |-> loc[t].ok]

AddressSpaceRefined == AS!Spec

\* unmapPage's cascade (ArchMemory.cpp:60-87) reclaims every table it
\* empties: when no thread is inside mapPage or unmapPage, every table below
\* the root that is still linked in maps at least one entry.
TablesReclaimed ==
  (\A t \in Threads : pc[t] \notin TableStepLabels) =>
    \A f \in LiveTables \ {Root} : \E i \in Indices : mem[f][i].present

\* Every allocated frame is a live table, a mapped page, or a frame a caller
\* still holds: no frame leaks through mapPage, unmapPage or the cascade.
NoFrameLeak ==
  ~panic =>
    Frames \ free \subseteq LiveTables \cup LiveData \cup UNION {Held(t) : t \in Threads}

=============================================================================
