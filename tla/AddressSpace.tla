---------------------------- MODULE AddressSpace ----------------------------
(***************************************************************************)
(* What an address space promises its callers (spec.md 4.1 and 8): a      *)
(* partial function from user virtual pages to physical frames.  mapPage  *)
(* of an unmapped page installs a frame no other page of the space maps;  *)
(* mapPage of a mapped page fails and changes nothing; unmapPage removes  *)
(* a mapping.  Nothing else ever changes what a page resolves to.         *)
(*                                                                         *)
(* PageTables implements this specification: its four-level tables,      *)
(* resolved page by page, are the function as.                            *)
(***************************************************************************)
EXTENDS Naturals, Functions

CONSTANTS
  Pages,    \* user virtual page numbers
  Frames,   \* physical frame numbers (0 is no frame)
  Callers   \* the threads that call mapPage

VARIABLES
  as,       \* as[v]: the frame page v resolves to, 0 when unmapped
  mapped    \* mapped[t]: result of the last mapPage of caller t

NoPage == 0

\* Every mapped page has a frame of its own.
Exclusive(f) == \A v, w \in DOMAIN f : f[v] = f[w] /\ f[v] # NoPage => v = w

Init ==
  /\ as \in [Pages -> Frames \cup {NoPage}]
  /\ Exclusive(as)
  /\ mapped \in [Callers -> BOOLEAN]

\* A successful mapPage of an unmapped page to a frame that is not in use.
Map(t, v) ==
  /\ as[v] = NoPage
  /\ as' = [as EXCEPT ![v] = as'[v]]
  /\ as'[v] \in Frames \ Range(as)
  /\ mapped' = [mapped EXCEPT ![t] = TRUE]

\* mapPage of a page already mapped: rejected, the mapping is kept.
MapRejected(t, v) ==
  /\ as[v] # NoPage
  /\ mapped' = [mapped EXCEPT ![t] = FALSE]
  /\ UNCHANGED as

Unmap(v) ==
  /\ as[v] # NoPage
  /\ as' = [as EXCEPT ![v] = NoPage]
  /\ UNCHANGED mapped

Next ==
  \/ \E t \in Callers, v \in Pages :
       \/ Map(t, v)
       \/ MapRejected(t, v)
  \/ \E v \in Pages : Unmap(v)

Spec == Init /\ [][Next]_<<as, mapped>>

=============================================================================
