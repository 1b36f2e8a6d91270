------------------------------ MODULE PipeFifo ------------------------------
(***************************************************************************)
(* What a pipe promises its users: a bounded first-in first-out channel.   *)
(* A write appends a character when there is room; a read takes the       *)
(* oldest character.  out records every character handed to a reader, in  *)
(* the order they were handed out.                                         *)
(***************************************************************************)
EXTENDS Naturals, Sequences

CONSTANTS
  Capacity,  \* characters the channel holds
  Chars      \* the characters a writer may send

VARIABLES
  q,    \* the characters written and not yet read, oldest first
  out   \* the characters read so far, in order

Init ==
  /\ q = <<>>
  /\ out = <<>>

Put(c) ==
  /\ Len(q) < Capacity
  /\ q' = Append(q, c)
  /\ UNCHANGED out

Get ==
  /\ q # <<>>
  /\ out' = Append(out, Head(q))
  /\ q' = Tail(q)

Next == (\E c \in Chars : Put(c)) \/ Get

Spec == Init /\ [][Next]_<<q, out>>

=============================================================================
