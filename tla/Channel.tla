------------------------------ MODULE Channel ------------------------------
(***************************************************************************)
(* What the buffer of producer_consumer/ promises: the consumer reads the  *)
(* numbers the producer made, in order, none twice and none missing, and   *)
(* at most N of them are on the way.                                       *)
(***************************************************************************)
EXTENDS Naturals, Sequences

CONSTANTS N, CountRange

VARIABLES
  items,  \* the numbers on the way
  next,   \* the number the producer makes next
  got     \* the number the consumer read last

vars == <<items, next, got>>

Init == items = <<>> /\ next = 0 /\ got = 0

Put ==
  /\ Len(items) < N
  /\ items' = Append(items, next)
  /\ next' = (next + 1) % CountRange
  /\ UNCHANGED got

Take ==
  /\ items # <<>>
  /\ items' = Tail(items)
  /\ got' = Head(items)
  /\ UNCHANGED next

Next == Put \/ Take

Spec == Init /\ [][Next]_vars

===========================================================================
