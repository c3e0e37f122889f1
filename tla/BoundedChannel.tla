--------------------------- MODULE BoundedChannel ---------------------------
(***************************************************************************)
(* What BoundedBlockingQueue promises its users: a channel that holds at   *)
(* most Capacity items, hands each of them over once and in the order they *)
(* came, and once closed takes no more.  Who waits for whom is not part of *)
(* the promise.                                                            *)
(***************************************************************************)
EXTENDS Naturals, Sequences

CONSTANTS Items, Capacity

VARIABLES
  given,    \* the items accepted, in order
  taken,    \* the items handed over, in order
  open      \* the channel still accepts items

vars == <<given, taken, open>>

Init == given = <<>> /\ taken = <<>> /\ open = TRUE

Put ==
  /\ open
  /\ Len(given) - Len(taken) < Capacity
  /\ \E x \in Items : given' = Append(given, x)
  /\ UNCHANGED <<taken, open>>

Take ==
  /\ Len(taken) < Len(given)
  /\ taken' = Append(taken, given[Len(taken) + 1])
  /\ UNCHANGED <<given, open>>

Shut == open' = FALSE /\ UNCHANGED <<given, taken>>

Next == Put \/ Take \/ Shut

Spec == Init /\ [][Next]_vars
=============================================================================
