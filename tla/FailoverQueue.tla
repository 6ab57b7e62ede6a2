--------------------------- MODULE FailoverQueue ---------------------------
(***************************************************************************)
(* The order of the router's failover queue (src/providers/rotation.ts) as *)
(* a relation: <<x, y>> \in before says that x stands in front of y.  Every*)
(* reordering the code makes is a loop of demote() over a snapshot of the  *)
(* queue, and such a loop moves a set of items behind all the others and   *)
(* keeps the relative order on both sides; MoveToTail is that loop.        *)
(* RotationQueue.tla has the loop itself, on sequences, and is checked to  *)
(* implement the relation.                                                 *)
(***************************************************************************)
EXTENDS Naturals

\* The relation of a queue given as a sequence (the env-declared order).
OrderOf(queue) ==
  LET earlier == { p \in (DOMAIN queue) \X (DOMAIN queue) : p[1] < p[2] }
  IN  { <<queue[p[1]], queue[p[2]]>> : p \in earlier }

\* A relation that arranges the whole of S in one line, each item once.
IsQueueOf(before, S) ==
  /\ before \subseteq S \X S
  /\ \A x \in S : <<x, x>> \notin before
  /\ \A x, y \in S : x # y => <<x, y>> \in before \/ <<y, x>> \in before
  /\ \A x, y, z \in S : <<x, y>> \in before /\ <<y, z>> \in before => <<x, z>> \in before

\* demote() of every item of S, in queue order.
MoveToTail(before, S, Items) ==
  { p \in Items \X Items :
      \/ p[1] \notin S /\ p[2] \in S
      \/ (p[1] \in S <=> p[2] \in S) /\ p \in before }

\* The part of the queue that holds the items of S, as a walk copies it.
Within(before, S) == { p \in before : p[1] \in S /\ p[2] \in S }

\* The item of S that stands in front of the others: one item, or none when S
\* is empty.
Foremost(before, S) == { x \in S : \A y \in S \ {x} : <<x, y>> \in before }
=============================================================================
