--------------------------- MODULE RotationQueue ---------------------------
(***************************************************************************)
(* The methods of RotationQueue<T> (src/providers/rotation.ts) on the      *)
(* array `order` itself, a sequence without repetitions, and the loops of  *)
(* failure-axes.ts that call them for every match in a snapshot.           *)
(***************************************************************************)
EXTENDS FailoverQueue, SequencesExt

\* Fault: demote() swaps the item with the last one.
DemoteBySwap(order, item) ==
  [i \in DOMAIN order |->
     CASE i = Len(order) /\ item \in ToSet(order) -> item
       [] i < Len(order) /\ order[i] = item -> order[Len(order)]
       [] OTHER -> order[i]]

\* demote(): splice(pos, 1) closes the gap and push(item) fills the last place.
Demote(order, item) ==
  LET n == Len(order)
      pos == CHOOSE i \in 1..n : order[i] = item
  IN  IF \E i \in 1..n : order[i] = item
      THEN [i \in 1..n |-> IF i < pos THEN order[i] ELSE IF i < n THEN order[i + 1] ELSE item]
      ELSE order

\* `for (const e of queue.snapshot()) if (...) queue.demote(e)`
DemoteEach(order, S) ==
  FoldLeft(LAMBDA q, e : IF e \in S THEN Demote(q, e) ELSE q, order, order)

\* eligible(): the items whose cooldown is over, or all of them.
EligibleOf(order, until) ==
  LET live == { e \in ToSet(order) : until[e] = 0 } IN IF live = {} THEN ToSet(order) ELSE live

\* at(): the item at a position of the queue, wrapping around.
At(order, i) == order[(i % Len(order)) + 1]
=============================================================================
