----------------------------- MODULE DemoteLoop -----------------------------
(***************************************************************************)
(* The loop of propagateProviderAxis() and demoteModelAxis()               *)
(* (src/providers/failure-axes.ts): it goes through a copy of the queue,   *)
(* in the order the queue had, and calls demote() for every match, which   *)
(* moves the items of the queue itself about.  The chain and the key pool  *)
(* take such a loop for one step, MoveToTail; here it is turn by turn.     *)
(***************************************************************************)
EXTENDS RotationQueue

CONSTANT Item

VARIABLES
  copy,    \* queue.snapshot()
  marked,  \* the items that match
  turn,    \* how many of the copy the loop is through with
  line     \* the queue

\* A queue of the program: a sequence that holds each of its items once.
Lined(q, Items) ==
  /\ q \in Seq(Items)
  /\ \A i, j \in 1..Len(q) : q[i] = q[j] => i = j
  /\ \A x \in Items : \E i \in 1..Len(q) : q[i] = x

LoopInit == Lined(copy, Item) /\ line = copy /\ marked \in SUBSET Item /\ turn = 0

NextItem ==
  /\ turn < Len(copy) /\ turn' = turn + 1
  /\ line' = IF copy[turn + 1] \in marked THEN Demote(line, copy[turn + 1]) ELSE line
  /\ UNCHANGED <<copy, marked>>

LoopSpec == LoopInit /\ [][NextItem]_<<copy, marked, turn, line>>

\* When the loop is over, the matches stand behind all the others, and on both
\* sides the order is the one the queue had before (failure-axes.ts
\* propagateProviderAxis(), demoteModelAxis()).
LoopIsOneMove ==
  turn = Len(copy) => OrderOf(line) = MoveToTail(OrderOf(copy), marked, Item)
=============================================================================
