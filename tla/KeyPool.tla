------------------------------ MODULE KeyPool ------------------------------
(***************************************************************************)
(* Two queues over the same keys.  The chain has one entry per key         *)
(* position ("slot") of the OpenRouter pool and demotes and parks slots    *)
(* (src/providers/chain.ts, failure-axes.ts); the pool maps a slot to the  *)
(* key that stands at that position of its own queue and demotes keys      *)
(* (src/providers/openrouter.ts).  Both queues are a RotationQueue.        *)
(*                                                                         *)
(* One model, no retries, no deadline: those parts of a walk are in        *)
(* ProviderChain.tla.                                                      *)
(***************************************************************************)
EXTENDS RotationQueue

CONSTANTS
  Request,   \* slots for concurrent walks
  KeyCount,  \* OPENROUTER_KEY1..N
  Cooldown,  \* RATE_LIMIT_COOLDOWN_MS, in ticks
  NoKey      \* no key, no slot

Key == 0..(KeyCount - 1)
Slot == Key
Numeric == [i \in 1..KeyCount |-> i - 1]

ASSUME PoolAssumption ==
  /\ KeyCount \in Nat \ {0}
  /\ Cooldown \in Nat
  /\ NoKey \notin Key

VARIABLES
  keyOrder,    \* the queue of raw key indices in the pool
  slotOrder,   \* the queue of entries in the chain
  until,       \* per slot, the ticks left of its cooldown
  walk,        \* per request, the progress of its call
  failedSince  \* history: per key, the keys that failed after its last failure

vars == <<keyOrder, slotOrder, until, walk, failedSince>>

\* A pass loops over todo in the order of the snapshot `ord`; rest is what the
\* first pass leaves out.
NoWalk == [pc |-> "idle", todo |-> {}, ord |-> {}, rest |-> {}, slot |-> NoKey, key |-> NoKey]

Init ==
  /\ keyOrder = Numeric
  /\ slotOrder = Numeric
  /\ until = [s \in Slot |-> 0]
  /\ walk = [r \in Request |-> NoWalk]
  /\ failedSince = [k \in Key |-> Key]

EnterPass(w, S) == [w EXCEPT !.pc = "pass", !.todo = S, !.ord = Within(OrderOf(slotOrder), S)]

\* Run to completion, as in ProviderChain: a walk in the loop goes on before
\* the next answer, request or timer.
Settled == \A r \in Request : walk[r].pc # "pass"

\* handle(): the first pass takes eligible().
Start(r) ==
  /\ Settled /\ walk[r].pc = "idle"
  /\ LET first == EligibleOf(slotOrder, until)
     IN  walk' = [walk EXCEPT ![r] = EnterPass([NoWalk EXCEPT !.rest = Slot \ first], first)]
  /\ UNCHANGED <<keyOrder, slotOrder, until, failedSince>>

\* attempt(): the key is looked up when the slot is dispatched.
Dispatch(r) ==
  LET w == walk[r]
  IN  /\ w.pc = "pass"
      /\ \E s \in Foremost(w.ord, w.todo) :
           LET left == w.todo \ {s}
           IN  walk' = [walk EXCEPT ![r] =
                         [w EXCEPT !.pc = "wait", !.slot = s, !.key = At(keyOrder, s),
                                   !.todo = left, !.ord = Within(@, left)]]
      /\ UNCHANGED <<keyOrder, slotOrder, until, failedSince>>

\* The upstream answered.
Serve(r) ==
  /\ Settled /\ walk[r].pc = "wait"
  /\ walk' = [walk EXCEPT ![r] = NoWalk]
  /\ UNCHANGED <<keyOrder, slotOrder, until, failedSince>>

NextSlot(w) == [w EXCEPT !.pc = "pass", !.slot = NoKey, !.key = NoKey]

\* Fault: the pool demotes the key that stands at the slot when the answer comes.
RefuseAtSlot(r, limited) ==
  LET w == walk[r]
      k == At(keyOrder, w.slot)
  IN  /\ Settled /\ w.pc = "wait"
      /\ keyOrder' = Demote(keyOrder, k)
      /\ slotOrder' = Demote(slotOrder, w.slot)
      /\ until' = IF limited THEN [until EXCEPT ![w.slot] = Cooldown] ELSE until
      /\ failedSince' = [x \in Key |-> IF x = w.key THEN {} ELSE failedSince[x] \cup {w.key}]
      /\ walk' = [walk EXCEPT ![r] = NextSlot(w)]

\* KEY_FAILURE: the pool demotes the key, then the chain demotes the slot and,
\* for a 429, parks it.
Refuse(r, limited) ==
  LET w == walk[r]
  IN  /\ Settled /\ w.pc = "wait"
      /\ keyOrder' = Demote(keyOrder, w.key)
      /\ slotOrder' = Demote(slotOrder, w.slot)
      /\ until' = IF limited THEN [until EXCEPT ![w.slot] = Cooldown] ELSE until
      /\ failedSince' = [x \in Key |-> IF x = w.key THEN {} ELSE failedSince[x] \cup {w.key}]
      /\ walk' = [walk EXCEPT ![r] = NextSlot(w)]

\* TRANSIENT: the chain demotes the slot; the pool keeps its order.
Flap(r) ==
  LET w == walk[r]
  IN  /\ Settled /\ w.pc = "wait"
      /\ slotOrder' = Demote(slotOrder, w.slot)
      /\ walk' = [walk EXCEPT ![r] = NextSlot(w)]
      /\ UNCHANGED <<keyOrder, until, failedSince>>

\* The loop ran out of slots: the second pass, or the end of the call.
PassEnds(r) ==
  LET w == walk[r]
  IN  /\ w.pc = "pass" /\ w.todo = {}
      /\ walk' = [walk EXCEPT ![r] = IF w.rest = {} THEN NoWalk
                                     ELSE EnterPass([w EXCEPT !.rest = {}], w.rest)]
      /\ UNCHANGED <<keyOrder, slotOrder, until, failedSince>>

Tick ==
  /\ Settled
  /\ until' = [s \in Slot |-> IF until[s] > 0 THEN until[s] - 1 ELSE 0]
  /\ UNCHANGED <<keyOrder, slotOrder, walk, failedSince>>

Next ==
  \/ \E r \in Request :
       \/ Start(r) \/ Dispatch(r) \/ Serve(r) \/ Flap(r) \/ PassEnds(r)
       \/ \E limited \in BOOLEAN : Refuse(r, limited)
  \/ Tick

Spec == Init /\ [][Next]_vars
-----------------------------------------------------------------------------
TypeOK ==
  /\ keyOrder \in [1..KeyCount -> Key] /\ ToSet(keyOrder) = Key
  /\ slotOrder \in [1..KeyCount -> Slot] /\ ToSet(slotOrder) = Slot
  /\ until \in [Slot -> 0..Cooldown]
  /\ \A r \in Request :
       /\ walk[r].pc \in {"idle", "pass", "wait"}
       /\ walk[r].todo \cup walk[r].rest \subseteq Slot
       /\ walk[r].key \in Key \cup {NoKey} /\ walk[r].slot \in Slot \cup {NoKey}
       /\ walk[r].pc = "wait" <=> walk[r].key \in Key
       /\ walk[r].pc = "wait" <=> walk[r].slot \in Slot

\* Both queues of the program implement the promise, loop and splice included
\* (rotation.ts demote()).
KeyLine == INSTANCE RotatingOrder
             WITH Items <- Key, InitialLine <- OrderOf(Numeric), line <- OrderOf(keyOrder)
SlotLine == INSTANCE RotatingOrder
             WITH Items <- Slot, InitialLine <- OrderOf(Numeric), line <- OrderOf(slotOrder)
QueuesRotate == KeyLine!Rotation /\ SlotLine!Rotation

\* The pool stands in the order of the last failures, whatever walks overlap
\* and whichever slots they came through: "strictly FIFO-on-failure"
\* (openrouter.ts:11-12).
FifoOnFailure ==
  \A i, j \in 1..KeyCount : i < j => keyOrder[j] \in failedSince[keyOrder[i]]

\* The invariant of the pool: types and order.
PoolInv == TypeOK /\ FifoOnFailure
=============================================================================
