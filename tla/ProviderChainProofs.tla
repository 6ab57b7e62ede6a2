------------------------ MODULE ProviderChainProofs ------------------------
(***************************************************************************)
(* Proofs about ProviderChain for every number of requests, every queue    *)
(* and every value of the limits.  Types first; then WalkInv, what a walk  *)
(* knows between two steps; then the properties of the walks.              *)
(***************************************************************************)
EXTENDS ProviderChain, TLAPS

(***************************************************************************)
(* The queue.                                                              *)
(***************************************************************************)

\* A loop of demote() keeps the queue in one line: no entry is lost, doubled
\* or left without a place (rotation.ts demote()).
LEMMA MoveToTailQueue ==
  ASSUME NEW Items, NEW b, NEW S, IsQueueOf(b, Items)
  PROVE  IsQueueOf(MoveToTail(b, S, Items), Items)
<1> DEFINE m == MoveToTail(b, S, Items)
<1>1. ASSUME NEW x \in Items, NEW y \in Items
      PROVE  <<x, y>> \in m <=>
               \/ x \notin S /\ y \in S
               \/ (x \in S <=> y \in S) /\ <<x, y>> \in b
  BY DEF MoveToTail
<1>2. m \subseteq Items \X Items
  BY DEF MoveToTail
<1>3. \A x \in Items : <<x, x>> \notin m
  BY <1>1 DEF IsQueueOf
<1>4. \A x, y \in Items : x # y => <<x, y>> \in m \/ <<y, x>> \in m
  BY <1>1 DEF IsQueueOf
<1>5. ASSUME NEW x \in Items, NEW y \in Items, NEW z \in Items,
             <<x, y>> \in m, <<y, z>> \in m
      PROVE  <<x, z>> \in m
  <2>1. <<x, y>> \in b /\ <<y, z>> \in b => <<x, z>> \in b
    BY DEF IsQueueOf
  <2>2. QED
    BY <1>1, <1>5, <2>1
<1> HIDE DEF m
<1>6. QED
  BY <1>2, <1>3, <1>4, <1>5 DEF IsQueueOf, m

\* The pinned slots are entries.
LEMMA PinSlotsType == \A p : PinSlots(p) \subseteq Entry
BY DEF PinSlots, Foremost

\* So are the entries that eligible() hands out.
LEMMA EligibleType == Eligible \subseteq Entry
BY DEF Eligible

\* Every record that a handler builds is one of Walk.
LEMMA IdleType == Idle \in Walk
BY NumberAssumption DEF Idle, Walk, Ask, Alias, Active, Free, Done

\* A call that is over keeps nothing but the way it ended.
LEMMA FinishedType == ASSUME NEW pc \in Done PROVE Finished(pc) \in Walk
BY IdleType DEF Finished, Walk, Idle, Free

\* The record with which a pass begins (iterate()) is typed.
LEMMA EnterPassType ==
  ASSUME NEW w \in Walk, NEW S \in SUBSET Entry, before \subseteq Entry \X Entry
  PROVE  EnterPass(w, S) \in Walk
<1>1. Within(before, S) \subseteq Entry \X Entry
  BY DEF Within
<1>2. { e \in S : Parked(e) } \subseteq Entry
  OBVIOUS
<1>3. QED
  BY <1>1, <1>2 DEF EnterPass, Walk, Active

\* The skipper names entries only.
LEMMA SkippedType ==
  ASSUME NEW w \in Walk, NEW cooling, w.entry \in Entry
  PROVE  Skipped(w, cooling) \in SUBSET Entry
<1>1. Account(w.entry) \subseteq Entry
  BY DEF Account
<1>2. w.skipped \subseteq Entry
  BY DEF Walk
<1>3. QED
  BY <1>1, <1>2 DEF Skipped

\* The record after a failed attempt is typed.
LEMMA BackInLoopType ==
  ASSUME NEW w \in Walk, NEW cooling, w.entry \in Entry
  PROVE  BackInLoop(w, cooling) \in Walk
<1>1. Skipped(w, cooling) \in SUBSET Entry
  BY SkippedType
<1>2. 0 \in 0..MaxRetries
  BY NumberAssumption
<1> DEFINE S == Skipped(w, cooling)
<1>3. S \in SUBSET Entry
  BY <1>1
<1> HIDE DEF S
<1>4. [w EXCEPT !.pc = "pass", !.entry = NoEntry, !.attempt = 0, !.skipped = S] \in Walk
  BY <1>2, <1>3 DEF Walk, Active
<1>5. QED
  BY <1>4 DEF BackInLoop, S

\* Updating one request's record keeps the types of all.
LEMMA WalkUpdate ==
  ASSUME TypeOK, NEW r \in Request, NEW v \in Walk, AtEntry(v),
         walk' = [walk EXCEPT ![r] = v]
  PROVE  walk' \in [Request -> Walk] /\ \A q \in Request : AtEntry(walk'[q])
<1>1. walk \in [Request -> Walk] /\ \A q \in Request : AtEntry(walk[q])
  BY DEF TypeOK
<1>2. \A q \in Request : walk'[q] = IF q = r THEN v ELSE walk[q]
  BY <1>1
<1>3. walk' \in [Request -> Walk]
  BY <1>1
<1>4. QED
  BY <1>1, <1>2, <1>3

(***************************************************************************)
(* Type correctness.                                                       *)
(***************************************************************************)
LEMMA InitType == Init => TypeOK
<1> SUFFICES ASSUME Init PROVE TypeOK
  OBVIOUS
<1>1. IsQueueOf(before, Entry)
  BY QueueAssumption DEF Init
<1>2. parked \in [Entry -> Nat]
  BY DEF Init
<1>3. streak \in [LocalTail -> 0..SuccessLimit]
  BY NumberAssumption DEF Init
<1>4. walk \in [Request -> Walk]
  BY IdleType DEF Init
<1>5. \A r \in Request : AtEntry(walk[r])
  BY DEF Init, Idle, AtEntry
<1>6. QED
  BY <1>1, <1>2, <1>3, <1>4, <1>5 DEF TypeOK

\* handle() starts a call with a typed record.
LEMMA StartType ==
  ASSUME TypeOK, NEW r \in Request, NEW a \in Ask, StartWalk(r, a) \/ StartPin(r, a)
  PROVE  TypeOK'
<1>1. before \subseteq Entry \X Entry
  BY DEF TypeOK, IsQueueOf
<1>2. CASE StartWalk(r, a)
  <2> DEFINE w == [Idle EXCEPT !.ask = a, !.first = Eligible]
  <2>1. w \in Walk
    BY IdleType, EligibleType DEF Walk
  <2>2. EnterPass(w, Eligible) \in Walk
    BY <1>1, <2>1, EligibleType, EnterPassType
  <2>3. AtEntry(EnterPass(w, Eligible))
    BY DEF AtEntry, EnterPass, Idle
  <2>4. QED
    BY <1>2, <2>2, <2>3, WalkUpdate DEF StartWalk, TypeOK
<1>3. CASE StartPin(r, a)
  <2> DEFINE S == PinSlots(a.of)
             O == Within(OrderOf(InitialQueue), S)
             v == [Idle EXCEPT !.ask = a, !.pc = "pass", !.todo = S, !.ord = O]
  <2>1. S \in SUBSET Entry
    BY PinSlotsType
  <2>2. O \in SUBSET (Entry \X Entry)
    BY QueueAssumption DEF Within, IsQueueOf
  <2>3. walk' = [walk EXCEPT ![r] = v]
    BY <1>3 DEF StartPin
  <2> HIDE DEF S, O
  <2>4. v \in Walk
    BY <2>1, <2>2, IdleType DEF Walk, Active
  <2>5. AtEntry(v)
    BY DEF AtEntry, Idle
  <2>6. QED
    BY <1>3, <2>3, <2>4, <2>5, WalkUpdate DEF StartPin, TypeOK
<1>4. QED
  BY <1>2, <1>3

\* A step of the loop leaves the queue alone and keeps the records typed.
LEMMA ProceedType ==
  ASSUME TypeOK, NEW r \in Request, Proceed(r)
  PROVE  TypeOK'
<1> DEFINE w == walk[r]
<1>0. w \in Walk
  BY DEF TypeOK
<1> HIDE DEF w
<1>1. CASE Abandon(r)
  <2>1. Finished("aborted") \in Walk /\ AtEntry(Finished("aborted"))
    BY FinishedType DEF Done, AtEntry, Finished, Idle
  <2>2. QED
    BY <1>1, <2>1, WalkUpdate DEF Abandon, TypeOK
<1>2. CASE NextEntry(r)
  <2>1. PICK e \in Foremost(w.ord, Candidates(w)) :
          walk' = [walk EXCEPT ![r] =
                     [w EXCEPT !.pc = "wait", !.entry = e, !.attempt = 0,
                               !.todo = { f \in @ : <<e, f>> \in w.ord },
                               !.tried = @ \cup {e}]]
    BY <1>2 DEF NextEntry, w
  <2>2. e \in Entry
    BY <1>0 DEF Foremost, Candidates, Walk
  <2> DEFINE T == { f \in w.todo : <<e, f>> \in w.ord }
             U == w.tried \cup {e}
             v == [w EXCEPT !.pc = "wait", !.entry = e, !.attempt = 0, !.todo = T, !.tried = U]
  <2>3. T \in SUBSET Entry /\ U \in SUBSET Entry /\ 0 \in 0..MaxRetries
    BY <1>0, <2>2, NumberAssumption DEF Walk
  <2>4. walk' = [walk EXCEPT ![r] = v]
    BY <2>1
  <2> HIDE DEF T, U
  <2>5. v \in Walk /\ AtEntry(v)
    BY <1>0, <2>2, <2>3 DEF Walk, Active, AtEntry
  <2>6. QED
    BY <1>2, <2>4, <2>5, WalkUpdate DEF NextEntry, TypeOK
<1>3. CASE SecondPass(r)
  <2> DEFINE u == [w EXCEPT !.second = TRUE]
             v == EnterPass(u, Entry \ w.first)
  <2>1. u \in Walk
    BY <1>0 DEF Walk
  <2>2. v \in Walk
    BY <2>1, EnterPassType DEF IsQueueOf, TypeOK
  <2>3. AtEntry(v)
    BY <1>0 DEF AtEntry, EnterPass, Walk
  <2>4. walk' = [walk EXCEPT ![r] = v]
    BY <1>3 DEF SecondPass, w
  <2>5. QED
    BY <1>3, <2>2, <2>3, <2>4, WalkUpdate DEF SecondPass, TypeOK
<1>4. CASE GiveUp(r)
  <2>1. Finished("failed") \in Walk /\ AtEntry(Finished("failed"))
    BY FinishedType DEF Done, AtEntry, Finished, Idle
  <2>2. QED
    BY <1>4, <2>1, WalkUpdate DEF GiveUp, TypeOK
<1>5. CASE Wake(r)
  <2>1. w.entry \in Entry
    BY <1>5 DEF Wake, TypeOK, AtEntry, w
  <2>2. BackInLoop(w, parked) \in Walk /\ AtEntry(BackInLoop(w, parked))
    BY <1>0, <2>1, BackInLoopType DEF AtEntry, BackInLoop, Walk
  <2>3. [w EXCEPT !.pc = "wait"] \in Walk /\ AtEntry([w EXCEPT !.pc = "wait"])
    BY <1>0, <2>1 DEF Walk, Active, AtEntry
  <2>4. \/ walk' = [walk EXCEPT ![r] = BackInLoop(w, parked)]
        \/ walk' = [walk EXCEPT ![r] = [w EXCEPT !.pc = "wait"]]
    BY <1>5 DEF Wake, w
  <2>5. QED
    BY <1>5, <2>2, <2>3, <2>4, WalkUpdate DEF Wake, TypeOK
<1>6. QED
  BY <1>1, <1>2, <1>3, <1>4, <1>5 DEF Proceed

\* A failure of a local entry sets its streak to zero (rotation.ts), within the limit.
LEMMA StreakReset ==
  ASSUME TypeOK, NEW e
  PROVE  ResetStreak(e) \in [LocalTail -> 0..SuccessLimit]
BY NumberAssumption DEF TypeOK, ResetStreak, Local

\* applyFailureAxes() parks for a natural number of ticks.
LEMMA ParkedAfterType ==
  ASSUME TypeOK, NEW w, NEW out
  PROVE  ParkedAfter(w, out) \in [Entry -> Nat]
<1>1. parked \in [Entry -> Nat]
  BY DEF TypeOK
<1>2. [e \in Entry |-> IF e \in Account(w.entry) THEN RateLimitCooldown ELSE parked[e]]
        \in [Entry -> Nat]
  BY <1>1, NumberAssumption
<1>3. [e \in Entry |-> IF e \in ModelAxis(w.entry) THEN DisabledCooldown ELSE parked[e]]
        \in [Entry -> Nat]
  BY <1>1, NumberAssumption
<1>4. QED
  BY <1>1, <1>2, <1>3 DEF ParkedAfter

\* A success counts or rotates: the streak of a local provider stays in range.
LEMMA SucceedStreak ==
  ASSUME TypeOK, NEW r \in Request, Succeed(r)
  PROVE  streak' \in [LocalTail -> 0..SuccessLimit]
<1> DEFINE p == ProviderOf[walk[r].entry]
           rotate == Local(walk[r].entry) /\ streak[p] + 1 >= SuccessLimit
<1>0. streak \in [LocalTail -> 0..SuccessLimit]
  BY DEF TypeOK
<1>1. streak' = IF ~Local(walk[r].entry) THEN streak
                ELSE [streak EXCEPT ![p] = IF rotate THEN 0 ELSE streak[p] + 1]
  BY DEF Succeed
<1>2. CASE ~Local(walk[r].entry)
  BY <1>0, <1>1, <1>2
<1>3. CASE Local(walk[r].entry)
  <2>1. p \in LocalTail
    BY <1>3 DEF Local
  <2>2. streak[p] \in 0..SuccessLimit
    BY <1>0, <2>1
  <2>3. (IF rotate THEN 0 ELSE streak[p] + 1) \in 0..SuccessLimit
    BY <1>3, <2>2, NumberAssumption
  <2>4. QED
    BY <1>0, <1>1, <1>3, <2>1, <2>3
<1>4. QED
  BY <1>2, <1>3

\* An answer keeps the queue in one line and the counters in their range.
LEMMA AnswerType ==
  ASSUME TypeOK, NEW r \in Request, Answer(r)
  PROVE  TypeOK'
<1> DEFINE w == walk[r]
<1>0. w \in Walk /\ AtEntry(w)
  BY DEF TypeOK
<1>1. CASE Succeed(r)
  <2>1. Finished("served") \in Walk /\ AtEntry(Finished("served"))
    BY FinishedType DEF Done, AtEntry, Finished, Idle
  <2>2. IsQueueOf(before', Entry)
    BY <1>1, MoveToTailQueue DEF Succeed, TypeOK
  <2>3. QED
    BY <1>1, <2>1, <2>2, SucceedStreak, WalkUpdate DEF Succeed, TypeOK
<1>2. CASE RetryLater(r)
  <2>1. w.entry \in Entry /\ w.attempt + 1 \in 0..MaxRetries
    BY <1>0, <1>2, NumberAssumption DEF RetryLater, AtEntry, Walk
  <2> DEFINE v == [w EXCEPT !.pc = "sleep", !.attempt = w.attempt + 1]
  <2>2. walk' = [walk EXCEPT ![r] = v]
    BY <1>2 DEF RetryLater
  <2> HIDE DEF w
  <2>3. v \in Walk /\ AtEntry(v)
    BY <1>0, <2>1 DEF Walk, Active, AtEntry
  <2>4. QED
    BY <1>2, <2>2, <2>3, StreakReset, WalkUpdate DEF RetryLater, TypeOK
<1>3. ASSUME NEW out \in Outcome, Fail(r, out) PROVE TypeOK'
  <2>1. IsQueueOf(before', Entry)
    BY <1>3, MoveToTailQueue DEF Fail, TypeOK
  <2>2. parked' \in [Entry -> Nat]
    BY <1>3, ParkedAfterType DEF Fail
  <2>3. streak' \in [LocalTail -> 0..SuccessLimit]
    BY <1>3, StreakReset DEF Fail
  <2>4. w.entry \in Entry
    BY <1>0, <1>3 DEF Fail, AtEntry
  <2> DEFINE u == [w EXCEPT !.limited = Limited(w, out)]
             v == BackInLoop(u, ParkedAfter(w, out))
  <2>5. Limited(w, out) \in SUBSET Entry
    BY <1>0, <2>4 DEF Walk, Limited
  <2>6. walk' = [walk EXCEPT ![r] = v]
    BY <1>3 DEF Fail
  <2>7. u \in Walk /\ u.entry = w.entry
    BY <1>0, <2>5 DEF Walk
  <2>8. v \in Walk
    BY <2>4, <2>7, BackInLoopType
  <2>9. AtEntry(v)
    BY <1>0, <2>7 DEF AtEntry, BackInLoop, Walk
  <2>10. QED
    BY <2>1, <2>2, <2>3, <2>6, <2>8, <2>9, WalkUpdate DEF TypeOK
<1>4. QED
  BY <1>1, <1>2, <1>3 DEF Answer

\* A closed connection changes one flag.
LEMMA AbortType ==
  ASSUME TypeOK, NEW r \in Request, Abort(r)
  PROVE  TypeOK'
<1> DEFINE v == [walk[r] EXCEPT !.aborted = TRUE]
<1>1. walk' = [walk EXCEPT ![r] = v]
  BY DEF Abort
<1>2. walk[r] \in Walk /\ AtEntry(walk[r])
  BY DEF TypeOK
<1>3. v \in Walk
  BY <1>2 DEF Walk
<1>4. v.pc = walk[r].pc /\ v.entry = walk[r].entry
  BY <1>2 DEF Walk
<1> HIDE DEF v
<1>5. AtEntry(v)
  BY <1>2, <1>4 DEF AtEntry
<1>6. QED
  BY <1>1, <1>3, <1>5, WalkUpdate DEF Abort, TypeOK

\* Time counts cooldowns down and the deadline up, no further than the limits.
LEMMA TickType ==
  ASSUME TypeOK, Tick
  PROVE  TypeOK'
<1>1. parked' \in [Entry -> Nat]
  BY DEF TypeOK, Tick
<1>2. ASSUME NEW r \in Request
      PROVE  walk'[r] \in Walk /\ AtEntry(walk'[r])
  <2>1. walk[r] \in Walk /\ AtEntry(walk[r])
    BY DEF TypeOK
  <2>2. CASE walk'[r] = walk[r]
    BY <2>1, <2>2
  <2>3. CASE /\ walk[r].elapsed < WalkDeadline
             /\ walk'[r] = [walk[r] EXCEPT !.elapsed = walk[r].elapsed + 1]
    <3>1. walk[r].elapsed + 1 \in 0..WalkDeadline
      BY <2>1, <2>3, NumberAssumption DEF Walk
    <3>2. QED
      BY <2>1, <2>3, <3>1 DEF Walk, AtEntry
  <2>4. QED
    BY <2>2, <2>3 DEF Tick
<1>3. walk' = [r \in Request |-> walk'[r]]
  BY DEF Tick
<1>4. walk' \in [Request -> Walk]
  BY <1>2, <1>3
<1>5. QED
  BY <1>1, <1>2, <1>4 DEF Tick, TypeOK

\* A step that changes nothing keeps the types.
LEMMA StutterType == TypeOK /\ UNCHANGED vars => TypeOK'
BY DEF TypeOK, vars, AtEntry

\* Every reachable state is typed: the failover queue holds every entry once
\* and in one line, whatever the concurrent walks demote (rotation.ts,
\* failure-axes.ts), and the counters stay within their limits.
THEOREM TypeCorrect == Spec => []TypeOK
<1>1. Init => TypeOK
  BY InitType
<1>2. TypeOK /\ [Next]_vars => TypeOK'
  BY StartType, ProceedType, AnswerType, AbortType, TickType, StutterType DEF Next
<1>3. QED
  BY <1>1, <1>2, PTL DEF Spec

(***************************************************************************)
(* What a walk knows between two steps, from its own record alone: the     *)
(* queue may be moved and parked under it by every other walk.             *)
(***************************************************************************)

\* The entries that are behind the loop are dealt with; in the first pass the
\* snapshot was all live or all parked.
PassInv(w) ==
  IF w.second
  THEN w.todo \cap w.first = {} /\ \A e \in Entry \ w.todo : Handled(w, e)
  ELSE /\ w.todo \cup w.tried \subseteq w.first
       /\ w.preParked = {} \/ w.preParked = Entry
       /\ \A e \in w.first \ w.todo : Handled(w, e)

\* The entry in flight was not skipped, a skipped entry is dealt with, and a
\* 429 has skipped its whole account.
SkipInv(w) ==
  /\ w.pc \in {"wait", "sleep"} => w.entry \notin w.skipped
  /\ \A e \in w.skipped : Handled(w, e)
  /\ \A f \in w.limited : ProviderOf[f] \notin PerKey => Account(f) \ w.preParked \subseteq w.skipped

WalkInv(w) ==
  w.pc \in Active =>
    /\ w.todo \cap w.tried = {}
    /\ \A e \in Entry : <<e, e>> \notin w.ord
    /\ w.pc \in {"wait", "sleep"} => w.entry \in w.tried
    /\ w.pc = "sleep" => w.attempt > 0
    /\ IsWalk(w) => PassInv(w) /\ SkipInv(w)

Inv == TypeOK /\ \A r \in Request : WalkInv(walk[r])

\* An entry once dealt with stays so while the walk goes on.
LEMMA HandledGrows ==
  ASSUME NEW w \in Walk, NEW v \in Walk, NEW e, Handled(w, e),
         w.tried \subseteq v.tried, w.elapsed <= v.elapsed
  PROVE  Handled(v, e)
<1>1. w.elapsed \in Nat /\ v.elapsed \in Nat /\ WalkDeadline \in Nat
  BY NumberAssumption DEF Walk
<1>2. QED
  BY <1>1 DEF Handled

\* A walk has used a natural number of ticks.
LEMMA ElapsedNat == \A w \in Walk : w.elapsed \in Nat
BY NumberAssumption DEF Walk

\* What the loop `continue`s over is dealt with.
LEMMA PassedOver ==
  ASSUME NEW w \in Walk, WalkInv(w), w.pc \in Active, IsWalk(w),
         NEW e \in w.todo, e \notin Candidates(w)
  PROVE  Handled(w, e)
<1>1. CASE e \in w.skipped
  BY <1>1 DEF WalkInv, SkipInv
<1>2. CASE Over(w, e, 0)
  BY <1>2 DEF Over, Handled
<1>3. QED
  BY <1>1, <1>2 DEF Candidates

\* The loop dispatches the foremost candidate: whatever it passed over on the
\* way is dealt with, and the entry itself is new to the walk.
LEMMA DispatchInv ==
  ASSUME NEW w \in Walk, WalkInv(w), w.pc = "pass",
         NEW e \in Foremost(w.ord, Candidates(w)), NEW v \in Walk,
         v = [w EXCEPT !.pc = "wait", !.entry = e, !.attempt = 0,
                       !.todo = { f \in w.todo : <<e, f>> \in w.ord },
                       !.tried = w.tried \cup {e}]
  PROVE  WalkInv(v)
<1>1. /\ v.pc = "wait" /\ v.entry = e /\ v.tried = w.tried \cup {e}
      /\ v.todo = { f \in w.todo : <<e, f>> \in w.ord }
      /\ v.ord = w.ord /\ v.ask = w.ask /\ v.first = w.first /\ v.second = w.second
      /\ v.preParked = w.preParked /\ v.skipped = w.skipped /\ v.limited = w.limited
      /\ v.elapsed = w.elapsed
  BY DEF Walk
<1>2. e \in Entry /\ e \in w.todo /\ e \notin w.skipped
  BY DEF Foremost, Candidates, Walk
<1>3. w.pc \in Active /\ w.elapsed <= v.elapsed /\ w.tried \subseteq v.tried
  BY <1>1, ElapsedNat DEF Active
<1>4. v.todo \cap v.tried = {}
  BY <1>1, <1>2, <1>3 DEF WalkInv
<1>5. ASSUME IsWalk(w)
      PROVE  PassInv(v) /\ SkipInv(v)
  <2>1. \A f \in w.todo \ v.todo : Handled(v, f)
    <3> SUFFICES ASSUME NEW f \in w.todo, f \notin v.todo PROVE Handled(v, f)
      OBVIOUS
    <3>1. CASE f = e
      BY <1>1, <3>1 DEF Handled
    <3>2. CASE f # e
      <4>1. f \notin Candidates(w)
        BY <1>1, <3>2 DEF Foremost
      <4>2. Handled(w, f)
        BY <1>3, <1>5, <4>1, PassedOver
      <4>3. QED
        BY <1>1, <1>3, <4>2, HandledGrows
    <3>3. QED
      BY <3>1, <3>2
  <2>2. \A f : Handled(w, f) => Handled(v, f)
    BY <1>1, <1>3, HandledGrows
  <2>3. PassInv(w) /\ SkipInv(w)
    BY <1>3, <1>5 DEF WalkInv
  <2>4. PassInv(v)
    BY <1>1, <1>2, <2>1, <2>2, <2>3 DEF PassInv
  <2>5. SkipInv(v)
    BY <1>1, <1>2, <2>2, <2>3 DEF SkipInv
  <2>6. QED
    BY <2>4, <2>5
<1>6. IsWalk(v) => IsWalk(w)
  BY <1>1 DEF IsWalk
<1>7. \A f \in Entry : <<f, f>> \notin v.ord
  BY <1>1, <1>3 DEF WalkInv
<1>8. QED
  BY <1>1, <1>4, <1>5, <1>6, <1>7 DEF WalkInv

\* The second pass begins with everything of the first one dealt with.
LEMMA SecondPassInv ==
  ASSUME TypeOK, NEW w \in Walk, WalkInv(w), w.pc = "pass", IsWalk(w), ~w.second,
         Candidates(w) = {}, NEW v \in Walk,
         v = EnterPass([w EXCEPT !.second = TRUE], Entry \ w.first)
  PROVE  WalkInv(v)
<1>1. /\ v.pc = "pass" /\ v.todo = Entry \ w.first /\ v.tried = w.tried
      /\ v.ord = Within(before, Entry \ w.first) /\ v.first = w.first /\ v.second
      /\ v.skipped = {} /\ v.limited = {} /\ v.elapsed = w.elapsed
  BY DEF Walk, EnterPass
<1>2. w.pc \in Active /\ w.elapsed <= v.elapsed /\ w.tried \subseteq v.tried
  <2>1. w.elapsed \in Nat /\ v.elapsed = w.elapsed
    BY ElapsedNat DEF EnterPass, Walk
  <2>2. w.pc \in Active
    BY DEF Active
  <2>3. w.elapsed <= v.elapsed
    BY <2>1
  <2>4. QED
    BY <1>1, <2>2, <2>3
<1>3. PassInv(w)
  BY <1>2 DEF WalkInv
<1>4. \A e \in w.first : Handled(w, e)
  <2>1. \A e \in w.todo : Handled(w, e)
    BY <1>2, PassedOver
  <2>2. QED
    BY <1>3, <2>1 DEF PassInv
<1>5. \A e \in Entry \ v.todo : Handled(v, e)
  <2>1. Entry \ v.todo \subseteq w.first
    BY <1>1
  <2>2. QED
    BY <1>2, <1>4, <2>1, HandledGrows
<1>6. PassInv(v)
  BY <1>1, <1>5 DEF PassInv
<1>7. SkipInv(v)
  BY <1>1 DEF SkipInv
<1>8. v.todo \cap v.tried = {}
  BY <1>1, <1>3 DEF PassInv
<1>9. \A e \in Entry : <<e, e>> \notin v.ord
  BY <1>1 DEF TypeOK, IsQueueOf, Within
<1>10. QED
  BY <1>1, <1>6, <1>7, <1>8, <1>9 DEF WalkInv

\* Back in the loop after a failed attempt: the skipper has looked at the
\* cooldowns that the failure left.
LEMMA BackInLoopInv ==
  ASSUME NEW w \in Walk, NEW u \in Walk, NEW v \in Walk, NEW cooling,
         WalkInv(w), w.pc \in {"wait", "sleep"}, w.entry \in Entry,
         u = [w EXCEPT !.limited = u.limited],
         \A f \in u.limited \ w.limited :
           f = w.entry /\ w.entry \notin w.preParked /\ cooling[w.entry] > 0,
         v = BackInLoop(u, cooling)
  PROVE  WalkInv(v)
<1> DEFINE S == Skipped(u, cooling)
<1>1. /\ v.pc = "pass" /\ v.todo = w.todo /\ v.tried = w.tried /\ v.ord = w.ord
      /\ v.ask = w.ask /\ v.first = w.first /\ v.second = w.second /\ v.skipped = S
      /\ v.preParked = w.preParked /\ v.elapsed = w.elapsed /\ v.limited = u.limited
  BY DEF Walk, BackInLoop
<1>2. w.pc \in Active /\ w.elapsed <= v.elapsed /\ w.tried \subseteq v.tried
  BY <1>1, ElapsedNat DEF Active
<1>3. /\ u.entry = w.entry /\ u.preParked = w.preParked /\ u.skipped = w.skipped
      /\ u.ask = w.ask
  BY DEF Walk
<1>4. ASSUME IsWalk(w)
      PROVE  PassInv(v) /\ SkipInv(v)
  <2>1. PassInv(w) /\ SkipInv(w) /\ w.entry \in w.tried
    BY <1>2, <1>4 DEF WalkInv
  <2>2. \A f : Handled(w, f) => Handled(v, f)
    BY <1>1, <1>2, HandledGrows
  <2>3. PassInv(v)
    BY <1>1, <2>1, <2>2 DEF PassInv
  <2>4. ASSUME NEW e \in S
        PROVE  Handled(v, e)
    <3>1. CASE e \in w.skipped
      BY <2>1, <2>2, <3>1 DEF SkipInv
    <3>2. CASE e \notin w.skipped
      <4>1. e \in Account(w.entry) /\ ProviderOf[w.entry] \notin PerKey
        BY <1>3, <2>4, <3>2 DEF Skipped
      <4>2. w.entry \in Account(e)
        BY <4>1 DEF Account
      <4>3. QED
        BY <1>1, <2>1, <4>2 DEF Handled
    <3>3. QED
      BY <3>1, <3>2
  <2>5. ASSUME NEW f \in v.limited, ProviderOf[f] \notin PerKey
        PROVE  Account(f) \ v.preParked \subseteq S
    <3>1. w.skipped \subseteq S
      BY <1>3 DEF Skipped
    <3>2. CASE f \in w.limited
      BY <1>1, <2>1, <2>5, <3>1, <3>2 DEF SkipInv
    <3>3. CASE f \notin w.limited
      <4>1. f = w.entry /\ w.entry \notin w.preParked /\ cooling[w.entry] > 0
        BY <1>1, <3>3
      <4>2. S = w.skipped \cup (Account(w.entry) \ w.preParked)
        BY <1>3, <1>4, <2>5, <4>1 DEF Skipped, IsWalk
      <4>3. QED
        BY <1>1, <4>1, <4>2
    <3>4. QED
      BY <3>2, <3>3
  <2> HIDE DEF S
  <2>6. SkipInv(v)
    BY <1>1, <2>4, <2>5 DEF SkipInv
  <2>7. QED
    BY <2>3, <2>6
<1>5. IsWalk(v) => IsWalk(w)
  BY <1>1 DEF IsWalk
<1>6. v.todo \cap v.tried = {} /\ \A e \in Entry : <<e, e>> \notin v.ord
  BY <1>1, <1>2 DEF WalkInv
<1>7. QED
  BY <1>1, <1>4, <1>5, <1>6 DEF WalkInv

\* A step that leaves the loop where it is: a retry, a wake-up, an abort, time.
LEMMA StayInv ==
  ASSUME NEW w \in Walk, NEW v \in Walk, WalkInv(w), w.pc \in Active,
         v.todo = w.todo, v.tried = w.tried, v.ord = w.ord, v.ask = w.ask,
         v.first = w.first, v.second = w.second, v.preParked = w.preParked,
         v.skipped = w.skipped, v.limited = w.limited, w.elapsed <= v.elapsed,
         v.entry = w.entry, v.pc = w.pc \/ w.pc \in {"wait", "sleep"},
         v.pc = "sleep" => v.attempt > 0
  PROVE  WalkInv(v)
<1>1. \A f : Handled(w, f) => Handled(v, f)
  BY HandledGrows
<1>2. ASSUME IsWalk(w)
      PROVE  PassInv(v) /\ SkipInv(v)
  <2>1. PassInv(w) /\ SkipInv(w)
    BY <1>2 DEF WalkInv
  <2>2. QED
    BY <1>1, <2>1 DEF PassInv, SkipInv
<1>3. IsWalk(v) => IsWalk(w)
  BY DEF IsWalk
<1>4. QED
  BY <1>2, <1>3 DEF WalkInv

\* Only the record of the request that steps changes.
LEMMA InvUpdate ==
  ASSUME Inv, NEW r \in Request, NEW v, WalkInv(v), walk' = [walk EXCEPT ![r] = v]
  PROVE  \A q \in Request : WalkInv(walk'[q])
<1>1. walk \in [Request -> Walk] /\ \A q \in Request : WalkInv(walk[q])
  BY DEF Inv, TypeOK
<1>2. \A q \in Request : walk'[q] = IF q = r THEN v ELSE walk[q]
  BY <1>1
<1>3. QED
  BY <1>1, <1>2

\* Nothing is asked of a call that is over.
LEMMA FinishedInv == \A pc \in Done : WalkInv(Finished(pc))
BY DEF WalkInv, Finished, Idle, Active, Done

\* No call is active at first.
LEMMA InitInv == Init => Inv
BY InitType DEF Init, Inv, WalkInv, Idle, Active

\* A call that begins knows nothing yet: its snapshot is all live, or it is
\* everything, parked.
LEMMA StartInv ==
  ASSUME Inv, NEW r \in Request, NEW a \in Ask, StartWalk(r, a) \/ StartPin(r, a)
  PROVE  \A q \in Request : WalkInv(walk'[q])
<1>0. IsQueueOf(before, Entry) /\ IsQueueOf(OrderOf(InitialQueue), Entry)
  BY QueueAssumption DEF Inv, TypeOK
<1>1. CASE StartWalk(r, a)
  <2> DEFINE u == [Idle EXCEPT !.ask = a, !.first = Eligible]
             v == EnterPass(u, Eligible)
  <2>1. /\ v.todo = Eligible /\ v.tried = {} /\ v.ord = Within(before, Eligible)
        /\ v.first = Eligible /\ v.second = FALSE /\ v.skipped = {} /\ v.limited = {}
        /\ v.preParked = { e \in Eligible : Parked(e) } /\ v.pc = "pass"
    BY DEF EnterPass, Idle
  <2>2. v.preParked = {} \/ v.preParked = Entry
    BY <2>1 DEF Eligible
  <2>3. PassInv(v)
    BY <2>1, <2>2 DEF PassInv
  <2>4. SkipInv(v)
    BY <2>1 DEF SkipInv
  <2>5. \A e \in Entry : <<e, e>> \notin v.ord
    BY <1>0, <2>1 DEF Within, IsQueueOf
  <2>6. walk' = [walk EXCEPT ![r] = v]
    BY <1>1 DEF StartWalk
  <2> HIDE DEF v
  <2>7. WalkInv(v)
    BY <2>1, <2>3, <2>4, <2>5 DEF WalkInv
  <2>8. QED
    BY <2>6, <2>7, InvUpdate
<1>2. CASE StartPin(r, a)
  <2> DEFINE S == PinSlots(a.of)
             O == Within(OrderOf(InitialQueue), S)
             v == [Idle EXCEPT !.ask = a, !.pc = "pass", !.todo = S, !.ord = O]
  <2>1. \A e \in Entry : <<e, e>> \notin O
    BY <1>0 DEF Within, IsQueueOf
  <2>2. walk' = [walk EXCEPT ![r] = v]
    BY <1>2 DEF StartPin
  <2>3. a.mode = "direct"
    BY <1>2 DEF StartPin
  <2> HIDE DEF S, O
  <2>4. v.pc = "pass" /\ v.ask = a /\ v.ord = O /\ v.tried = {}
    BY DEF Idle
  <2> HIDE DEF v
  <2>5. WalkInv(v)
    BY <2>1, <2>3, <2>4 DEF WalkInv, IsWalk
  <2>6. QED
    BY <2>2, <2>5, InvUpdate
<1>3. QED
  BY <1>1, <1>2

\* The steps of the loop keep what the walk knows.
LEMMA ProceedInv ==
  ASSUME Inv, TypeOK', NEW r \in Request, Proceed(r)
  PROVE  \A q \in Request : WalkInv(walk'[q])
<1> DEFINE w == walk[r]
           v == walk'[r]
<1>0. w \in Walk /\ v \in Walk /\ WalkInv(w) /\ AtEntry(w) /\ walk \in [Request -> Walk] /\ TypeOK
  BY DEF Inv, TypeOK
<1>1. CASE Abandon(r)
  BY <1>1, FinishedInv, InvUpdate DEF Abandon, Done
<1>2. CASE NextEntry(r)
  <2>1. PICK e \in Foremost(w.ord, Candidates(w)) :
          walk' = [walk EXCEPT ![r] =
                     [w EXCEPT !.pc = "wait", !.entry = e, !.attempt = 0,
                               !.todo = { f \in @ : <<e, f>> \in w.ord },
                               !.tried = @ \cup {e}]]
    BY <1>2 DEF NextEntry
  <2> DEFINE u == [w EXCEPT !.pc = "wait", !.entry = e, !.attempt = 0,
                            !.todo = { f \in w.todo : <<e, f>> \in w.ord },
                            !.tried = w.tried \cup {e}]
  <2>2. walk' = [walk EXCEPT ![r] = u]
    BY <2>1
  <2>3. w.pc = "pass"
    BY <1>2 DEF NextEntry
  <2>4. v = u
    BY <1>0, <2>2
  <2> HIDE DEF w, v
  <2>5. WalkInv(u)
    BY <1>0, <2>3, <2>4, DispatchInv
  <2> HIDE DEF u
  <2>6. QED
    BY <2>2, <2>5, InvUpdate
<1>3. CASE SecondPass(r)
  <2> DEFINE u == EnterPass([w EXCEPT !.second = TRUE], Entry \ w.first)
  <2>1. walk' = [walk EXCEPT ![r] = u]
    BY <1>3 DEF SecondPass
  <2>2. v = u
    BY <1>0, <2>1
  <2>3. w.pc = "pass" /\ IsWalk(w) /\ ~w.second /\ Candidates(w) = {}
    BY <1>3 DEF SecondPass
  <2> HIDE DEF w, v
  <2>4. WalkInv(u)
    BY <1>0, <2>2, <2>3, SecondPassInv
  <2> HIDE DEF u
  <2>5. QED
    BY <2>1, <2>4, InvUpdate
<1>4. CASE GiveUp(r)
  BY <1>4, FinishedInv, InvUpdate DEF GiveUp, Done
<1>5. CASE Wake(r)
  <2>1. w.pc = "sleep" /\ w.entry \in Entry
    BY <1>0, <1>5 DEF Wake, AtEntry
  <2>2. CASE walk' = [walk EXCEPT ![r] = BackInLoop(w, parked)]
    <3>1. v = BackInLoop(w, parked)
      BY <1>0, <2>2
    <3>2. w = [w EXCEPT !.limited = w.limited]
      BY <1>0 DEF Walk
    <3> HIDE DEF w, v
    <3>3. WalkInv(v)
      BY <1>0, <2>1, <3>1, <3>2, BackInLoopInv
    <3>4. QED
      BY <2>2, <3>1, <3>3, InvUpdate
  <2>3. CASE walk' = [walk EXCEPT ![r] = [w EXCEPT !.pc = "wait"]]
    <3> DEFINE u == [w EXCEPT !.pc = "wait"]
    <3>1. v = u
      BY <1>0, <2>3
    <3> HIDE DEF v
    <3>2. w.elapsed <= w.elapsed
      BY <1>0, ElapsedNat
    <3> HIDE DEF w
    <3>3. /\ u.todo = w.todo /\ u.tried = w.tried /\ u.ord = w.ord /\ u.ask = w.ask
          /\ u.first = w.first /\ u.second = w.second /\ u.preParked = w.preParked
          /\ u.skipped = w.skipped /\ u.limited = w.limited /\ u.elapsed = w.elapsed
          /\ u.entry = w.entry /\ u.pc = "wait"
      BY <1>0 DEF Walk
    <3>4. WalkInv(u)
      BY <1>0, <2>1, <3>1, <3>2, <3>3, StayInv DEF Active
    <3>5. QED
      BY <2>3, <3>4, InvUpdate DEF w
  <2>4. QED
    BY <1>5, <2>2, <2>3 DEF Wake
<1>6. QED
  BY <1>1, <1>2, <1>3, <1>4, <1>5 DEF Proceed

\* An answer keeps what the walk knows: the skipper runs after the parking.
LEMMA AnswerInv ==
  ASSUME Inv, TypeOK', NEW r \in Request, Answer(r)
  PROVE  \A q \in Request : WalkInv(walk'[q])
<1> DEFINE w == walk[r]
           v == walk'[r]
<1>0. w \in Walk /\ v \in Walk /\ WalkInv(w) /\ AtEntry(w) /\ walk \in [Request -> Walk]
  BY DEF Inv, TypeOK
<1>1. CASE Succeed(r)
  BY <1>1, FinishedInv, InvUpdate DEF Succeed, Done
<1>2. CASE RetryLater(r)
  <2> DEFINE u == [w EXCEPT !.pc = "sleep", !.attempt = w.attempt + 1]
  <2>1. walk' = [walk EXCEPT ![r] = u] /\ w.pc = "wait"
    BY <1>2 DEF RetryLater
  <2>2. v = u
    BY <1>0, <2>1
  <2>3. w.elapsed <= w.elapsed /\ w.attempt + 1 > 0
    <3>1. w.elapsed \in Nat /\ w.attempt \in Nat
      BY <1>0, NumberAssumption DEF Walk
    <3>2. QED
      BY <3>1
  <2> HIDE DEF w, v
  <2>4. /\ u.todo = w.todo /\ u.tried = w.tried /\ u.ord = w.ord /\ u.ask = w.ask
        /\ u.first = w.first /\ u.second = w.second /\ u.preParked = w.preParked
        /\ u.skipped = w.skipped /\ u.limited = w.limited /\ u.elapsed = w.elapsed
        /\ u.entry = w.entry /\ u.attempt = w.attempt + 1
    BY <1>0 DEF Walk
  <2>5. u \in Walk /\ u.attempt > 0 /\ w.elapsed <= u.elapsed
    BY <1>0, <2>2, <2>3, <2>4
  <2> HIDE DEF u
  <2>6. WalkInv(u)
    BY <1>0, <2>1, <2>4, <2>5, StayInv DEF Active
  <2>7. QED
    BY <2>1, <2>6, InvUpdate DEF w
<1>3. ASSUME NEW out \in Outcome, Fail(r, out)
      PROVE  \A q \in Request : WalkInv(walk'[q])
  <2> DEFINE u == [w EXCEPT !.limited = Limited(w, out)]
             cooling == ParkedAfter(w, out)
  <2>1. walk' = [walk EXCEPT ![r] = BackInLoop(u, cooling)] /\ w.pc = "wait"
    BY <1>3 DEF Fail
  <2>2. v = BackInLoop(u, cooling)
    BY <1>0, <2>1
  <2>3. w.entry \in Entry
    BY <1>0, <2>1 DEF AtEntry
  <2>4. Limited(w, out) \in SUBSET Entry
    BY <1>0, <2>3 DEF Walk, Limited
  <2>5. u \in Walk /\ u.limited = Limited(w, out)
    BY <1>0, <2>4 DEF Walk
  <2>6. ASSUME NEW f \in u.limited \ w.limited
        PROVE  f = w.entry /\ w.entry \notin w.preParked /\ cooling[w.entry] > 0
    <3>1. f = w.entry /\ IsWalk(w) /\ out = "RATE_LIMITED" /\ RateLimitCooldown > 0
          /\ w.entry \notin w.preParked
      BY <2>5, <2>6 DEF Limited
    <3>2. w.entry \in Account(w.entry)
      BY <2>3 DEF Account
    <3>3. cooling[w.entry] = RateLimitCooldown
      BY <2>3, <3>1, <3>2 DEF ParkedAfter
    <3>4. QED
      BY <3>1, <3>3
  <2>7. u = [w EXCEPT !.limited = u.limited]
    BY <2>5
  <2> HIDE DEF u, cooling, w, v
  <2>8. WalkInv(v)
    BY <1>0, <2>1, <2>2, <2>3, <2>5, <2>6, <2>7, BackInLoopInv
  <2>9. QED
    BY <2>1, <2>2, <2>8, InvUpdate
<1>4. QED
  BY <1>1, <1>2, <1>3 DEF Answer

\* An abort leaves the loop where it is.
LEMMA AbortInv ==
  ASSUME Inv, TypeOK', NEW r \in Request, Abort(r)
  PROVE  \A q \in Request : WalkInv(walk'[q])
<1> DEFINE w == walk[r]
           u == [w EXCEPT !.aborted = TRUE]
<1>1. w \in Walk /\ WalkInv(w) /\ walk \in [Request -> Walk] /\ walk'[r] \in Walk
  BY DEF Inv, TypeOK
<1>2. walk' = [walk EXCEPT ![r] = u] /\ w.pc \in Active
  BY DEF Abort
<1>3. u \in Walk
  BY <1>1, <1>2
<1>4. w.elapsed <= w.elapsed
  BY <1>1, ElapsedNat
<1> HIDE DEF w
<1>5. /\ u.todo = w.todo /\ u.tried = w.tried /\ u.ord = w.ord /\ u.ask = w.ask
      /\ u.first = w.first /\ u.second = w.second /\ u.preParked = w.preParked
      /\ u.skipped = w.skipped /\ u.limited = w.limited /\ u.elapsed = w.elapsed
      /\ u.entry = w.entry /\ u.attempt = w.attempt /\ u.pc = w.pc
  BY <1>1 DEF Walk
<1>6. u.pc = "sleep" => u.attempt > 0
  BY <1>1, <1>2, <1>5 DEF WalkInv
<1>7. WalkInv(u)
  BY <1>1, <1>2, <1>3, <1>4, <1>5, <1>6, StayInv
<1>8. QED
  BY <1>2, <1>7, InvUpdate DEF w

\* Time only adds entries that the deadline has dealt with.
LEMMA TickInv ==
  ASSUME Inv, TypeOK', Tick
  PROVE  \A q \in Request : WalkInv(walk'[q])
<1> SUFFICES ASSUME NEW q \in Request PROVE WalkInv(walk'[q])
  OBVIOUS
<1> DEFINE w == walk[q]
           u == [w EXCEPT !.elapsed = w.elapsed + 1]
<1>1. w \in Walk /\ WalkInv(w) /\ walk'[q] \in Walk
  BY DEF Inv, TypeOK
<1>2. CASE walk'[q] = w
  BY <1>1, <1>2
<1>3. CASE walk'[q] = u /\ w.pc \in Active
  <2>1. w.elapsed <= w.elapsed + 1
    BY <1>1, ElapsedNat
  <2>2. u \in Walk
    BY <1>1, <1>3
  <2> HIDE DEF w
  <2>3. /\ u.todo = w.todo /\ u.tried = w.tried /\ u.ord = w.ord /\ u.ask = w.ask
        /\ u.first = w.first /\ u.second = w.second /\ u.preParked = w.preParked
        /\ u.skipped = w.skipped /\ u.limited = w.limited /\ u.elapsed = w.elapsed + 1
        /\ u.entry = w.entry /\ u.attempt = w.attempt /\ u.pc = w.pc
    BY <1>1 DEF Walk
  <2>4. u.pc = "sleep" => u.attempt > 0
    BY <1>1, <1>3, <2>3 DEF WalkInv
  <2>5. w.elapsed <= u.elapsed
    BY <2>1, <2>3
  <2> HIDE DEF u
  <2>6. WalkInv(u)
    BY <1>1, <1>3, <2>2, <2>3, <2>4, <2>5, StayInv
  <2>7. QED
    BY <1>3, <2>6
<1>4. QED
  BY <1>2, <1>3 DEF Tick

\* Inv is inductive.
LEMMA StepInv == Inv /\ [Next]_vars => Inv'
<1> SUFFICES ASSUME Inv, [Next]_vars PROVE Inv'
  OBVIOUS
<1>1. TypeOK'
  BY StartType, ProceedType, AnswerType, AbortType, TickType, StutterType DEF Next, Inv
<1>2. CASE Next
  BY <1>1, <1>2, StartInv, ProceedInv, AnswerInv, AbortInv, TickInv DEF Next, Inv
<1>3. CASE UNCHANGED vars
  BY <1>1, <1>3 DEF Inv, vars
<1>4. QED
  BY <1>2, <1>3

\* Inv holds in every reachable state.
LEMMA Invariance == Spec => []Inv
BY InitInv, StepInv, PTL DEF Spec

(***************************************************************************)
(* The properties of the walks.                                            *)
(***************************************************************************)

\* After a 429 the rest of the account is left alone for the pass: the
\* skipper has the account in its set, and the loop takes nothing from there
\* (failure-axes.ts MidWalkParkSkipper).
THEOREM AccountLimit == Spec => []AccountLimitRespected
<1>1. Inv => AccountLimitRespected
  <2> SUFFICES ASSUME Inv, NEW r \in Request, walk[r].pc \in {"wait", "sleep"}, IsWalk(walk[r]),
                      walk[r].entry \notin walk[r].preParked,
                      NEW f \in walk[r].limited, f # walk[r].entry,
                      f \in Account(walk[r].entry)
               PROVE  FALSE
    BY DEF AccountLimitRespected
  <2> DEFINE w == walk[r]
  <2>1. SkipInv(w) /\ w.entry \in Entry
    BY DEF Inv, WalkInv, Active, TypeOK, AtEntry
  <2>2. ProviderOf[f] = ProviderOf[w.entry] /\ ProviderOf[f] \notin PerKey
    BY DEF Account
  <2>3. w.entry \in Account(f)
    BY <2>1, <2>2 DEF Account
  <2>4. QED
    BY <2>1, <2>2, <2>3 DEF SkipInv
<1>2. QED
  BY <1>1, Invariance, PTL

\* A cooling entry is tried only when everything was cooling or the first pass
\* is dealt with (chain.ts iterate(), rotation.ts eligible()).
THEOREM CooldownLast == Spec => []CooldownIsLastResort
<1>1. Inv => CooldownIsLastResort
  <2> SUFFICES ASSUME Inv, NEW r \in Request, walk[r].pc \in {"wait", "sleep"}, IsWalk(walk[r]),
                      walk[r].entry \in walk[r].preParked
               PROVE  IF walk[r].second THEN \A e \in walk[r].first : Handled(walk[r], e)
                      ELSE walk[r].preParked = Entry
    BY DEF CooldownIsLastResort
  <2>1. PassInv(walk[r]) /\ walk[r] \in Walk
    BY DEF Inv, WalkInv, Active, TypeOK
  <2>2. walk[r].first \subseteq Entry
    BY <2>1 DEF Walk
  <2>3. QED
    BY <2>1, <2>2 DEF PassInv
<1>2. QED
  BY <1>1, Invariance, PTL

\* The record of a request is left alone by the steps of the others.
LEMMA OthersKeep ==
  ASSUME TypeOK, NEW q \in Request, NEW r \in Request, q # r,
         (\E a \in Ask : StartWalk(r, a) \/ StartPin(r, a)) \/ Proceed(r) \/ Answer(r) \/ Abort(r)
  PROVE  walk'[q] = walk[q]
<1>1. walk \in [Request -> Walk]
  BY DEF TypeOK
<1>2. PICK v : walk' = [walk EXCEPT ![r] = v]
  <2>1. CASE \E a \in Ask : StartWalk(r, a) \/ StartPin(r, a)
    BY <2>1 DEF StartWalk, StartPin
  <2>2. CASE Proceed(r)
    BY <2>2 DEF Proceed, Abandon, NextEntry, SecondPass, GiveUp, Wake
  <2>3. CASE Answer(r)
    BY <2>3 DEF Answer, Succeed, RetryLater, Fail
  <2>4. CASE Abort(r)
    BY <2>4 DEF Abort
  <2>5. QED
    BY <2>1, <2>2, <2>3, <2>4
<1>3. QED
  BY <1>1, <1>2

\* Which step of its own changes the state of a call.
LEMMA OwnStep ==
  ASSUME TypeOK, Next, NEW q \in Request, walk'[q].pc # walk[q].pc
  PROVE  (\E a \in Ask : StartWalk(q, a) \/ StartPin(q, a)) \/ Proceed(q) \/ Answer(q)
<1>1. walk[q] \in Walk
  BY DEF TypeOK
<1>2. ~Tick
  BY <1>1 DEF Tick, Walk
<1>3. ~Abort(q)
  <2> SUFFICES ASSUME Abort(q) PROVE FALSE
    OBVIOUS
  <2>1. walk'[q] = [walk[q] EXCEPT !.aborted = TRUE]
    BY DEF Abort, TypeOK
  <2>2. QED
    BY <1>1, <2>1 DEF Walk
<1>4. QED
  BY <1>2, <1>3, OthersKeep DEF Next

\* A second pass leads back to the loop head.
LEMMA SecondPassPc ==
  ASSUME TypeOK, NEW q \in Request, SecondPass(q)
  PROVE  walk'[q].pc = "pass"
<1>1. walk \in [Request -> Walk] /\ walk[q] \in Walk
  BY DEF TypeOK
<1> DEFINE u == [walk[q] EXCEPT !.second = TRUE]
<1>2. u \in Walk
  BY <1>1 DEF Walk
<1>3. walk'[q] = EnterPass(u, Entry \ walk[q].first)
  BY <1>1 DEF SecondPass
<1> HIDE DEF u
<1>4. QED
  BY <1>2, <1>3 DEF EnterPass, Walk

\* A failed attempt leads back to the loop head.
LEMMA FailPc ==
  ASSUME TypeOK, NEW q \in Request, NEW out, Fail(q, out)
  PROVE  walk'[q].pc = "pass"
<1>1. walk \in [Request -> Walk] /\ walk[q] \in Walk
  BY DEF TypeOK
<1> DEFINE L == Limited(walk[q], out)
           C == ParkedAfter(walk[q], out)
           u == [walk[q] EXCEPT !.limited = L]
<1>2. walk'[q] = BackInLoop(u, C)
  BY <1>1 DEF Fail
<1> HIDE DEF L, C
<1>3. DOMAIN u = DOMAIN walk[q] /\ "pc" \in DOMAIN walk[q]
  BY <1>1 DEF Walk
<1> HIDE DEF u
<1>4. QED
  BY <1>2, <1>3 DEF BackInLoop

\* The loop head dispatches an entry or nothing.
LEMMA NextEntryPc ==
  ASSUME TypeOK, NEW q \in Request, NextEntry(q)
  PROVE  walk'[q].pc = "wait"
<1> DEFINE w == walk[q]
           D(e) == [w EXCEPT !.pc = "wait", !.entry = e, !.attempt = 0,
                             !.todo = { f \in w.todo : <<e, f>> \in w.ord },
                             !.tried = w.tried \cup {e}]
<1>1. walk \in [Request -> Walk] /\ w \in Walk
  BY DEF TypeOK
<1>2. PICK e \in Foremost(w.ord, Candidates(w)) : walk'[q] = D(e)
  BY <1>1 DEF NextEntry
<1> HIDE DEF w
<1>3. D(e).pc = "wait"
  BY <1>1 DEF Walk
<1>4. QED
  BY <1>2, <1>3

\* Back in the loop a call is at the loop head.
LEMMA BackInLoopPc ==
  ASSUME NEW w \in Walk, NEW C
  PROVE  BackInLoop(w, C).pc = "pass"
BY DEF BackInLoop, Walk

\* The end of a backoff leads to the provider or back to the loop head.
LEMMA WakePc ==
  ASSUME TypeOK, NEW q \in Request, Wake(q)
  PROVE  walk'[q].pc \in {"pass", "wait"}
<1> DEFINE v == [walk[q] EXCEPT !.pc = "wait"]
<1>1. walk \in [Request -> Walk] /\ walk[q] \in Walk
  BY DEF TypeOK
<1>2. v.pc = "wait"
  BY <1>1 DEF Walk
<1>3. walk'[q] = v \/ walk'[q] = BackInLoop(walk[q], parked)
  BY <1>1 DEF Wake
<1> HIDE DEF v
<1>4. QED
  BY <1>1, <1>2, <1>3, BackInLoopPc

\* Only GiveUp ends an active call with the error of a chain that ran out.
LEMMA OnlyGiveUpFails ==
  ASSUME TypeOK, Next, NEW q \in Request, walk[q].pc \in Active, walk'[q].pc = "failed"
  PROVE  GiveUp(q)
<1>1. walk \in [Request -> Walk] /\ walk[q] \in Walk
  BY DEF TypeOK
<1>2. walk'[q].pc # walk[q].pc
  BY DEF Active
<1>3. ~\E a \in Ask : StartWalk(q, a) \/ StartPin(q, a)
  BY DEF StartWalk, StartPin, Active, Free, Done
<1>4. ~Answer(q)
  <2>1. ~Succeed(q)
    BY <1>1 DEF Succeed, Finished, Idle
  <2>2. ~RetryLater(q)
    BY <1>1 DEF RetryLater, Walk
  <2>3. \A out \in Outcome : ~Fail(q, out)
    BY FailPc
  <2>4. QED
    BY <2>1, <2>2, <2>3 DEF Answer
<1>5. ~Abandon(q)
  BY <1>1 DEF Abandon, Finished, Idle
<1>6. ~NextEntry(q)
  BY NextEntryPc
<1>7. ~SecondPass(q)
  BY SecondPassPc
<1>8. ~Wake(q)
  BY WakePc
<1>9. QED
  BY <1>2, <1>3, <1>4, <1>5, <1>6, <1>7, <1>8, OwnStep DEF Proceed

\* A call that fails with its client still there has dealt with every entry,
\* whatever the concurrent walks did to the queue (chain.ts iterate()).
THEOREM FailureIsExhaustive == Spec => ExhaustiveFailure
<1>1. Inv /\ [Next]_vars =>
        [\A r \in Request :
           walk[r].pc \in Active /\ walk'[r].pc = "failed" /\ IsWalk(walk[r]) /\ ~walk[r].aborted =>
             \A e \in Entry : Handled(walk[r], e)]_vars
  <2> SUFFICES ASSUME Inv, Next, NEW r \in Request, walk[r].pc \in Active,
                      walk'[r].pc = "failed", IsWalk(walk[r])
               PROVE  \A e \in Entry : Handled(walk[r], e)
    BY DEF vars
  <2> DEFINE w == walk[r]
  <2>1. w \in Walk /\ WalkInv(w) /\ TypeOK
    BY DEF Inv, TypeOK
  <2>2. GiveUp(r)
    BY <2>1, OnlyGiveUpFails
  <2>3. Candidates(w) = {} /\ (w.second \/ w.first = Entry)
    BY <2>2 DEF GiveUp
  <2>4. PassInv(w)
    BY <2>1 DEF WalkInv
  <2> HIDE DEF w
  <2>5. \A e \in w.todo : Handled(w, e)
    BY <2>1, <2>3, PassedOver DEF w
  <2>6. \A e \in Entry \ w.todo : Handled(w, e)
    BY <2>3, <2>4 DEF PassInv
  <2>7. QED
    BY <2>5, <2>6 DEF w
<1>2. QED
  BY <1>1, Invariance, PTL DEF Spec, ExhaustiveFailure

\* Only the loop head and the end of a backoff send a call to a provider.
LEMMA DispatchedBy ==
  ASSUME TypeOK, Next, NEW q \in Request, walk[q].pc # "wait", walk'[q].pc = "wait"
  PROVE  NextEntry(q) \/ (Wake(q) /\ walk'[q] = [walk[q] EXCEPT !.pc = "wait"]
                          /\ ~(walk[q].aborted \/ (IsWalk(walk[q]) /\ Over(walk[q], walk[q].entry, walk[q].attempt))))
<1>1. walk \in [Request -> Walk] /\ walk[q] \in Walk
  BY DEF TypeOK
<1>2. ~\E a \in Ask : StartWalk(q, a) \/ StartPin(q, a)
  BY <1>1, IdleType DEF StartWalk, StartPin, EnterPass, Idle
<1>3. ~Answer(q)
  BY DEF Answer, Succeed, RetryLater, Fail
<1>4. ~Abandon(q) /\ ~GiveUp(q)
  BY <1>1 DEF Abandon, GiveUp, Finished, Idle
<1>5. ~SecondPass(q)
  BY SecondPassPc
<1>6. ASSUME Wake(q)
      PROVE  walk'[q] = [walk[q] EXCEPT !.pc = "wait"]
             /\ ~(walk[q].aborted \/ (IsWalk(walk[q]) /\ Over(walk[q], walk[q].entry, walk[q].attempt)))
  <2>1. walk'[q] # BackInLoop(walk[q], parked)
    BY <1>1, BackInLoopPc
  <2>2. QED
    BY <1>1, <1>6, <2>1 DEF Wake
<1>7. QED
  BY <1>2, <1>3, <1>4, <1>5, <1>6, OwnStep DEF Proceed

\* What the loop head dispatches.
LEMMA DispatchFacts ==
  ASSUME TypeOK, NEW q \in Request, NextEntry(q)
  PROVE  /\ walk[q].pc = "pass"
         /\ walk'[q].entry \in Candidates(walk[q])
<1>1. walk \in [Request -> Walk] /\ walk[q] \in Walk
  BY DEF TypeOK
<1>2. PICK e \in Foremost(walk[q].ord, Candidates(walk[q])) : walk'[q].entry = e
  BY <1>1 DEF NextEntry, Walk
<1>3. QED
  BY <1>2 DEF Foremost, NextEntry

\* No entry is begun twice by one call, over both passes (chain.ts:150).
THEOREM BegunOnce == Spec => EntryBegunOnce
<1>1. Inv /\ [Next]_vars =>
        [\A r \in Request :
           walk[r].pc = "pass" /\ walk'[r].pc = "wait" => walk'[r].entry \notin walk[r].tried]_vars
  <2> SUFFICES ASSUME Inv, Next, NEW r \in Request, walk[r].pc = "pass", walk'[r].pc = "wait"
               PROVE  walk'[r].entry \notin walk[r].tried
    BY DEF vars
  <2>1. TypeOK /\ WalkInv(walk[r])
    BY DEF Inv
  <2>2. NextEntry(r)
    BY <2>1, DispatchedBy DEF Wake
  <2>3. walk'[r].entry \in walk[r].todo
    BY <2>1, <2>2, DispatchFacts DEF Candidates
  <2>4. QED
    BY <2>1, <2>3 DEF WalkInv, Active
<1>2. QED
  BY <1>1, Invariance, PTL DEF Spec, EntryBegunOnce

\* Past the deadline only the local tail is tried, each of its entries once
\* (chain-routing.ts isOverWalkDeadline()).
THEOREM LateWalk == Spec => LateWalkStaysLocal
<1>1. Inv /\ [Next]_vars =>
        [\A r \in Request :
           walk'[r].pc = "wait" /\ walk[r].pc # "wait" /\ IsWalk(walk[r])
           /\ WalkDeadline > 0 /\ walk[r].elapsed >= WalkDeadline =>
             Local(walk'[r].entry) /\ walk'[r].entry \notin walk[r].tried]_vars
  <2> SUFFICES ASSUME Inv, Next, NEW r \in Request, walk'[r].pc = "wait", walk[r].pc # "wait",
                      IsWalk(walk[r]), WalkDeadline > 0, walk[r].elapsed >= WalkDeadline
               PROVE  Local(walk'[r].entry) /\ walk'[r].entry \notin walk[r].tried
    BY DEF vars
  <2>1. TypeOK /\ WalkInv(walk[r])
    BY DEF Inv
  <2>2. CASE NextEntry(r)
    <3>1. walk'[r].entry \in Candidates(walk[r]) /\ walk[r].pc = "pass"
      BY <2>1, <2>2, DispatchFacts
    <3>2. QED
      BY <2>1, <3>1 DEF Candidates, Over, WalkInv, Active
  <2>3. CASE /\ Wake(r)
             /\ ~(walk[r].aborted \/ (IsWalk(walk[r]) /\ Over(walk[r], walk[r].entry, walk[r].attempt)))
    BY <2>1, <2>3 DEF Wake, Over, WalkInv, Active
  <2>4. QED
    BY <2>1, <2>2, <2>3, DispatchedBy
<1>2. QED
  BY <1>1, Invariance, PTL DEF Spec, LateWalkStaysLocal

\* An answer of request r ends its waiting.
LEMMA AnswerLeavesWait ==
  ASSUME TypeOK, NEW r \in Request, Answer(r)
  PROVE  walk[r].pc = "wait" /\ walk'[r].pc # "wait"
<1>1. walk \in [Request -> Walk] /\ walk[r] \in Walk
  BY DEF TypeOK
<1>2. CASE Succeed(r)
  BY <1>1, <1>2 DEF Succeed, Finished, Idle
<1>3. CASE RetryLater(r)
  BY <1>1, <1>3 DEF RetryLater, Walk
<1>4. CASE \E out \in Outcome : Fail(r, out)
  BY <1>4, FailPc DEF Fail
<1>5. QED
  BY <1>2, <1>3, <1>4 DEF Answer

\* Entries trade places only when a walk indicts one of them for its account
\* or its model, and then only backwards (failure-axes.ts).
THEOREM IndictedMove == Spec => OnlyIndictedMove
<1> DEFINE P == \A x, y \in Entry :
                  <<x, y>> \in before /\ <<x, y>> \notin before' =>
                    \E r \in Request :
                      walk[r].pc = "wait" /\ walk'[r].pc # "wait" /\ IsWalk(walk[r]) /\ Indicts(walk[r], x)
<1>1. Inv /\ [Next]_vars => [P]_vars
  <2> SUFFICES ASSUME Inv, Next, NEW x \in Entry, NEW y \in Entry,
                      <<x, y>> \in before, <<x, y>> \notin before'
               PROVE  \E r \in Request :
                        walk[r].pc = "wait" /\ walk'[r].pc # "wait" /\ IsWalk(walk[r]) /\ Indicts(walk[r], x)
    BY DEF vars
  <2>1. PICK r \in Request : Answer(r)
    BY DEF Next, StartWalk, StartPin, Proceed, Abandon, NextEntry, SecondPass, GiveUp, Wake,
           Abort, Tick
  <2>2. walk[r].pc = "wait" /\ walk'[r].pc # "wait" /\ walk[r].entry \in Entry
    BY <2>1, AnswerLeavesWait DEF Inv, TypeOK, AtEntry
  <2> DEFINE e == walk[r].entry
  <2>3. \A S : before' = MoveToTail(before, S, Entry) => x \in S
    BY DEF MoveToTail
  <2>4. CASE Succeed(r)
    BY <2>2, <2>3, <2>4 DEF Succeed, Indicts
  <2>5. CASE RetryLater(r)
    BY <2>5 DEF RetryLater
  <2>6. ASSUME NEW out \in Outcome, Fail(r, out)
        PROVE  IsWalk(walk[r]) /\ Indicts(walk[r], x)
    <3>1. x \in Demoted(walk[r], out) /\ parked' = ParkedAfter(walk[r], out)
      BY <2>3, <2>6 DEF Fail
    <3>2. IsWalk(walk[r])
      BY <3>1 DEF Demoted
    <3>3. CASE out = "BAD_REQUEST"
      <4>1. x \in ModelAxis(e)
        BY <3>1, <3>2, <3>3, Zenon DEF Demoted
      <4>2. parked' = parked
        BY <3>1, <3>3 DEF ParkedAfter
      <4>3. QED
        BY <3>2, <4>1, <4>2 DEF ModelAxis, Indicts
    <3>4. CASE out # "BAD_REQUEST"
      <4>1. Demoted(walk[r], out) \in {Account(e), {e}, {}}
        BY <3>2, <3>4, Zenon DEF Demoted
      <4>2. x \in Account(e) \cup {e}
        BY <3>1, <4>1
      <4>3. QED
        BY <3>2, <4>2 DEF Account, Indicts
    <3>5. QED
      BY <3>3, <3>4
  <2>7. QED
    BY <2>1, <2>2, <2>4, <2>5, <2>6 DEF Answer
<1>2. QED
  BY <1>1, Invariance, PTL DEF Spec, OnlyIndictedMove

\* A pinned call leaves order and cooldowns of the queue as they are
\* (chain.ts runSingle()).
THEOREM PinsOutside == Spec => PinsLeaveQueue
<1>1. Inv /\ [Next]_vars =>
        [\A r \in Request :
           walk[r].pc = "wait" /\ walk'[r].pc # "wait" /\ ~IsWalk(walk[r]) =>
             UNCHANGED <<before, parked>>]_vars
  <2> SUFFICES ASSUME Inv, Next, NEW r \in Request, walk[r].pc = "wait", walk'[r].pc # "wait",
                      ~IsWalk(walk[r])
               PROVE  UNCHANGED <<before, parked>>
    BY DEF vars
  <2>1. CASE (\E a \in Ask : StartWalk(r, a) \/ StartPin(r, a)) \/ Proceed(r)
    BY <2>1 DEF StartWalk, StartPin, Proceed, Abandon, NextEntry, SecondPass, GiveUp, Wake
  <2>2. CASE Succeed(r) \/ RetryLater(r)
    BY <2>2 DEF Succeed, RetryLater
  <2>3. ASSUME NEW out \in Outcome, Fail(r, out)
        PROVE  UNCHANGED <<before, parked>>
    <3>1. MoveToTail(before, {}, Entry) = before
      BY DEF Inv, TypeOK, IsQueueOf, MoveToTail
    <3>2. Demoted(walk[r], out) = {}
      BY DEF Demoted
    <3>3. ParkedAfter(walk[r], out) = parked
      BY DEF ParkedAfter
    <3>4. QED
      BY <2>3, <3>1, <3>2, <3>3 DEF Fail
  <2>4. QED
    BY <2>1, <2>2, <2>3, OwnStep DEF Answer, Inv
<1>2. QED
  BY <1>1, Invariance, PTL DEF Spec, PinsLeaveQueue

(***************************************************************************)
(* The chain's queue keeps the promise of every queue of the router.       *)
(***************************************************************************)
Line == INSTANCE RotatingOrder
          WITH Items <- Entry, InitialLine <- OrderOf(InitialQueue), line <- before

\* Whatever the walks do, each step of the shared queue moves some entries
\* behind the others and keeps the order on both sides (rotation.ts demote(),
\* failure-axes.ts).
THEOREM ChainRotates == Spec => Line!Rotation
<1>1. Init => Line!LineUp
  BY DEF Init, Line!LineUp
<1>2. ASSUME NEW S \in SUBSET Entry, before' = MoveToTail(before, S, Entry)
      PROVE  Line!MoveSome
  BY <1>2 DEF Line!MoveSome, Line!MoveToTail, MoveToTail
<1>3. TypeOK /\ [Next]_vars => [Line!MoveSome]_before
  <2> SUFFICES ASSUME TypeOK, Next PROVE Line!MoveSome \/ UNCHANGED before
    BY DEF vars
  <2>1. ASSUME NEW r \in Request, Answer(r)
        PROVE  Line!MoveSome \/ UNCHANGED before
    <3>1. walk[r].entry \in Entry
      BY <2>1 DEF TypeOK, AtEntry, Answer, Succeed, RetryLater, Fail
    <3>2. CASE Succeed(r)
      BY <1>2, <3>1, <3>2 DEF Succeed
    <3>3. CASE RetryLater(r)
      BY <3>3 DEF RetryLater
    <3>4. ASSUME NEW out \in Outcome, Fail(r, out)
          PROVE  Line!MoveSome
      <4>1. Demoted(walk[r], out) \in {{}, Account(walk[r].entry), {walk[r].entry},
                                       ModelAxis(walk[r].entry)}
        BY Zenon DEF Demoted
      <4>2. Demoted(walk[r], out) \in SUBSET Entry
        BY <3>1, <4>1 DEF Account, ModelAxis
      <4>3. QED
        BY <1>2, <3>4, <4>2 DEF Fail
    <3>5. QED
      BY <2>1, <3>2, <3>3, <3>4 DEF Answer
  <2>2. QED
    BY <2>1 DEF Next, StartWalk, StartPin, Proceed, Abandon, NextEntry, SecondPass, GiveUp, Wake,
                Abort, Tick
<1>4. QED
  BY <1>1, <1>3, TypeCorrect, PTL DEF Spec, Line!Rotation
=============================================================================
