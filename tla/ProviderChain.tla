--------------------------- MODULE ProviderChain ---------------------------
(***************************************************************************)
(* The failover chain of the router: concurrent chat requests walk one     *)
(* shared queue of (provider, model, key) entries, retry in place, demote  *)
(* and park what fails, and give up only when nothing is left              *)
(* (src/providers/chain.ts, chain-routing.ts, failure-axes.ts over         *)
(* rotation.ts).                                                           *)
(*                                                                         *)
(* A request is one asynchronous call of ProviderChain.handle().  An       *)
(* action is the code between two awaits: the event loop interleaves the   *)
(* requests there and nowhere else.  Times are counted down: parked[e] is  *)
(* what is left of an entry's cooldown, elapsed what a walk has used of    *)
(* its deadline, and Tick lets one unit pass for all of them.              *)
(***************************************************************************)
EXTENDS FailoverQueue, FiniteSets

CONSTANTS
  Request,            \* slots for concurrent calls of handle()
  Impatient,          \* the slots whose client may close its connection
  Entry,              \* the routing entries
  InitialQueue,       \* the entries in the order buildRoutingEntries gives
  ProviderOf,         \* the provider of an entry
  ModelOf,            \* the model an entry declares
  PerKey,             \* providers whose failures are entry-scoped
  LocalTail,          \* the providers local, lmstudio, laptop
  ExplicitModel,      \* models a request may name
  Pin,                \* providers a request may pin with direct:
  NoEntry,            \* no entry is being tried
  MaxRetries,         \* MAX_TRANSIENT_RETRIES
  RateLimitCooldown,  \* RATE_LIMIT_COOLDOWN_MS, in ticks; 0 turns parking off
  DisabledCooldown,   \* MODEL_DISABLED_COOLDOWN_MS, in ticks
  WalkDeadline,       \* WALK_DEADLINE_MS, in ticks; 0 turns the deadline off
  SuccessLimit        \* SUCCESS_DEMOTE_LIMIT

Provider == { ProviderOf[e] : e \in Entry }

ASSUME QueueAssumption ==
  /\ IsQueueOf(OrderOf(InitialQueue), Entry)
  /\ NoEntry \notin Entry

ASSUME ShapeAssumption ==
  /\ DOMAIN ProviderOf = Entry
  /\ DOMAIN ModelOf = Entry
  /\ LocalTail \cap PerKey = {}
  /\ \A e, f \in Entry : ProviderOf[e] \in LocalTail /\ ProviderOf[f] = ProviderOf[e] => f = e

ASSUME NumberAssumption ==
  /\ MaxRetries \in Nat
  /\ RateLimitCooldown \in Nat
  /\ DisabledCooldown \in Nat \ {0}
  /\ WalkDeadline \in Nat
  /\ SuccessLimit \in Nat \ {0}

VARIABLES
  before,   \* the order of the shared queue
  parked,   \* per entry, the ticks left of its cooldown; 0 when it is not parked
  streak,   \* per local-tail provider, its consecutive successes
  walk      \* per request, the progress of its call

vars == <<before, parked, streak, walk>>

(***************************************************************************)
(* What a request asks for: an alias (every entry with its own model), an  *)
(* explicit model (every entry with that model) or a pinned provider.      *)
(***************************************************************************)
Alias == [mode |-> "alias"]
Ask == {Alias} \cup [mode : {"model"}, of : ExplicitModel] \cup [mode : {"direct"}, of : Pin]

\* What a provider call can come back with (types.ts classifyAttempt).
Outcome == {"OK", "RATE_LIMITED", "BAD_KEY", "TRANSIENT", "MODEL_GONE", "BAD_REQUEST"}

Idle ==
  [ pc |-> "idle", ask |-> Alias, todo |-> {}, ord |-> {}, first |-> {}, second |-> FALSE,
    preParked |-> {}, skipped |-> {}, entry |-> NoEntry, attempt |-> 0, elapsed |-> 0,
    aborted |-> FALSE, tried |-> {}, limited |-> {} ]

Active == {"pass", "wait", "sleep"}
Done == {"served", "failed", "aborted"}
Free == Done \cup {"idle"}

Walk ==
  [ pc : Active \cup Free, ask : Ask, todo : SUBSET Entry,
    ord : SUBSET (Entry \X Entry), first : SUBSET Entry, second : BOOLEAN,
    preParked : SUBSET Entry, skipped : SUBSET Entry, entry : Entry \cup {NoEntry},
    attempt : 0..MaxRetries, elapsed : 0..WalkDeadline, aborted : BOOLEAN,
    tried : SUBSET Entry, limited : SUBSET Entry ]

IsWalk(w) == w.ask.mode # "direct"
Local(e) == ProviderOf[e] \in LocalTail
Parked(e) == parked[e] > 0

\* The entries that share e's account: what a bad key or a 429 indicts.
Account(e) ==
  IF ProviderOf[e] \in PerKey THEN {e} ELSE { f \in Entry : ProviderOf[f] = ProviderOf[e] }

\* The entries that send e's model through e's provider.
ModelAxis(e) == { f \in Entry : ProviderOf[f] = ProviderOf[e] /\ ModelOf[f] = ModelOf[e] }

\* Fault: eligible() hands out the cooling entries too.
EligibleIgnoringCooldown == Entry

\* RotationQueue.eligible(): what is not parked, or everything.
Eligible ==
  LET live == { e \in Entry : ~Parked(e) } IN IF live = {} THEN Entry ELSE live

\* Fault: a local entry may retry past the deadline.
OverRemoteOnly(w, e, attempt) ==
  WalkDeadline > 0 /\ w.elapsed >= WalkDeadline /\ ~Local(e)

\* Fault: past the deadline the local tail is skipped as well.
OverForAll(w, e, attempt) ==
  WalkDeadline > 0 /\ w.elapsed >= WalkDeadline

\* isOverWalkDeadline(): past the deadline only the first attempt of a local
\* entry is left.
Over(w, e, attempt) ==
  /\ WalkDeadline > 0
  /\ w.elapsed >= WalkDeadline
  /\ Local(e) => attempt > 0

\* The entries of the running pass that the loop would not `continue` over.
Candidates(w) ==
  { e \in w.todo : e \notin w.skipped /\ (IsWalk(w) => ~Over(w, e, 0)) }

\* The slots of a pinned provider: each key once, one otherwise.
PinSlots(p) ==
  LET own == { e \in Entry : ProviderOf[e] = p }
      lead == Foremost(OrderOf(InitialQueue), own)
  IN  IF p \in PerKey THEN { e \in own : \E f \in lead : ModelOf[e] = ModelOf[f] } ELSE lead

\* The call is over: nothing of its walk survives but the way it ended.
Finished(pc) == [Idle EXCEPT !.pc = pc]

(***************************************************************************)
(* Run to completion: the event loop takes the next answer, timer, request *)
(* or close event only when every promise callback it has queued is run.   *)
(***************************************************************************)
Settled == \A r \in Request : walk[r].pc # "pass"

Init ==
  /\ before = OrderOf(InitialQueue)
  /\ parked = [e \in Entry |-> 0]
  /\ streak = [p \in LocalTail |-> 0]
  /\ walk = [r \in Request |-> Idle]

\* Fault: the second pass takes the whole queue again.
EnterPassOverAll(w, S) ==
  LET T == IF w.second THEN Entry ELSE S
  IN  [w EXCEPT !.pc = "pass", !.todo = T, !.ord = Within(before, T),
                !.preParked = { e \in T : Parked(e) }, !.skipped = {}, !.limited = {}]

\* A walk is about to loop over the entries of S: the skipper notes which of
\* them are parked already.
EnterPass(w, S) ==
  [w EXCEPT !.pc = "pass", !.todo = S, !.ord = Within(before, S),
            !.preParked = { e \in S : Parked(e) }, !.skipped = {}, !.limited = {}]

\* handle() of an alias or an explicit model: the first pass takes eligible().
StartWalk(r, a) ==
  /\ Settled
  /\ walk[r].pc \in Free
  /\ a.mode # "direct"
  /\ walk' = [walk EXCEPT ![r] =
                EnterPass([Idle EXCEPT !.ask = a, !.first = Eligible], Eligible)]
  /\ UNCHANGED <<before, parked, streak>>

\* handle() of direct:<provider>: the slots in key order, outside the queue.
StartPin(r, a) ==
  /\ Settled
  /\ walk[r].pc \in Free
  /\ a.mode = "direct"
  /\ walk' = [walk EXCEPT ![r] =
                [Idle EXCEPT !.ask = a, !.pc = "pass", !.todo = PinSlots(a.of),
                             !.ord = Within(OrderOf(InitialQueue), PinSlots(a.of))]]
  /\ UNCHANGED <<before, parked, streak>>

\* The loop head finds the request aborted: NoProviderAvailableError('aborted').
Abandon(r) ==
  /\ walk[r].pc = "pass"
  /\ walk[r].aborted /\ walk[r].todo # {}
  /\ walk' = [walk EXCEPT ![r] = Finished("aborted")]
  /\ UNCHANGED <<before, parked, streak>>

\* The loop `continue`s to the next entry that may be tried and dispatches it.
NextEntry(r) ==
  LET w == walk[r]
  IN  /\ w.pc = "pass" /\ ~w.aborted
      /\ \E e \in Foremost(w.ord, Candidates(w)) :
           walk' = [walk EXCEPT ![r] =
                     [w EXCEPT !.pc = "wait", !.entry = e, !.attempt = 0,
                               !.todo = { f \in @ : <<e, f>> \in w.ord },
                               !.tried = @ \cup {e}]]
      /\ UNCHANGED <<before, parked, streak>>

\* The loop ran out of entries after a first pass that left some entries out:
\* the second pass takes the rest of the queue as it stands now.
SecondPass(r) ==
  LET w == walk[r]
  IN  /\ w.pc = "pass" /\ (w.aborted => w.todo = {})
      /\ Candidates(w) = {}
      /\ IsWalk(w) /\ ~w.second /\ w.first # Entry
      /\ walk' = [walk EXCEPT ![r] = EnterPass([w EXCEPT !.second = TRUE], Entry \ w.first)]
      /\ UNCHANGED <<before, parked, streak>>

\* The loop ran out of entries for good: NoProviderAvailableError.
GiveUp(r) ==
  LET w == walk[r]
  IN  /\ w.pc = "pass" /\ (w.aborted => w.todo = {})
      /\ Candidates(w) = {}
      /\ IsWalk(w) => w.second \/ w.first = Entry
      /\ walk' = [walk EXCEPT ![r] = Finished("failed")]
      /\ UNCHANGED <<before, parked, streak>>

(***************************************************************************)
(* applyFailureAxes(): what a failure does to the shared queue.            *)
(***************************************************************************)
\* dispatchedModel === entry.model: the walk sent the entry its own model.
SentDeclaredModel(w) ==
  w.ask = Alias \/ w.ask = [mode |-> "model", of |-> ModelOf[w.entry]]

\* Fault: a pinned request's failures reach the shared queue.
DemotedByPinsToo(w, out) == IF out = "OK" THEN {} ELSE {w.entry}

\* Fault: one key's bad answer indicts the whole pool.
DemotedWholePool(w, out) ==
  IF ~IsWalk(w) THEN {} ELSE { f \in Entry : ProviderOf[f] = ProviderOf[w.entry] }

\* The entries a failure sends to the back.  A 404 parks and leaves the order.
Demoted(w, out) ==
  IF ~IsWalk(w) THEN {} ELSE
  CASE out \in {"RATE_LIMITED", "BAD_KEY"} -> Account(w.entry)
    [] out = "TRANSIENT" -> {w.entry}
    [] out = "BAD_REQUEST" /\ SentDeclaredModel(w) -> ModelAxis(w.entry)
    [] OTHER -> {}

\* The cooldowns after the failure: park() overwrites what was left.
ParkedAfter(w, out) ==
  CASE IsWalk(w) /\ out = "RATE_LIMITED" /\ RateLimitCooldown > 0 ->
         [e \in Entry |-> IF e \in Account(w.entry) THEN RateLimitCooldown ELSE parked[e]]
    [] IsWalk(w) /\ out = "MODEL_GONE" /\ SentDeclaredModel(w) ->
         [e \in Entry |-> IF e \in ModelAxis(w.entry) THEN DisabledCooldown ELSE parked[e]]
    [] OTHER -> parked

\* tryEntry(): the provider answered.  A success counts towards the rotation
\* of the local tail; a pinned entry is not in the queue, so its demotion
\* finds nothing to move.
Succeed(r) ==
  LET w == walk[r]
      p == ProviderOf[w.entry]
      rotate == Local(w.entry) /\ streak[p] + 1 >= SuccessLimit
  IN  /\ Settled /\ w.pc = "wait"
      /\ walk' = [walk EXCEPT ![r] = Finished("served")]
      /\ streak' = IF ~Local(w.entry) THEN streak
                   ELSE [streak EXCEPT ![p] = IF rotate THEN 0 ELSE @ + 1]
      /\ before' = IF rotate /\ IsWalk(w) THEN MoveToTail(before, {w.entry}, Entry) ELSE before
      /\ UNCHANGED parked

ResetStreak(e) == IF Local(e) THEN [streak EXCEPT ![ProviderOf[e]] = 0] ELSE streak

\* Fault: the retry counter stands still.
RetryForever(r) ==
  LET w == walk[r]
  IN  /\ Settled /\ w.pc = "wait"
      /\ walk' = [walk EXCEPT ![r] = [w EXCEPT !.pc = "sleep"]]
      /\ streak' = ResetStreak(w.entry)
      /\ UNCHANGED <<before, parked>>

\* Fault: one retry too many.
RetryOnceMore(r) ==
  LET w == walk[r]
  IN  /\ Settled /\ w.pc = "wait" /\ w.attempt <= MaxRetries
      /\ walk' = [walk EXCEPT ![r] = [w EXCEPT !.pc = "sleep", !.attempt = @ + 1]]
      /\ streak' = ResetStreak(w.entry)
      /\ UNCHANGED <<before, parked>>

\* tryEntry(): a transient failure with retries left sleeps and tries again.
RetryLater(r) ==
  LET w == walk[r]
  IN  /\ Settled /\ w.pc = "wait" /\ w.attempt < MaxRetries
      /\ walk' = [walk EXCEPT ![r] = [w EXCEPT !.pc = "sleep", !.attempt = @ + 1]]
      /\ streak' = ResetStreak(w.entry)
      /\ UNCHANGED <<before, parked>>

\* Fault: nothing is skipped after a 429.
SkippedNothing(w, cooling) == w.skipped

\* MidWalkParkSkipper.onAttemptFailed(): an entry that is parked now and was
\* not when the pass began takes the rest of its provider with it.
Skipped(w, cooling) ==
  IF /\ IsWalk(w) /\ w.entry \notin w.preParked /\ cooling[w.entry] > 0
     /\ ProviderOf[w.entry] \notin PerKey
  THEN w.skipped \cup (Account(w.entry) \ w.preParked)
  ELSE w.skipped

\* tryEntry() returned without a response: the loop body ends.
BackInLoop(w, cooling) ==
  [w EXCEPT !.pc = "pass", !.entry = NoEntry, !.attempt = 0, !.skipped = Skipped(w, cooling)]

\* The account of a fresh 429 in this pass.
Limited(w, out) ==
  IF IsWalk(w) /\ out = "RATE_LIMITED" /\ RateLimitCooldown > 0 /\ w.entry \notin w.preParked
  THEN w.limited \cup {w.entry} ELSE w.limited

\* tryEntry(): any other failure moves its axis and ends the attempt.
Fail(r, out) ==
  LET w == walk[r]
  IN  /\ Settled /\ w.pc = "wait" /\ out # "OK"
      /\ out = "TRANSIENT" => w.attempt = MaxRetries
      /\ before' = MoveToTail(before, Demoted(w, out), Entry)
      /\ parked' = ParkedAfter(w, out)
      /\ streak' = ResetStreak(w.entry)
      /\ walk' = [walk EXCEPT ![r] =
                    BackInLoop([w EXCEPT !.limited = Limited(w, out)], ParkedAfter(w, out))]

\* The backoff is over: the loop head of tryEntry() runs again.
Wake(r) ==
  LET w == walk[r]
      stop == w.aborted \/ (IsWalk(w) /\ Over(w, w.entry, w.attempt))
  IN  /\ Settled /\ w.pc = "sleep"
      /\ walk' = [walk EXCEPT ![r] = IF stop THEN BackInLoop(w, parked) ELSE [w EXCEPT !.pc = "wait"]]
      /\ UNCHANGED <<before, parked, streak>>

\* The client closes its connection, or the caller's signal fires.
Abort(r) ==
  /\ Settled
  /\ r \in Impatient /\ walk[r].pc \in Active /\ ~walk[r].aborted
  /\ walk' = [walk EXCEPT ![r].aborted = TRUE]
  /\ UNCHANGED <<before, parked, streak>>

\* A unit of time passes for the cooldowns and for the walks in progress.
Tick ==
  /\ Settled
  /\ parked' = [e \in Entry |-> IF parked[e] > 0 THEN parked[e] - 1 ELSE 0]
  /\ walk' = [r \in Request |->
                IF walk[r].pc \in Active /\ walk[r].elapsed < WalkDeadline
                THEN [walk[r] EXCEPT !.elapsed = @ + 1] ELSE walk[r]]
  /\ UNCHANGED <<before, streak>>

Answer(r) == Succeed(r) \/ RetryLater(r) \/ \E out \in Outcome : Fail(r, out)
Proceed(r) == Abandon(r) \/ NextEntry(r) \/ SecondPass(r) \/ GiveUp(r) \/ Wake(r)

Next ==
  \/ \E r \in Request, a \in Ask : StartWalk(r, a) \/ StartPin(r, a)
  \/ \E r \in Request : Proceed(r) \/ Answer(r) \/ Abort(r)
  \/ Tick

Spec == Init /\ [][Next]_vars

(***************************************************************************)
(* The event loop runs what is ready, and every provider call ends: its    *)
(* timers (UPSTREAM_TIMEOUT_MS and the local timeouts) turn a silent       *)
(* upstream into a TRANSIENT answer.                                       *)
(***************************************************************************)
Fairness == \A r \in Request : WF_vars(Proceed(r)) /\ WF_vars(Answer(r))
FairSpec == Spec /\ Fairness
-----------------------------------------------------------------------------
(***************************************************************************)
(* Properties.                                                             *)
(***************************************************************************)

\* A walk that waits or sleeps is at an entry.
AtEntry(w) == w.pc \in {"wait", "sleep"} => w.entry \in Entry

\* Types.  The queue never loses or duplicates an entry: demote() splices an
\* entry out and pushes it back (rotation.ts).
TypeOK ==
  /\ IsQueueOf(before, Entry)
  /\ parked \in [Entry -> Nat]
  /\ streak \in [LocalTail -> 0..SuccessLimit]
  /\ walk \in [Request -> Walk]
  /\ \A r \in Request : AtEntry(walk[r])

\* An entry that the walk w has dealt with: it was tried, or it is remote and
\* the deadline has passed, or another entry of its account was tried.
Handled(w, e) ==
  \/ e \in w.tried
  \/ WalkDeadline > 0 /\ w.elapsed >= WalkDeadline /\ ~Local(e)
  \/ \E f \in w.tried \cap Account(e) : f # e

\* A walk that gives up while its client still waits has dealt with every
\* entry of the queue, whatever concurrent walks demoted and parked meanwhile
\* (chain.ts iterate(): two passes, deadline and skipper together).  For a
\* local entry this means that it was tried: "the tail is always reachable".
ExhaustiveFailure ==
  [][\A r \in Request :
       walk[r].pc \in Active /\ walk'[r].pc = "failed" /\ IsWalk(walk[r]) /\ ~walk[r].aborted =>
         \A e \in Entry : Handled(walk[r], e)]_vars

\* Once an account answered 429 in a pass, no other entry of the account is
\* tried in that pass, except the ones that were parked when it began
\* (failure-axes.ts MidWalkParkSkipper).
AccountLimitRespected ==
  \A r \in Request :
    LET w == walk[r]
    IN  w.pc \in {"wait", "sleep"} /\ IsWalk(w) /\ w.entry \notin w.preParked =>
          \A f \in w.limited : f # w.entry => f \notin Account(w.entry)

\* An entry that was cooling down when the pass began is tried only as a last
\* resort: everything was cooling down, or the walk has dealt with every entry
\* of its first pass (chain.ts iterate(), rotation.ts eligible()).
CooldownIsLastResort ==
  \A r \in Request :
    LET w == walk[r]
    IN  w.pc \in {"wait", "sleep"} /\ IsWalk(w) /\ w.entry \in w.preParked =>
          IF w.second THEN \A e \in w.first : Handled(w, e) ELSE w.preParked = Entry

\* Past the deadline a walk sends only first attempts to the local tail, and
\* never tries an entry twice (chain-routing.ts isOverWalkDeadline()).
LateWalkStaysLocal ==
  [][\A r \in Request :
       walk'[r].pc = "wait" /\ walk[r].pc # "wait" /\ IsWalk(walk[r])
       /\ WalkDeadline > 0 /\ walk[r].elapsed >= WalkDeadline =>
         Local(walk'[r].entry) /\ walk'[r].entry \notin walk[r].tried]_vars

\* Across both passes a walk begins an entry at most once, although other
\* walks reorder and park the queue while it runs (chain.ts:150).
EntryBegunOnce ==
  [][\A r \in Request :
       walk[r].pc = "pass" /\ walk'[r].pc = "wait" => walk'[r].entry \notin walk[r].tried]_vars

\* What the failed attempt of the walk w may send behind other entries: the
\* entry itself; entries of its account; and, where every key is an account of
\* its own, those that send the same model, of a request that parks nobody.
Indicts(w, x) ==
  \/ x = w.entry
  \/ /\ ProviderOf[x] = ProviderOf[w.entry]
     /\ ProviderOf[w.entry] \in PerKey => ModelOf[x] = ModelOf[w.entry] /\ UNCHANGED parked

\* An entry loses its place to another only for its own account's or its own
\* model's failure: the 429 of one key never moves another key
\* (failure-axes.ts propagateProviderAxis(), demoteModelAxis()).
OnlyIndictedMove ==
  [][\A x, y \in Entry :
       <<x, y>> \in before /\ <<x, y>> \notin before' =>
         \E r \in Request :
           walk[r].pc = "wait" /\ walk'[r].pc # "wait" /\ IsWalk(walk[r]) /\ Indicts(walk[r], x)]_vars

\* What a pinned request meets never moves or parks an entry of the shared
\* queue (chain.ts runSingle(); chain.spec.ts "direct: pins do not propagate
\* failures into the walk queue").
PinsLeaveQueue ==
  [][\A r \in Request :
       walk[r].pc = "wait" /\ walk'[r].pc # "wait" /\ ~IsWalk(walk[r]) =>
         UNCHANGED <<before, parked>>]_vars

\* Every request is answered, with a provider's response or an error.
EveryCallEnds ==
  \A r \in Request : walk[r].pc \in Active ~> walk[r].pc \in Done
=============================================================================
