---------------------------- MODULE Idempotency ----------------------------
(***************************************************************************)
(* The idempotency cache of POST /chat/completions                         *)
(* (src/gateway/idempotency.ts) under concurrent calls of handleChat()     *)
(* (src/gateway/handlers.ts).  Every call of the model carries an          *)
(* Idempotency-Key and every slot of Request is one call.                  *)
(*                                                                         *)
(* An action is the code between two awaits: the lookup of the key, the    *)
(* wait for another call's promise, the wait for the provider chain.       *)
(***************************************************************************)
EXTENDS FiniteSets, Integers, SequencesExt

CONSTANTS
  Request,     \* the calls
  Key,         \* the idempotency keys
  NoCall,
  TTL,         \* IDEM_TTL_MS, in ticks
  MaxEntries   \* IDEM_MAX_ENTRIES

ASSUME IdemAssumption ==
  /\ NoCall \notin Request
  /\ TTL \in Nat \ {0}
  /\ MaxEntries \in Nat \ {0}

VARIABLES
  entry,   \* per key, its entry in idemCache
  line,    \* the keys of idemCache in the order of the Map
  call,    \* per call, how far handleChat() has come
  up       \* the gateway process is running

vars == <<entry, line, call, up>>

Entry == [kind : {"none", "promise", "value"}, by : Request \cup {NoCall}, left : 0..TTL]
Nothing == [kind |-> "none", by |-> NoCall, left |-> 0]

\* upstream: in chain.handle().  waiting: on the promise of the call `on`.
\* lost: the process ended under the call.  from: whose response was sent.
Ended == {"served", "failed", "lost"}
InProgress == {"waiting", "upstream"}
Call ==
  [ pc : InProgress \cup Ended \cup {"new"}, key : Key, stream : BOOLEAN,
    on : Request \cup {NoCall}, from : Request \cup {NoCall} ]

Init ==
  /\ entry = [k \in Key |-> Nothing]
  /\ line = <<>>
  /\ call \in [Request -> { c \in Call : c.pc = "new" /\ c.on = NoCall /\ c.from = NoCall }]
  /\ up = TRUE

Live(k) == entry[k].kind # "none" /\ entry[k].left > 0
Listed == { line[i] : i \in DOMAIN line }

\* A promise is settled once its call is over.
Settled(r) == call[r].pc \in Ended

\* Microtasks first: a call whose promise is settled goes on before the event
\* loop takes the next answer, request or timer.
Quiet == up /\ \A q \in Request : call[q].pc = "waiting" => ~Settled(call[q].on)

\* Fault: idemCache.set() without pruneIdem().
PutUnbounded(k, new) ==
  /\ line' = IF k \in Listed THEN line ELSE Append(line, k)
  /\ entry' = [entry EXCEPT ![k] = new]

\* idemCache.set() keeps the place of a listed key; pruneIdem() drops the
\* oldest key when there is one too many.
Put(k, new) ==
  LET longer == IF k \in Listed THEN line ELSE Append(line, k)
      over == Len(longer) > MaxEntries
  IN  /\ line' = IF over THEN Tail(longer) ELSE longer
      /\ entry' = [x \in Key |-> IF over /\ x = Head(longer) THEN Nothing
                                 ELSE IF x = k THEN new ELSE entry[x]]

\* dropIdem(): whatever stands under the key goes.
Drop(k) ==
  /\ line' = RemoveFirst(line, k)
  /\ entry' = [entry EXCEPT ![k] = Nothing]

Promise(r) == [kind |-> "promise", by |-> r, left |-> TTL]
Value(r) == [kind |-> "value", by |-> r, left |-> TTL]

\* beginIdem(): the call goes to the providers under a promise of its own,
\* whatever stands under its key by now.
Begin(r) ==
  /\ Put(call[r].key, Promise(r))
  /\ call' = [call EXCEPT ![r].pc = "upstream", ![r].on = NoCall]
  /\ UNCHANGED up

\* A streaming call neither looks the key up nor announces itself.
ArriveStream(r) ==
  /\ Quiet /\ call[r].pc = "new" /\ call[r].stream
  /\ call' = [call EXCEPT ![r].pc = "upstream"]
  /\ UNCHANGED <<entry, line, up>>

\* idempotencyHit() finds nothing live under the key.
ArriveFresh(r) ==
  /\ Quiet /\ call[r].pc = "new" /\ ~call[r].stream
  /\ ~Live(call[r].key)
  /\ Begin(r)

\* idempotencyHit() serves the stored response.
ArriveReplay(r) ==
  LET e == entry[call[r].key]
  IN  /\ Quiet /\ call[r].pc = "new" /\ ~call[r].stream
      /\ Live(call[r].key) /\ e.kind = "value"
      /\ call' = [call EXCEPT ![r].pc = "served", ![r].from = e.by]
      /\ UNCHANGED <<entry, line, up>>

\* idempotencyHit() awaits the call that is in flight under the key.
ArriveShare(r) ==
  LET e == entry[call[r].key]
  IN  /\ Quiet /\ call[r].pc = "new" /\ ~call[r].stream
      /\ Live(call[r].key) /\ e.kind = "promise"
      /\ call' = [call EXCEPT ![r].pc = "waiting", ![r].on = e.by]
      /\ UNCHANGED <<entry, line, up>>

\* The awaited promise is resolved: its response is sent.
ShareServed(r) ==
  /\ up /\ call[r].pc = "waiting" /\ call[call[r].on].pc = "served"
  /\ call' = [call EXCEPT ![r].pc = "served", ![r].from = call[r].on, ![r].on = NoCall]
  /\ UNCHANGED <<entry, line, up>>

\* Fault: a call that was let down goes on only if its key is free again.
ShareFailedIfFree(r) ==
  /\ up /\ call[r].pc = "waiting" /\ call[call[r].on].pc = "failed"
  /\ ~Live(call[r].key)
  /\ Begin(r)

\* The awaited promise is rejected: the call runs fresh, without another look
\* into the cache.
ShareFailed(r) ==
  /\ up /\ call[r].pc = "waiting" /\ call[call[r].on].pc = "failed"
  /\ Begin(r)

\* The chain answered: storeIdemResult() of a non-streaming call.
Succeed(r) ==
  /\ Quiet /\ call[r].pc = "upstream"
  /\ call' = [call EXCEPT ![r].pc = "served", ![r].from = r]
  /\ IF call[r].stream THEN UNCHANGED <<entry, line>> ELSE Put(call[r].key, Value(r))
  /\ UNCHANGED up

\* Somebody awaits the promise of r, or r has none.
Heard(r) == call[r].stream \/ \E q \in Request : call[q].pc = "waiting" /\ call[q].on = r

\* Fault: a failed call leaves its promise in the cache.
FailKeep(r) ==
  /\ Quiet /\ call[r].pc = "upstream" /\ Heard(r)
  /\ call' = [call EXCEPT ![r].pc = "failed"]
  /\ UNCHANGED <<entry, line, up>>

\* Fault: the error of a failed call is stored like an answer.
FailStored(r) ==
  /\ Quiet /\ call[r].pc = "upstream" /\ Heard(r)
  /\ call' = [call EXCEPT ![r].pc = "failed"]
  /\ Put(call[r].key, Value(r))
  /\ UNCHANGED up

\* The chain failed, or the client is gone: dropIdem() and the rejection.
Fail(r) ==
  /\ Quiet /\ call[r].pc = "upstream" /\ Heard(r)
  /\ call' = [call EXCEPT ![r].pc = "failed"]
  /\ Drop(call[r].key)
  /\ UNCHANGED up

\* The same without a waiter: nothing handles the rejection of the promise, no
\* unhandledRejection listener is installed, and node ends the process.
FailUnheard(r) ==
  /\ Quiet /\ call[r].pc = "upstream" /\ ~Heard(r)
  /\ call' = [q \in Request |->
                IF q = r THEN [call[q] EXCEPT !.pc = "failed"]
                ELSE IF call[q].pc \in InProgress
                THEN [call[q] EXCEPT !.pc = "lost", !.on = NoCall] ELSE call[q]]
  /\ entry' = [k \in Key |-> Nothing]
  /\ line' = <<>>
  /\ up' = FALSE

\* The operator starts the gateway again: the cache is in memory only.
Restart ==
  /\ ~up /\ up' = TRUE
  /\ UNCHANGED <<entry, line, call>>

\* Time passes; an expired entry keeps its place until it is pruned.
Tick ==
  /\ Quiet
  /\ entry' = [k \in Key |-> [entry[k] EXCEPT !.left = IF @ > 0 THEN @ - 1 ELSE 0]]
  /\ UNCHANGED <<line, call, up>>

Arrive(r) == ArriveStream(r) \/ ArriveFresh(r) \/ ArriveReplay(r) \/ ArriveShare(r)
Proceed(r) == ShareServed(r) \/ ShareFailed(r) \/ Succeed(r) \/ Fail(r) \/ FailUnheard(r)

Next ==
  \/ \E r \in Request : Arrive(r) \/ Proceed(r)
  \/ Restart
  \/ Tick

Spec == Init /\ [][Next]_vars

\* Every chain call ends (ProviderChain.tla, EveryCallEnds), and node runs its
\* microtasks.
FairSpec == Spec /\ \A r \in Request : WF_vars(Proceed(r))
-----------------------------------------------------------------------------
TypeOK ==
  /\ entry \in [Key -> Entry]
  /\ line \in Seq(Key)
  /\ call \in [Request -> Call]
  /\ up \in BOOLEAN

\* The Map lists exactly the keys that have an entry, each once, and never
\* more than IDEM_MAX_ENTRIES: expired entries are only pruned by age, and a
\* call that ends may bring back a key that was pruned (idempotency.ts:7-8).
CacheBounded ==
  /\ Listed = { k \in Key : entry[k].kind # "none" }
  /\ Cardinality(Listed) = Len(line)
  /\ Len(line) <= MaxEntries

\* The invariant of the cache: types, and what stands in it.
CacheInv == TypeOK /\ CacheBounded

\* A promise under a key belongs to a call that is still upstream with that
\* key, and a waiting call waits for one that is upstream or just over: nobody
\* waits for a promise that nobody will settle (idempotency.ts beginIdem(),
\* storeIdemResult(), dropIdem(): the entry may be another call's).
NoOrphanPromise ==
  /\ \A k \in Key : entry[k].kind = "promise" =>
       LET c == call[entry[k].by]
       IN  c.pc = "upstream" /\ c.key = k /\ ~c.stream
  /\ \A q \in Request : call[q].pc = "waiting" =>
       LET c == call[call[q].on]
       IN  c.pc \in {"upstream", "served", "failed"} /\ c.key = call[q].key /\ ~c.stream

\* What is stored or sent under a key is the answer of a successful call with
\* that key.
AnswerOfSameKey ==
  /\ \A k \in Key : entry[k].kind = "value" =>
       LET c == call[entry[k].by] IN c.pc = "served" /\ c.key = k /\ c.from = entry[k].by
  /\ \A q \in Request : call[q].pc = "served" =>
       LET c == call[call[q].from]
       IN  c.pc = "served" /\ c.key = call[q].key /\ c.from = call[q].from

\* Every call ends, whoever fails, disconnects or is pruned around it.
EveryCallEnds ==
  \A r \in Request : call[r].pc \in InProgress ~> call[r].pc \in Ended

\* A failed call ends with its own error and leaves the others in progress
\* alone (handlers.ts:120-121).
FailureStaysOwn ==
  [][\A q \in Request : call[q].pc \in InProgress => call'[q].pc # "lost"]_vars
=============================================================================
