# TLA+ models of msrouter

msrouter is two programs in one process and a third beside it. The **gateway**
is an OpenAI-compatible HTTP proxy that walks a queue of providers until one
answers. The **Director** supervises an external campaign worker: it observes
its files, restarts it, rotates a VPN, asks a language model for patches to its
settings and applies the ones a user approves in Slack. The **admin server** is
a separate process with a user store and a web console. Everything is
single-threaded Node, so the hard behaviour is not data races but *what happens
between two awaits*: other requests, timers, messages, disconnects, thrown
errors, crashes.

This directory holds TLA+ specifications of the parts where that matters, the
TLC configurations that check them, and proofs for TLAPS. `PROJECT.json` lists
the components, runs, mutants, source map, findings, hazards and theorems.
Paths below are relative to `src/src/`.

## 1. Inventory

| Component | State it keeps | Operations | What is hard | What makes it correct |
|---|---|---|---|---|
| Provider chain (`providers/chain.ts`, `failure-axes.ts`, `chain-routing.ts`) | shared queue of entries, parking times, success streaks of local providers; per call: mode, pass, snapshot, retries, start time | `handle()` in three modes, two passes, retries with backoff, deadline, mid-walk skipper, failure axes | concurrent walks over one queue that each of them moves and parks; deadline against retries; aborts | a failing walk has tried everything it may try, none twice; a limited account is left alone; a cooling entry is a last resort; only the guilty lose their place; every call ends |
| Rotation queue (`providers/rotation.ts`) | order, parking times | demote, park, eligible, at | loops that move items of the sequence they walk | a demote moves to the tail and changes nothing else |
| OpenRouter key pool (`providers/openrouter.ts`) | queue of keys | slot to key, demote | two queues over the same keys, moved at different times | the pool is in the order of last failures |
| Routing tables (`chain-routing.ts`, `extras.ts`, `gateway/model-list.ts`) | none; built from the environment | build entries, advertise and resolve models | three lists that have to agree | tail last, no entry twice, what is advertised may be named |
| Upstream call and streaming (`providers/fetch.ts`, `stream-check.ts`, `lmstudio.ts`, `local.ts`, `single-key.ts`, `gateway/stream.ts`) | two timers, two abort signals, peeked chunks, rebuilt stream, pipe | post, classify, peek, rebuild, pipe, disconnect | stalls, breaks, slow clients, timers racing answers | attempts and pipes end; bytes arrive once, in order, whole; deadlines cut only their own attempt |
| Idempotency cache (`gateway/idempotency.ts`, `handlers.ts`) | values and promises by key, with times | hit, begin, store, drop, prune | a waiter whose promise is dropped, overwritten, expired or rejected | a waiter is always answered, and with the answer to its key |
| Director tick (`director/loop.ts`, `restart.ts`, `process.ts`, `iterm.ts`, `observe.ts`, `classify.ts`, `vpn.ts`) | checkpoint file and copy, start lock, event offset | six phases of a tick, three ways to restart the worker | a worker that has been launched is not visible yet; throws and crashes between steps; three restarts in one tick | one worker, one restart per tick, one recovery per saved stall, the worker comes back |
| Director decisions and Slack (`loop.ts`, `ledger.ts`, `apply.ts`, `surface.ts`, `slack-poller.ts`) | ledger, overrides file, outbox, poller queue and position | propose, poll, decide, apply, record, flush | failed and repeated deliveries, crashes between apply and record | no letter lost while the outbox can be read, no older patch over a newer one, approved means applied |
| Observation and review (`director/observe.ts`, `classify.ts`, `loop.ts` phases 2 to 6) | event offset, stale flag, hash of the last flaws, reported count | tail, classify, report, ask, save | a log read while it is written, ticks that throw after they published or asked, an offset that moves before its events are dealt with | no event lost, nothing asked twice, the count is published in the end |
| Director agent loop and tools (`agent-loop.ts`, `agent-tools.ts`, `tools.ts`) | one conversation | up to ten steps: ask, call tools, retry, stop | failing calls, tools that throw, aborts in the middle, a language model that decides what comes next | it ends; every tool call has its answer in the conversation |
| Kafka and terminal supervision (`director/iterm.ts`, `kafka.ts`, `scripts/kafka.sh`) | miss counters, back-off, pid files, port, storage | probe, debounce, start, stop, monitor, reinitialise | check-then-act between terminals; probes that lie; a port held by others | recovery only after a confirmed outage; the broker comes back while the campaign is supervised |
| Admin server (`admin/*.ts`, `common/http.ts`, `shared/schema.ts`) | users document and file, chain of saves, login limiter, tokens | login, me, list, create, column, query, profile, password, snapshot | handlers that await between a check and its change; saves that fail after memory changed; crashes between write and rename | what was acknowledged is in the file and stays there |
| Web console (`web/src/auth`, `api`, `dashboard`, `pages`) | token, session, page, table, forms in flight | boot, login, logout, navigate, load, poll, submit | answers that arrive after the page, the session or a newer answer | a created user is listed; no older snapshot replaces a newer one |
| HTTP server, GraphQL, validation (`gateway/server.ts`, ...), configuration and logs (`config/*.ts`), process entry (`main.ts`, `orchestrator.ts`) | none between requests, or read once | - | little | restart and one-tick-at-a-time are part of the Director models; the rest is not modelled |

How they interact: a request enters `handlers.ts`, asks the idempotency cache,
and calls `chain.handle()`; the chain calls a provider, the provider
`postChatCompletion()`; its four kinds of result (OK, KEY_FAILURE, TRANSIENT,
BAD_REQUEST) are what moves the shared queue. A client that disconnects aborts
a signal that all of them hear. The Director calls the same `chain.handle()`
for its own questions, and shares the process with the gateway: what ends the
process ends both. A tick supervises the broker and the worker, then reviews
the campaign's files, asks, applies and saves: `KafkaSupervision`,
`DirectorTick`, `CampaignReview` and `PatchLedger` are that tick seen from four
sides, each with the others' outcomes as inputs. The console is a client of the
admin server like any other.

## 2. Modules

`ProviderChain` EXTENDS `FailoverQueue` (order as a relation) and refines
`RotatingOrder` (the abstract promise: a step moves some items behind the
others and keeps the order among both). `RotationQueue` is the same queue as a
sequence, as the code has it; `KeyPool` EXTENDS it and runs two of them, and
`DemoteLoop` EXTENDS it and runs the loop that moves several items, turn by turn.
The other modules take that loop for one step, which `KeyPoolProofs` justifies.
`MCProviderChain` builds the queues of the runs with `RoutingTable`.
`AdminConsole` EXTENDS `AdminServer` and is composed with it: every console
action that sends or receives is a step of a client of the server.
`AdminServer` implements `DurableStore`, the abstract promise of the users store
(a version of the document is put in the place of the durable one whole, and
only what the durable one has is acknowledged), with `doc` as its memory,
`file` as its durable document and the image of the call that is writing
(`Draft`) as the version being saved.
`MCAdminConsole` gives it a users file and a visitor. `Idempotency`,
`UpstreamCall`, `DirectorTick`, `CampaignReview`, `KafkaSupervision` and
`PatchLedger` stand alone: each takes what the others do to it as its
environment.

**An action is the code between two awaits.** In `ProviderChain`, `KeyPool`,
`Idempotency` and `UpstreamCall` a predicate `Settled` says that nothing is
left to run; answers, requests, timers and disconnects happen only then, since
the event loop runs each callback and its microtasks to completion. In the
Director models the outside acts between any two steps of a tick. In
`AdminServer` every await of a handler is a step boundary. In the console the
effects of a component that was just mounted run before anything else
(`Quiet`).

| Module | Correspondence |
|---|---|
| `ProviderChain` | `before` is the queue, `parked` the time an entry is still parked, `streak` `consecutiveSuccesses`, `walk[r]` the locals of one `handle()`: `todo` is what the loop has left of its snapshot, `rest` the second pass. `StartWalk`/`StartPin` are `handle()` up to the first provider; `NextEntry` one turn of the loop with skipper and deadline; `Succeed`/`Fail`/`RetryLater` what `tryEntry()` does with a result, all of `applyFailureAxes()` included; `Wake` the end of a backoff; `Tick` the clock. Times count down. |
| `RotationQueue` | `Demote` is `splice` and `push`, `DemoteEach` the loops of `failure-axes.ts` over a snapshot |
| `DemoteLoop` | `copy` is `queue.snapshot()`, `turn` how far the loop is, `marked` the items its condition holds for, `line` the queue it moves about |
| `KeyPool` | `keyOrder` is `#keyOrder` of the pool, `slotOrder` the chain's entries, both sequences as in the code. A walk keeps what the loop has left of its snapshot as a set (`todo`) and the order of the snapshot (`ord`), like the walks of `ProviderChain`; the key is looked up at `Dispatch` and demoted at `Refuse` |
| `RoutingTable` | `buildRoutingEntries()`, `extraRoutingEntries()`, `withFree()`, `buildModelList()`, `resolveModel()` as operators on a configuration |
| `UpstreamCall` | `timer`, `firstTimer`, `aborted` (the attempt's controller), `signal` (the caller's) and `listening` are `postChatCompletion()`; `held` the chunks of `checkStreamContent()`; `queue` and `rest` the stream it rebuilds; `pc` in `pipe`/`blocked` the loop of `pipeSseStream()` |
| `Idempotency` | `cache` the Map in insertion order, with promises and values; `Arrive*` what a request finds, `Succeed`/`Fail` the two ends of `handleChat()` |
| `DirectorTick` | `cp`/`saved` the checkpoint in memory and on disk, `pc` the phase, `tick` the locals of `runOnce()`, `lock` the start lock, `coming`/`up` workers launched but not yet seen by pgrep, and seen |
| `PatchLedger` | the ledger as `readApprovedPatches()` reads it, the overrides file, the outbox file, whether `readOutbox()` gets its letters (`readable`) and the copy `flushOutbox()` works on, the poller's position and queue, Slack's channel; the approvals a tick has still to carry out are positions of the list of approvals, the least of them is the one the loop is at (`Current`) |
| `CampaignReview` | `log` and `partial` are `events.jsonl`, `tracker` the count in `tracker.json`, `cp`/`saved` the checkpoint in memory and on disk, `tick` the locals of `runOnce()`, `agent` those of `runDirectorAgent()`, `posted` the last observation on the wire. `TailEvents` is `tailEvents()` with its cap, `Classify` phase 2, `Report` phase 3, `DoNotAsk`/`Propose` phase 4, `AskModel`, `AskForTools`, `CallTool`, `Wake`, `AgentStops` the loop of the agent, `PollSlack` and `Finish` the rest of the tick, `Throw` its catch in the orchestrator |
| `KafkaSupervision` | the counters of `iterm.ts` by their names (an age is the time since), `at` and `phase` where the tick is among its two probes, `supervising` whether the tick comes to the second one (the guards in front of it in `ensureCampaignRunning()`), `shell` the terminals that run `kafka.sh` and how far each is, `broker`, `pidfile`, `storage`, `foreign` what they act on. An action of a shell is what the script does between two commands that may wait |
| `AdminServer` | `doc` is the document `UserStore` holds, `file` users.json, `queue` the promise chain `pending`, `image` what a save has written to its temporary file; `pc` and `held` the place and the locals of each handler, `tries` the limiter, `issued`/`expired` the signed tokens. `Persist` is `persist()` up to its await, `Write`, `Rename`, `Saved`, `SaveFails` are `save()` and `writeAtomically()` |
| `DurableStore` | `memory`, `draft`, `durable` and `told`: what `UserStore` and `save()` promise, without handlers, a queue or a temporary file |
| `AdminConsole` | `token` is localStorage, `status`/`user` the state of `AuthContext`, `page` route and tab, `purpose` the continuation of each call, `live` the calls whose component is still mounted, `busy` the forms in flight, `polls`/`seq`/`snapshot` the sequence numbers of `OverviewTab`; `known` is a history: for each call, whose creations the console had been told of when it sent it |

## 3. What the runs check

| Run | Bounds | Shows |
|---|---|---|
| `ChainSolo` | four entries (one model on two OpenRouter keys, another account, the local tail), one impatient client at a time, one retry, deadline of one tick, alias, explicit model and pin | queue and counters stay well formed; a cooling entry is tried only as a last resort; a walk that fails has dealt with every entry; past the deadline only first attempts of the tail; only the guilty account or model moves; pins leave the queue alone; every call ends. Successive calls inherit the queue, so all orders the code can reach occur. |
| `ChainPair` | two concurrent walks over one account with two models and the tail, no retries | under interleaving: a cooling entry is still a last resort; after a 429 no sibling is tried in that pass; nothing is begun twice. The module's assumptions check that the demote loops equal `MoveToTail` for every queue of up to four items and every subset, and the routing tables for 4800 configurations. |
| `KeyPool` | two walks over three keys | both queues implement `RotatingOrder`; the pool stands in the order of last failures |
| `UpstreamCall` | every kind of request, streams of up to four events | the client gets what was sent, in order, whole; a stream is handed on only with content; deadlines cut only what they are for; attempts and pipes end |
| `UpstreamBroken` (violation) | one event | see finding 2 |
| `IdemCache` | three calls, two keys, room for one entry, TTL of two ticks | bounded cache, a waiter's promise is always settled by somebody, an answer belongs to its key, every call ends |
| `IdemRejection` (violation) | two calls, one key | see finding 1 |
| `DirectorTick` | all settings of autostart and VPN, two faults anywhere | at most one worker, one restart per tick, a saved recovery is not repeated, the worker comes back |
| `PatchLedger` | two patches, two commands, three faults anywhere | nothing that was enqueued is lost before its attempts are used up, unless a letter is added to an outbox that cannot be read; no older patch over a newer one; what is approved gets applied; an outbox that can be read drains |
| `CampaignReview` | two lines, one event a tick, two agent steps with up to two tool calls each, two faults anywhere | no event is passed over except behind the cap; the model is not asked twice about the same; every tool call is answered; log and count are caught up with |
| `KafkaSupervision` | two terminals, with tabs and headless, a back-off of up to two units, one fault | a recovery starts only after two misses a minute apart with no hit between; as long as the Director goes on supervising a campaign, the broker and its monitor come back |
| `AdminConsole` | one tab and somebody else, two calls at a time, an administrator who logs in, creates a user, adds a column, changes the profile, queries and polls, while somebody else changes the password; a users file at the limit of its schema | what was acknowledged is saved for good; the store implements `DurableStore`; a list that comes to be shown has every user whose creation the console had been told of when it asked; no older snapshot over a newer one |

Why the bounds are enough. Two walks suffice for every pairwise interference,
since the code looks at the queue and at its own locals only; three entries are
the fewest with a sibling, a stranger and a tail. One entry of room in the cache
makes every second key prune. Four events allow an empty prelude, the content,
one event queued behind it and one more while the client does not read. Two
faults allow a second failure during the recovery from a first. Ages and
cooldowns count to a ceiling past which the code does not distinguish them. Two
lines with one event a tick make the cap bite; the safety properties of
`CampaignReview` were also checked with three lines and two events a tick (2.5
million states). `KafkaSupervision` was also checked in its third mode, a router
that opens tabs but was not started from one; it needs two shells because the
hazards are of two that do not see each other. Two calls at a time are a pair of
handlers that interleave at every await; that is all TLC needs to show of the
server, since the theorem covers any number. Every bound is a CONSTANT.

Type invariants are checked in one invariant with a named safety part
(`PoolInv`, `CacheInv`, `DirectorInv`, `StreamInv`, `ReviewInv`), and
`QueuesRotate` and `CallEnds` are conjunctions of two properties of one kind.

Every property of every passing run has a mutant: a faulty variant of an
action, such as a bug in that code would give, defined next to the real one and
marked `Fault:`. No specification uses the variants; they show what a property
would catch.

### Fairness

- `ProviderChain`: the event loop runs what is ready, and each provider call
  ends; the second is what `CallEnds` of `UpstreamCall` shows of the timers.
- `UpstreamCall`: ready code runs, armed timers fire, the discovery ends (it
  has its own 2 s timer), a client reads on or leaves. **Nothing** is assumed of
  the upstream: it may stall for ever.
- `Idempotency`: ready code runs, upstream calls end, a process that ended is
  started again.
- `DirectorTick`: the timer keeps firing and every step ends (commands and
  requests have timeouts); a launched worker registers; somebody starts the
  router again. The lock's expiry is strongly fair because the model forbids it
  while a launch is in progress.
- `CampaignReview`: every step of a tick ends and the timer keeps firing. The
  answers of the model are **not** fair: it may fail, talk or ask for tools at
  every step, and the agent loop ends by its own count.
- `KafkaSupervision`: ticks, shells and the broker go on, and a foreign program
  leaves the port in the end. That time passes is strongly fair, because it
  passes only between the steps of a tick. Nothing is assumed of
  `CampaignTurns`: a campaign may stay complete, or unsupervised, for ever, and
  `KafkaComesBack` speaks of behaviours in which it is supervised for good.
- `AdminConsole`: none, and no liveness: a visitor may reload for ever.
- `PatchLedger`: ticks and polls go on. Faults are bounded, so that in the end
  a delivery succeeds. That an outbox which cannot be read becomes readable
  (`Mend`) is **not** fair, since nobody repairs a corrupt file; so
  `OutboxDrains` says nothing of the letters in one.

## 4. Proofs

TLC checks the instances above; TLAPS proves for all values of the constants.

`ProviderChainProofs` proves of `Spec`, from `QueueAssumption` (the initial
queue is a strict linear order of the entries), `ShapeAssumption` (every entry
has a provider and a model, a local provider is not split by key and has one
entry) and `NumberAssumption` (limits and cooldowns are naturals, two of them
positive): type correctness, `AccountLimitRespected`, `CooldownIsLastResort`,
`ExhaustiveFailure`, `EntryBegunOnce`, `LateWalkStaysLocal`, `OnlyIndictedMove`
and `PinsLeaveQueue`, for any number of concurrent requests, any queue, any
retry limit, any cooldown. The argument:

1. *Order lemmas*: `MoveToTail` of a strict linear order on the entries is
   one again, whatever set is moved; `Foremost` of a non-empty set exists.
2. `TypeOK` is inductive with them, one step per action.
3. The walk properties need a strengthening, because `TypeOK` does not say how
   the entries a walk has left, those it has tried and those it has skipped
   relate. `Inv` is `TypeOK` with `WalkInv` of every walk: what is left is
   disjoint from what was tried; every entry behind the loop is `Handled`
   (`PassInv`, one form for each pass); an entry in flight was not skipped, and
   a 429 has skipped its whole account (`SkipInv`). It speaks of the walk's own
   record alone, so the steps of the other walks leave it as it is.
4. Action properties follow from the invariant and the definition of the step.
5. `ChainRotates`: the initial state and every step map to `RotatingOrder`.

`AdminServerProofs` proves that the server implements `DurableStore`
(`StoreIsDurable`) twice, from `AdminAssumption` and `InitialDocAssumption` (the
users file is one that loads): of `ServerSpec`, where any number of clients send
anything (`ServerIsDurable`), and of the composition with the console
(`ConsoleIsDurable`). Of the abstract store alone it proves that an acknowledged
change is in the durable document and stays there (`DurableKeepsAcknowledged`),
so `AcknowledgedIsSaved` follows for both. Which step of the
store a step of the server is (`StoreStep`) depends on where the saves are, and
so needs an invariant. `Inv` says that the chain is exactly the calls
that are saving, each once, and only its first has started (`Chain`); that an
image which is about to be renamed contains its own change and everything the
file already has, and that the file has nothing that memory lacks (`Images`);
and that a call which is `reading` is no change (`Places`). `Chain` is what
makes `Images` stable: with a second write in progress the older image would
be renamed over the newer file. `QuietStep` covers all steps that do not touch
the store at once; `PersistStep`, `WriteStep`, `RenameStep`, `LeaveStep` and
`CrashStep` are the five that do; each lemma gives the invariant and the step of
the store together. A crash loses memory and draft, a failed save gives the draft
up, and an acknowledgement finds its change in the file because its image was
renamed before. `ReceiveStep`, `EffectsStep` and `ActStep`
show that whatever the console does is one of those steps for the server.
`ServerTyped` is type correctness of the server with clients of any kind.

The same module proves of the composition, for any number of calls, users and
polls, `TypeOK`, `CreatedUserListed` and `NewestSnapshot`, from
`ConsoleAssumption` too (what is typed or sent by others is a request the
schemas know, with a token or none). Three things had to be added. `Admitted`: a
call beyond the checks in front of its handler, and one answered with success,
carries a token that was signed, unless it is a login; the handlers and the
console look its subject up long afterwards. `Purposes`: what the console will
do with an answer fits what it asked for, and a call that is not sent has no
purpose; so only the answer to a list becomes a list. `Listed`: whoever the
console knew of when it sent a call is in the users file, and in the answer once
there is one. It rests on `Named`, which says of the names what `Images` says of
the changes: none is lost on the way from memory to the file. A list is read
from memory, after a crash from the file, and both have what the file had when
the list was asked for. `Screen` holds the console's own types, and that no
snapshot is newer than the last poll. With it `NewestSnapshot` follows at once;
it would not if any answer were taken.

`CreatedUserListed` speaks of what was known when the list was **asked for**.
Of what is known when it **arrives** the property is false as soon as a third
call is possible: a creation can be acknowledged, to a form that is gone, between
the moment the server reads the list and the moment it is shown, and
`loadUsers()` does not ask again.

`DirectorProofs` proves `DirectorInv`, `OneRestartPerTick` and
`OneShotOnceSaved` for any threshold, interval and number of faults. One
worker needs `Covered`: a worker that was launched and has not registered is
covered by the start lock or by a router that is down, where a launch follows
and the lock is free there is no worker, and an observe-only router launches
nothing. `RestartsCounted` says that the callers of `restartWorker()` exclude
each other within a tick, `FlagKept` that a flag that was saved is carried
through the tick. The types are proved in parts, since the numbers need
arithmetic and the rest is Boolean.

The same module has the other half of what the Director supervises: it EXTENDS
`KafkaSupervision` too and proves of `KafkaSpec` `KafkaTypeOK` and
`OutageConfirmed` for any number of shells and faults and any back-off, from
`KafkaAssumption`. `Series` ties the counters to the history: misses are counted
just as long as an outage is open, and once the debounce gap has passed since
the first of them the outage is as old. What a shell, the broker or the world
does leaves the counters alone, so only the steps of the probes, a restart of
the router and the passing of time are left to look at.

`CampaignReviewProofs` proves `ReviewInv`, `AskedOnce` and `ToolCallsAnswered`
for a log of any length. `OffsetsPassed` says of both checkpoints, the one in
memory too, that they have passed no event unseen; it rests on `FirstReaches`:
in front of an event that the cap cuts off there are as many as the cap.
`ToolsOpen` says that calls are open only while they are executed, and
`Settled` how what the model was asked last stands in the file, in the
checkpoint of the tick before it asks, and in its locals afterwards.

`IdempotencyProofs` proves `NoOrphanPromise` and `AnswerOfSameKey` for any
number of calls and keys. `CallInv` adds what a waiter may find: the call it
waits for is at work or over, and if it was served then with its own answer,
never one it was handed itself. All steps of one call but the end of the
process are instances of one lemma (`OneCall`), which says what a call may
become, what it may leave in the cache and what justifies its state. `CacheInv`
rests on `Mapped`: the sequence that stands for the order of the Map lists the
keys that have an entry, each once. Lemmas on `Append`, `Tail` and
`RemoveFirst` say what a set, a prune and a drop do to it.

`UpstreamCallProofs` proves `StreamInv` (types and `Verbatim`), `OkHasContent`
and `Deadlines` for streams of any length. That what was delivered is a prefix of
what was sent says nothing of the events on their way. `Flow` does: while
peeking they are all held back; once the stream is rebuilt they are in its queue,
one chunk each, in the order they were sent, but for the first chunk, which has
all that was peeked (`InTransit`). `Phases` ties timers, signals and the kind of
request to the place of the call: a whole answer needs that a stream is only
piped after it was peeked, a deadline that its timer is armed only where it is
waited for.

`KeyPoolProofs` starts with the sequences of the code: `Demote` keeps every item
once and equals `MoveToTail` of one item, for queues of every length
(`DemoteMovesToTail`), and one more turn of the demote loop is `MoveToTail` of one
more item (`LoopTurn`). The whole loop is a specification, `DemoteLoop`:
`LoopInv` says that after each turn the queue is the copy with the matches of the
turns so far moved to the tail, and `LoopMoves` concludes that when the loop is
over it has moved all matches in one step, for queues of every length and every
set of matches. This justifies the relation that `ProviderChain` uses instead of
sequences; that the fold `DemoteEach` equals it is checked by TLC up to four items
(`LoopMovesToTail`). Then it
proves of the pool, for any number of keys and overlapping walks, `PoolInv`
(types and the order of last failures) and `QueuesRotate`, which is the
refinement of `RotatingOrder` by both queues. `PoolIInv` adds that each queue
lists every key once, whatever the walks have in hand (`Lines`), and that a walk
that waits has a slot and a key of the pool (`Walks`): `splice` would remove
nothing, or the wrong key, for one that is not in it.

`PatchLedgerProofs` proves `TypeOK`, `OlderNeverOverwrites` and
`EnqueuedNotLost` for any number of patches, commands and faults.
`OlderNeverOverwrites` needs `Order`: all approvals before the one in the
overrides file are recorded as applied, and while a tick carries out approvals
the ones it has left are exactly those not recorded. So what it applies next is
the one in the file, after a crash between applying and recording, or one behind
it. That a crash cannot put an old approval in front rests on the ledger: it
keeps the place of the first approval when a command is replayed.
`EnqueuedNotLost` needs `Flush`: during the flush each letter of the file is in
what is left to try, in what is kept, delivered, or out of attempts. Its one
exception is in the code: `readOutbox()` takes a missing, corrupt or failing
file for an empty one (`surface.ts:58`, `64-74`). A flush then writes nothing,
and the letters wait; but `enqueueOutbox()` writes the new letter back alone
(`surface.ts:277-280`).

Only model-checked, because fairness and ENABLED are out of the prover's reach:
all liveness (`EveryCallEnds`, `CallEnds`, `WorkerComesBack`,
`ApprovedGetsApplied`, `OutboxDrains`, `KafkaComesBack`, `CatchesUp`). The
statements about `RoutingTable` are about finite configurations and are
evaluated, not proved.

## 5. Findings

1. *A failing call can end the process* (`IdemRejection`). `idem.reject()`
   rejects a promise that nobody awaits unless the call is shared.
2. *A body that breaks is served* (`UpstreamBroken`). `safeReadText()` turns a
   broken or aborted 200 into an empty text, which does not parse, and
   `fetch.ts:170-175` returns OK: no failover, status 200 with an error object
   for the client, and an idempotency key keeps it.

Seen while modelling, without a run of their own:

- **Streams.** An upstream that breaks in mid-stream is swallowed at
  `stream-check.ts:172`: the client sees a clean end, and the error frame that
  `stream.ts:7-9` describes is unreachable (`PumpEnds` after `Breaks`). The
  rebuilt stream has no backpressure, so `stream.ts:5` "memory bounded" does
  not hold for a slow client. A pipe that begins after its client has left
  waits for ever (`Stranded`): `write()` on a destroyed response returns false,
  and all three events of the race are past. One way there that no runtime
  detail can prevent: the client aborts while LM Studio is being discovered,
  before the attempt listens to the signal (`fetch.ts:100`).
- **Disconnects.** `handlers.ts:93` listens for `close` of a request whose body
  has been read to the end; whether it is still emitted then is up to the
  runtime. The model allows both.
- **Key pool.** The slot is mapped to a key at dispatch, after the failure at
  the slot before has moved the queue: with two keys slot 0 tries key 0, which
  moves to the tail, and slot 1 is mapped to key 0 again (`openrouter.ts:76-78`:
  "map each to the healthiest currently-eligible key"). Key 1 is not tried.
- **Chain.** A 404 on one model skips its whole provider for the rest of the
  call: `failure-axes.ts:50-52` compares providers only, though just the one
  model was parked (`failure-axes.ts:23-24`). A 429 on a sibling shortens the
  long disable of a 404 model to the cooldown (`rotation.ts:65`). Pinned
  successes count towards, and reset, the rotation of the local tail
  (`chain.ts:202`). An abort during the last retry demotes a healthy entry.
  `chain-routing.ts:97-99` says OpenRouter first; zai is first.
- **Models.** The additional models of OpenRouter are advertised but not known
  to `resolveModel()`, which sends them on the alias walk (`AdvertisedIsKnown`
  excepts them).
- **Idempotency.** The promise of a call lives 60 s, a walk up to 300 s: a retry
  in between starts a second upstream call.
- **Director.** A finished campaign is restarted: the restart after a VPN
  rotation (`loop.ts:460-477`) does not ask whether it is complete, as the
  recovery of a stall does (`loop.ts:284-286`). `lastVpnRotation` is lost when a
  later phase throws, so the back-off of `loop.ts:455-458` fails; a stall
  recovery fires again when its restart throws before the save; a start and a
  stall restart in the same tick kill the worker and skip the launch, until the
  lock is a minute old; manual starts do not write the lock; while no Playwright
  MCP shows up every tick restarts the worker and observes nothing.
- **Review.** Events behind the 500th of a tick are passed over for good
  (`observe.ts:172`). A tick that dies after it published a count, and before
  it saved, leaves that count on the wire if the tracker goes back to the saved
  one (`loop.ts:660`). An aborted tick saves the offset without having asked
  about the flaws it read; an agent loop whose ten calls failed is not retried,
  since its hash is saved. Duplicates are looked for within one batch only. A
  worker that stays idle is asked about again after every VPN rotation.
- **Agent.** `agent-tools.ts:5` says the read mode has no write access, but
  `callTool()` does not look at the mode: `write_prompt_override` is executed in
  both. A query that is no string throws out of `webSearch()` or the knowledge
  search and ends the tick. `propose()` of `propose.ts`
  is called by its tests only: the agent loop has taken its place.
- **Kafka.** The second probe, and with it all that looks at the monitor, is
  behind the guards of `ensureCampaignRunning()`: with
  `DIRECTOR_AUTOSTART=false` (`loop.ts:292`), with a campaign that is complete
  (`loop.ts:299`), or while every tick ends early after an infrastructure
  restart (`loop.ts:422-445`), a lost monitor is not brought back, nor a broker
  that `kafka.sh status` takes for live, against `loop.ts:393-394` ("it should
  also not stay dead silently") and the "Always ensure Kafka is running" of
  `loop.ts:335`. `kafka.sh status` ends with 0 whether or not the broker runs,
  so a dead one is noticed only through the command's time limit. Two monitors
  are possible (`kafka.sh:371` checks long before it acts). A broker that was
  started elsewhere, without a pid file, and loses its storage is never
  reinitialised, against the intent of `kafka.sh:397-402`.
- **Admin server.** The schema allows 1000 users and 50 columns, and nothing
  checks that before one is added: the file then does not load at the next
  start. A failed save leaves memory ahead of the file, so that a retry is a
  conflict though nothing was saved. Two password changes at once are both
  verified against the old password. A user created after a column lacks it.
- **Console.** Any 401 clears the token, the late answer of an earlier session
  too, and the session is not told: `client.ts:6-7` promises a hook that nobody
  sets. A profile that was loading when the user logged in or out replaces the
  user on arrival (`refresh()`, `api.me()` at start). `loadUsers()` has no
  sequence number, unlike the overview.
- **Decisions.** The letters of an outbox that cannot be read are overwritten by
  the next one that is enqueued (`surface.ts:64-74`, `277-280`), and a failed
  read is enough: "self-healing" (`surface.ts:58`) is at their expense. The
  position in the channel is not kept over a restart, since `setLastTs()` has no
  caller (`slack-poller.ts:61-62`; `loop.ts:358` says the checkpoint tracks it):
  commands are replayed. Drained commands are lost when the ledger cannot be
  written; of a page the newest come first, which reverses the order of
  approvals; a rejection after an approval does not take it back; more than
  twenty messages between two polls are lost.

Hazards that bite at these lines and no property covers are in `PROJECT.json`
with a note. Seven more are only described above, because the model contains
them as behaviour and the code makes no promise they would break: the shortened
disable (`rotation.ts:65`), the promise that expires during its walk
(`idempotency.ts:64`), the lost `lastVpnRotation` (`loop.ts:459`), restarts for
a missing Playwright MCP (`restart.ts:126`), drained commands (`loop.ts:372`),
the rebuilt stream without backpressure (`stream-check.ts:168`) and the count
that stays on the wire (`loop.ts:660`). That of a torn ledger (`ledger.ts:44`)
is in section 6.

## 6. Modelling notes and what is left out

- *ProviderChain*: contents of requests, labels, log lines. A provider's result
  is chosen freely among the classes `classifyAttempt()` has. Entries are those
  of configured providers: the error of a pin on one that is not
  (`chain.ts:72-74`), and the turn that skips one (`chain.ts:170-173`), change
  no state and are left out.
- *UpstreamCall*: an SSE event is a chunk and complete; a tool call counts as
  content. Which loaded model LM Studio resolves to, the prompt estimate, the
  envelope of Cline. The walk around the attempt is `ProviderChain`.
- *DirectorTick*: one tick at a time (the orchestrator's guard). A launched
  worker registers well within the lock's minute, and before the router runs
  again after a crash; in observe-only mode alone the user starts workers. Kafka
  is `KafkaSupervision`, publishing `CampaignReview`; starting Chrome is left
  out. A crash in the middle of a save leaves a checkpoint that reads as a fresh
  one.
- *PatchLedger*: all patches set the same override (the hard case). Slack
  answers newest first with a limit. A delivery may arrive though it is
  reported failed. What a write-mode agent sets by itself, and messages of
  other bots, are left out. An append to the ledger is one step: the end of the
  process does not tear a short write. (The end of the machine may: the next entry
  is then glued to the torn one and both are skipped, which can lose the record of
  an applied patch.) A failing read of the ledger is a tick without approvals, as
  `Throw` gives; that a failing read of the overrides drops the other ones is out
  of a model with one override.
- *CampaignReview*: flawed events look alike, so the hash of the last
  classification is their number; two ticks see a stall at different minutes of
  idleness, so its hash never repeats. The log only grows. Counts of submitted,
  attempted and drifting applications are one count. What tools do outside, and
  how patches are parsed, is left out.
- *KafkaSupervision*: `kafkaProduce()` and the commands of `kafka.sh` that only
  people use. A unit of time is a minute. Why a tick does not come to the second
  probe is `DirectorTick`'s; here `supervising` turns at any time.
- *AdminServer*: a query reads a copy of the rows and is valid or not; the
  probes of the snapshot only read. A body is valid or not. Tokens expire in the
  order they were signed. The limiter counts by name; in the code the key is
  address and lower-cased name (`admin/handlers.ts:59-62`), so a name stands for
  that pair.
- *AdminConsole*: fields before a form is sent, AboutPage, markup. One tab; a
  second one is somebody else.
- *Not modelled*: texts of a language model, GraphQL rendering, validation
  schemas, configuration parsing, log rotation, static
  pages, the shape of the observability snapshot.

## 7. Plan

In this order; each extends what is here.

1. Chain and upstream composed: the attempt of `UpstreamCall` implements the
   `Answer` of `ProviderChain`.
2. The agent loop as a caller of `ProviderChain`, whose walks share the queue
   with the gateway's.
