---------------------------- MODULE UpstreamCall ----------------------------
(***************************************************************************)
(* One call of a provider and the streaming of its answer:                 *)
(* src/providers/fetch.ts postChatCompletion(), what the providers do      *)
(* before it (lmstudio.ts, local.ts, single-key.ts), stream-check.ts, and  *)
(* the pipe to the client (src/gateway/stream.ts, handlers.ts).            *)
(*                                                                         *)
(* The upstream sends, stalls, ends or breaks, the client reads, stops     *)
(* reading or leaves, the timers fire: any order of these is a behaviour.  *)
(* What a reader waits for it takes at once, so an event of the outside    *)
(* happens only when the event loop has nothing left to run (Settled).     *)
(* An event of the stream is a complete SSE event and arrives as a chunk.  *)
(***************************************************************************)
EXTENDS Naturals, Sequences, SequencesExt

CONSTANT MaxEvents   \* bound: events an upstream sends in one stream

ASSUME MaxEventsAssumption == MaxEvents \in Nat

VARIABLES
  kind,        \* the request: streamed or not, and which provider it goes to
  pc,          \* where the call stands
  outcome,     \* ProviderCallResult
  answer,      \* the body of an answer that is not streamed
  timer,       \* the timer of the attempt is armed
  firstTimer,  \* the timer of the first byte is armed
  aborted,     \* the controller of the attempt has aborted
  signal,      \* the caller's signal has aborted
  listening,   \* the attempt hears the caller's signal
  up,          \* the upstream: "idle", "asked", "open", "ended", "broken"
  sent,        \* history: the events the upstream has sent
  held,        \* the chunks read while peeking
  queue,       \* the queue of the rebuilt stream: chunks, each a sequence of events
  rest,        \* the rebuilt stream: "none", "open", "closed", "cancelled"
  gone,        \* the client has disconnected
  delivered    \* the events written to the client

request == <<kind, answer>>
control == <<timer, firstTimer, aborted, signal, listening>>
pipe == <<queue, rest, delivered>>
vars == <<kind, pc, outcome, answer, control, up, sent, held, pipe, gone>>

(***************************************************************************)
(* Bodies and statuses.                                                    *)
(***************************************************************************)
Event == {"content", "empty", "error"}
Deliverable == {"content", "tools", "stop"}
Choice == Deliverable \cup {"thinking"}

\* A body: not JSON, JSON with an error, without choices, or with choices.
Body == [form : {"notJson", "error", "noChoices"}, choices : {{}}]
          \cup [form : {"choices"}, choices : SUBSET Choice]
NotJson == [form |-> "notJson", choices |-> {}]

\* No choice has content or a tool call, none stopped of its own will.
IsEmptyCompletion(choices) == choices \cap Deliverable = {}

\* A 200 that carries an error or no deliverable is one to skip; what cannot be
\* parsed is passed on.
Judge(body) ==
  IF body.form = "error" \/ (body.form = "choices" /\ IsEmptyCompletion(body.choices))
  THEN "transient" ELSE "ok"

Status == {200, 404, 429, 503}
Outcome == {"none", "ok", "keyFailure", "transient", "badRequest"}
Classify(status) == CASE status = 200 -> "none" [] status = 429 -> "keyFailure"
                      [] status = 503 -> "transient" [] status = 404 -> "badRequest"

Init ==
  /\ kind \in [stream : BOOLEAN, provider : {"single", "laptop", "lmstudio"}]
  /\ pc = "begin" /\ outcome = "none" /\ answer = NotJson
  /\ timer = FALSE /\ firstTimer = FALSE
  /\ aborted = FALSE /\ signal = FALSE /\ listening = FALSE
  /\ up = "idle" /\ sent = <<>> /\ held = <<>>
  /\ queue = <<>> /\ rest = "none" /\ gone = FALSE /\ delivered = <<>>

Waiting == {"headers", "text", "errorText", "peek", "drain"}
Attempt == {"begin", "discover"} \cup Waiting
Piping == {"pipe", "blocked"}

\* A pending read or fetch rejects.
Rejected == aborted \/ up = "broken"

\* What the event loop runs before it takes the next event.
Settled ==
  /\ pc # "begin"
  /\ ~(Rejected /\ (pc \in Waiting \/ rest = "open"))
  /\ ~(pc = "pipe" /\ (queue # <<>> \/ rest # "open"))

\* Fault: the timer of the attempt stays armed.
ReturnArmed(result) ==
  /\ outcome' = result /\ firstTimer' = FALSE /\ UNCHANGED timer

\* The finally of postChatCompletion().
Return(result) ==
  /\ outcome' = result
  /\ timer' = FALSE /\ firstTimer' = FALSE

(***************************************************************************)
(* attempt(): up to the request.                                           *)
(***************************************************************************)
\* The timers are armed, and the caller's signal is heard unless it has aborted
\* before: a listener on an aborted signal is never called.
Post ==
  /\ pc' = "headers" /\ up' = "asked"
  /\ timer' = TRUE /\ firstTimer' = (kind.provider = "laptop")
  /\ listening' = ~signal
  /\ UNCHANGED <<request, outcome, aborted, signal, sent, held, pipe, gone>>

\* What is answered without a request.
Refuse(result) ==
  /\ pc' = "done" /\ outcome' = result
  /\ UNCHANGED <<request, control, up, sent, held, pipe, gone>>

Begin ==
  /\ pc = "begin"
  /\ \/ Post
     \/ kind.provider = "laptop" /\ Refuse("badRequest")    \* the prompt is too long
     \/ kind.provider = "lmstudio" /\ Refuse("keyFailure")  \* the cached list is empty

\* The cached list of loaded models is too old.
Discover ==
  /\ pc = "begin" /\ kind.provider = "lmstudio"
  /\ pc' = "discover"
  /\ UNCHANGED <<request, outcome, control, up, sent, held, pipe, gone>>

\* listLoadedModels() ends, by its own timer at the latest.
Discovered ==
  /\ pc = "discover"
  /\ Post \/ Refuse("keyFailure")

\* The headers are in, and with them the status.
Headers(status) ==
  /\ Settled /\ pc = "headers" /\ up = "asked"
  /\ firstTimer' = FALSE /\ up' = "open"
  /\ outcome' = Classify(status)
  /\ pc' = IF status # 200 THEN "errorText" ELSE IF kind.stream THEN "peek" ELSE "text"
  /\ UNCHANGED <<request, timer, aborted, signal, listening, sent, held, pipe, gone>>

(***************************************************************************)
(* The body, read as a whole or peeked at.                                 *)
(***************************************************************************)
Sends(event) ==
  /\ Settled /\ up = "open" /\ Len(sent) < MaxEvents
  /\ sent' = Append(sent, event)

\* Fault: any first event is good enough.
PeekFirst(event) ==
  /\ kind.stream /\ pc = "peek" /\ Sends(event)
  /\ held' = Append(held, event)
  /\ Return("ok") /\ pc' = "pipe" /\ rest' = "open" /\ queue' = <<held'>>
  /\ UNCHANGED <<request, aborted, signal, listening, up, delivered, gone>>

\* Fault: only the chunk with the content goes into the rebuilt stream.
PeekForgetful(event) ==
  /\ kind.stream /\ pc = "peek" /\ Sends(event)
  /\ held' = Append(held, event)
  /\ \/ event = "content" /\ Return("ok") /\ pc' = "pipe" /\ rest' = "open" /\ queue' = <<<<event>>>>
     \/ event = "error" /\ pc' = "drain" /\ UNCHANGED <<outcome, timer, firstTimer, queue, rest>>
     \/ event = "empty" /\ UNCHANGED <<pc, outcome, timer, firstTimer, queue, rest>>
  /\ UNCHANGED <<request, aborted, signal, listening, up, delivered, gone>>

\* checkStreamContent(): the first content hands the stream on with all that
\* was read so far as one chunk, the first error condemns it.
Peek(event) ==
  /\ kind.stream /\ pc = "peek" /\ Sends(event)
  /\ held' = Append(held, event)
  /\ \/ event = "content" /\ Return("ok") /\ pc' = "pipe" /\ rest' = "open" /\ queue' = <<held'>>
     \/ event = "error" /\ pc' = "drain" /\ UNCHANGED <<outcome, timer, firstTimer, queue, rest>>
     \/ event = "empty" /\ UNCHANGED <<pc, outcome, timer, firstTimer, queue, rest>>
  /\ UNCHANGED <<request, aborted, signal, listening, up, delivered, gone>>

\* A condemned stream is read to its end.
Drain(event) ==
  /\ pc = "drain" /\ Sends(event)
  /\ UNCHANGED <<request, pc, outcome, control, up, held, pipe, gone>>

\* A stream that ends before any content has failed.
StreamEnds ==
  /\ Settled /\ pc \in {"peek", "drain"} /\ up = "open"
  /\ up' = "ended" /\ pc' = "done" /\ Return("keyFailure")
  /\ UNCHANGED <<request, aborted, signal, listening, sent, held, pipe, gone>>

TextEnds(body) ==
  /\ Settled /\ pc = "text" /\ up = "open"
  /\ up' = "ended" /\ pc' = "done" /\ answer' = body /\ Return(Judge(body))
  /\ UNCHANGED <<kind, aborted, signal, listening, sent, held, pipe, gone>>

ErrorTextEnds ==
  /\ Settled /\ pc = "errorText" /\ up = "open"
  /\ up' = "ended" /\ pc' = "done" /\ Return(outcome)
  /\ UNCHANGED <<request, aborted, signal, listening, sent, held, pipe, gone>>

\* The connection fails; what was not read yet is lost with it.
Breaks ==
  /\ Settled /\ up \in {"asked", "open"} /\ pc # "done"
  /\ up' = "broken"
  /\ UNCHANGED <<request, pc, outcome, control, sent, held, pipe, gone>>

\* A rejected fetch or peek is TRANSIENT.  safeReadText() makes an empty text
\* of a rejected body: an error keeps its class, a 200 is not JSON.
Fail ==
  /\ Rejected /\ pc \in Waiting
  /\ pc' = "done"
  /\ Return(CASE pc = "text" -> Judge(NotJson) [] pc = "errorText" -> outcome
              [] OTHER -> "transient")
  /\ UNCHANGED <<request, aborted, signal, listening, up, sent, held, pipe, gone>>

TimerFires ==
  /\ Settled /\ timer /\ timer' = FALSE /\ aborted' = TRUE
  /\ UNCHANGED <<request, pc, outcome, firstTimer, signal, listening, up, sent, held, pipe, gone>>

FirstByteTimerFires ==
  /\ Settled /\ firstTimer /\ firstTimer' = FALSE /\ aborted' = TRUE
  /\ UNCHANGED <<request, pc, outcome, timer, signal, listening, up, sent, held, pipe, gone>>

(***************************************************************************)
(* The rebuilt stream and its pipe.  The pump takes what the upstream      *)
(* sends whether or not the client reads; its catch turns an upstream that *)
(* breaks into a clean end, so that the pipe's own catch is never reached. *)
(***************************************************************************)
Pump(event) ==
  /\ rest = "open" /\ Sends(event)
  /\ queue' = Append(queue, <<event>>)
  /\ UNCHANGED <<request, pc, outcome, control, up, held, rest, delivered, gone>>

PumpEnds ==
  /\ rest = "open"
  /\ \/ Rejected /\ UNCHANGED up
     \/ Settled /\ up = "open" /\ up' = "ended"
  /\ rest' = "closed"
  /\ UNCHANGED <<request, pc, outcome, control, sent, held, queue, delivered, gone>>

\* res.write(): the socket takes the chunk, at its limit or not; a response
\* that is destroyed takes nothing and says so by the same FALSE.
Write ==
  /\ pc = "pipe" /\ queue # <<>>
  /\ queue' = Tail(queue)
  /\ delivered' = IF gone THEN delivered ELSE delivered \o Head(queue)
  /\ pc' \in IF gone THEN {"blocked"} ELSE Piping
  /\ UNCHANGED <<request, outcome, control, up, sent, held, rest, gone>>

PipeEnd ==
  /\ pc = "pipe" /\ queue = <<>> /\ rest # "open"
  /\ pc' = "done"
  /\ UNCHANGED <<request, outcome, control, up, sent, held, pipe, gone>>

\* The response emits 'drain'.
Drained ==
  /\ Settled /\ pc = "blocked" /\ ~gone
  /\ pc' = "pipe"
  /\ UNCHANGED <<request, outcome, control, up, sent, held, pipe, gone>>

\* Fault: the wait for 'drain' does not race the end of the client.
LeaveBlocked ==
  /\ Settled /\ ~gone /\ pc # "done"
  /\ gone' = TRUE
  /\ signal' \in {signal, TRUE} /\ aborted' = (aborted \/ (signal' /\ listening))
  /\ IF pc \in Piping THEN rest' = "cancelled" /\ queue' = <<>> ELSE UNCHANGED <<queue, rest>>
  /\ UNCHANGED <<request, pc, outcome, timer, firstTimer, listening, up, sent, held, delivered>>

\* The client disconnects.  The response emits 'close': a pipe that has begun
\* cancels its reader, and ends at once if it waits for 'drain'.  Whether the
\* request, read to its end long ago, emits 'close' too is up to the runtime:
\* then the handler aborts the signal, and the attempt if it listens.
Leave ==
  /\ Settled /\ ~gone /\ pc # "done"
  /\ gone' = TRUE
  /\ signal' \in {signal, TRUE} /\ aborted' = (aborted \/ (signal' /\ listening))
  /\ IF pc \in Piping THEN rest' = "cancelled" /\ queue' = <<>> ELSE UNCHANGED <<queue, rest>>
  /\ pc' = IF pc = "blocked" THEN "done" ELSE pc
  /\ UNCHANGED <<request, outcome, timer, firstTimer, listening, up, sent, held, delivered>>

\* A pipe that began after its client had left: 'drain' never comes, 'close' is
\* over, and an abort that came before is not told again.
Stranded == pc = "blocked" /\ gone

Run == Begin \/ Discover \/ Fail \/ Write \/ PipeEnd \/ (Rejected /\ PumpEnds)

Upstream ==
  \/ \E status \in Status : Headers(status)
  \/ \E event \in Event : Peek(event) \/ Drain(event) \/ Pump(event)
  \/ \E body \in Body : TextEnds(body)
  \/ StreamEnds \/ ErrorTextEnds \/ PumpEnds \/ Breaks

Next ==
  \/ Run \/ Upstream \/ Discovered
  \/ TimerFires \/ FirstByteTimerFires \/ Drained \/ Leave
  \/ (pc = "done" \/ Stranded) /\ UNCHANGED vars

Spec == Init /\ [][Next]_vars

(***************************************************************************)
(* The event loop runs what is ready and its timers fire; the discovery    *)
(* has a timer of its own.  A client reads on or leaves, for good or when  *)
(* TCP gives it up.  Nothing is assumed of the upstream.                   *)
(***************************************************************************)
Fairness == WF_vars(Run) /\ WF_vars(TimerFires) /\ WF_vars(Discovered) /\ WF_vars(Drained \/ Leave)
FairSpec == Spec /\ Fairness
-----------------------------------------------------------------------------
(***************************************************************************)
(* Properties.                                                             *)
(***************************************************************************)
\* Types, and the first-byte timer is armed only while the headers are due.
TypeOK ==
  /\ kind \in [stream : BOOLEAN, provider : {"single", "laptop", "lmstudio"}]
  /\ pc \in Attempt \cup Piping \cup {"done"}
  /\ outcome \in Outcome /\ answer \in Body
  /\ timer \in BOOLEAN /\ firstTimer \in BOOLEAN /\ (firstTimer => pc = "headers")
  /\ aborted \in BOOLEAN /\ signal \in BOOLEAN /\ listening \in BOOLEAN
  /\ up \in {"idle", "asked", "open", "ended", "broken"}
  /\ sent \in Seq(Event) /\ held \in Seq(Event) /\ delivered \in Seq(Event)
  /\ queue \in Seq(Seq(Event)) /\ rest \in {"none", "open", "closed", "cancelled"}
  /\ gone \in BOOLEAN

\* The client gets what the upstream sent, in order and verbatim, and all of it
\* when neither of them failed: peeking, rebuilding, queueing and waiting for
\* 'drain' lose nothing (stream.ts: "bytes verbatim").
Verbatim ==
  /\ IsPrefix(delivered, sent)
  /\ pc = "done" /\ outcome = "ok" /\ kind.stream /\ up = "ended" /\ ~gone => delivered = sent

\* The invariant of the stream: types, and what has come through.
StreamInv == TypeOK /\ Verbatim

\* A stream is handed on only with content in it and no error before that
\* (stream-check.ts: "Peek at a streaming SSE response for actual content").
OkHasContent ==
  outcome = "ok" /\ kind.stream =>
    \E i \in 1..Len(sent) : sent[i] = "content" /\ \A j \in 1..(i - 1) : sent[j] = "empty"

\* A deadline cuts the attempt it was armed for, the first-byte deadline only
\* before the headers, and none of them a stream that was handed on ("a slow
\* answer beats no answer", http-agent.ts).
Deadlines ==
  [][~aborted /\ aborted' /\ signal' = signal =>
       pc \in Waiting /\ (firstTimer' # firstTimer => pc = "headers")]_vars

\* Every attempt ends, whatever the upstream does or does not do (fetch.ts:
\* "timeouts on every outbound I/O").
AttemptEnds == pc \in Attempt ~> pc \notin Attempt

\* A pipe ends after its client has left or its upstream is over (stream.ts:
\* "Backpressure is raced against client disconnect").  The client was there
\* when the pipe began: nothing tells a pipe of a client that left before.
PipeEnds == pc \in Piping /\ (rest = "cancelled" \/ (rest = "closed" /\ ~gone)) ~> pc = "done"

\* A call ends in both of its parts.
CallEnds == AttemptEnds /\ PipeEnds

\* A call whose connection broke or was aborted is never served: "network
\* errors become TRANSIENT" (fetch.ts postChatCompletion()).
NetworkErrorsTransient ==
  [][Rejected /\ pc \in Waiting /\ pc' \notin Waiting => (outcome' # "ok")]_vars
=============================================================================
