-------------------------- MODULE UpstreamCallProofs --------------------------
(***************************************************************************)
(* What comes through a call of a provider, for streams of any length: the *)
(* client gets what was sent, in order and whole, a stream is handed on    *)
(* only with content in it, and a deadline cuts only its own attempt.      *)
(*                                                                         *)
(* Phases says what the place of the call tells about its timers, signals  *)
(* and outcome; Flow where the events that were sent are by now: held back *)
(* while peeking, and from then on in what was delivered and, in order, in *)
(* the queue of the rebuilt stream (InTransit).                            *)
(***************************************************************************)
EXTENDS UpstreamCall, SequenceTheorems, TLAPS

Scalars ==
  /\ kind \in [stream : BOOLEAN, provider : {"single", "laptop", "lmstudio"}]
  /\ pc \in Attempt \cup Piping \cup {"done"}
  /\ outcome \in Outcome /\ answer \in Body
  /\ timer \in BOOLEAN /\ firstTimer \in BOOLEAN
  /\ aborted \in BOOLEAN /\ signal \in BOOLEAN /\ listening \in BOOLEAN
  /\ up \in {"idle", "asked", "open", "ended", "broken"}
  /\ rest \in {"none", "open", "closed", "cancelled"} /\ gone \in BOOLEAN
Chunks ==
  /\ sent \in Seq(Event) /\ held \in Seq(Event) /\ delivered \in Seq(Event)
  /\ queue \in Seq(Seq(Event))
Types == Scalars /\ Chunks

Phases ==
  /\ timer => pc \in Waiting
  /\ firstTimer => pc = "headers"
  /\ signal /\ listening => aborted
  /\ pc = "text" => ~kind.stream
  /\ pc \in {"peek", "drain"} => kind.stream
  /\ pc = "errorText" => outcome # "ok"
  /\ outcome = "ok" /\ kind.stream => pc \in Piping \cup {"done"}
  /\ pc \in Piping => rest # "none" /\ outcome = "ok" /\ kind.stream
  /\ pc \in Attempt => rest = "none"
  /\ rest = "open" => pc \in Piping
  /\ rest = "cancelled" => gone

\* The events of s are the first ones of t.
Begins(s, t) == Len(s) <= Len(t) /\ \A i \in 1..Len(s) : s[i] = t[i]

\* Behind what was delivered the queue has an event per chunk; before anything was
\* delivered its first chunk has all that was read while peeking.
InTransit ==
  \/ /\ Len(sent) = Len(delivered) + Len(queue)
     /\ \A i \in 1..Len(queue) : queue[i] = <<sent[Len(delivered) + i]>>
  \/ /\ delivered = <<>> /\ Len(queue) > 0 /\ Begins(queue[1], sent)
     /\ Len(sent) = Len(queue[1]) + Len(queue) - 1
     /\ \A i \in 2..Len(queue) : queue[i] = <<sent[Len(queue[1]) + i - 1]>>

Flow ==
  /\ pc \in Attempt \ {"peek", "drain"} => sent = <<>> /\ held = <<>>
  /\ pc = "peek" => held = sent /\ \A i \in 1..Len(sent) : sent[i] = "empty"
  /\ rest = "none" => delivered = <<>> /\ queue = <<>>
  /\ pc \in Piping /\ ~gone => InTransit
  /\ Begins(delivered, sent)
  /\ pc = "done" /\ outcome = "ok" /\ kind.stream /\ ~gone => delivered = sent
  /\ OkHasContent

Inv == Types /\ Phases /\ Flow

-----------------------------------------------------------------------------
(***************************************************************************)
(* Phases.                                                                 *)
(***************************************************************************)
LEMMA InitInv == Init => Inv
<1> SUFFICES ASSUME Init PROVE Inv
  OBVIOUS
<1>1. sent = <<>> /\ held = <<>> /\ delivered = <<>> /\ queue = <<>> /\ Len(sent) = 0
  BY DEF Init
<1>2. Chunks
  BY <1>1 DEF Chunks
<1>3. Scalars
  BY DEF Init, Scalars, Attempt, Outcome, NotJson, Body
<1>4. Phases
  BY DEF Init, Phases, Waiting, Piping
<1>5. Flow
  BY <1>1 DEF Init, Flow, Begins, OkHasContent, Piping
<1>6. QED
  BY <1>2, <1>3, <1>4, <1>5 DEF Inv, Types

LEMMA Outcomes ==
  /\ \A status \in Status : Classify(status) \in Outcome /\ Classify(status) # "ok"
  /\ \A body : Judge(body) \in Outcome
  /\ NotJson \in Body
BY DEF Status, Classify, Outcome, Judge, NotJson, Body

LEMMA PhasesStep == ASSUME Scalars, Phases, [Next]_vars PROVE (Scalars /\ Phases)'
<1> USE DEF Attempt, Waiting, Piping, request, control, pipe
<1>0. kind.stream \in BOOLEAN
  BY DEF Scalars
<1>1. CASE Begin \/ Discovered
  <2>1. CASE Post
    BY <1>1, <2>1 DEF Begin, Discovered, Post, Scalars, Phases
  <2>2. ASSUME NEW result \in {"badRequest", "keyFailure"}, Refuse(result)
        PROVE  (Scalars /\ Phases)'
    BY <1>1, <2>2 DEF Begin, Discovered, Refuse, Scalars, Phases, Outcome
  <2>3. QED
    BY <1>1, <2>1, <2>2 DEF Begin, Discovered
<1>2. CASE Discover
  BY <1>2 DEF Discover, Scalars, Phases
<1>3. CASE Fail
  <2>1. outcome' \in Outcome /\ (outcome' = "ok" => ~kind.stream)
    BY <1>3, Outcomes DEF Fail, Return, Phases, Scalars, Outcome
  <2>2. QED
    BY <1>3, <2>1 DEF Fail, Return, Scalars, Phases
<1>4. CASE Write
  <2>1. pc' \in Piping /\ pc \in Piping /\ UNCHANGED <<request, outcome, control, up, rest, gone>>
    BY <1>4 DEF Write
  <2>2. QED
    BY <2>1 DEF Scalars, Phases
<1>5. CASE PipeEnd
  BY <1>5 DEF PipeEnd, Scalars, Phases
<1>6. CASE PumpEnds
  BY <1>6 DEF PumpEnds, Scalars, Phases
<1>7. ASSUME NEW status \in Status, Headers(status) PROVE (Scalars /\ Phases)'
  <2>1. outcome' \in Outcome /\ outcome' # "ok"
    BY <1>7, Outcomes DEF Headers
  <2>2. QED
    BY <1>0, <1>7, <2>1 DEF Headers, Scalars, Phases
<1>8. ASSUME NEW event \in Event, Peek(event) \/ Drain(event) \/ Pump(event)
      PROVE  (Scalars /\ Phases)'
  <2>1. CASE Drain(event) \/ Pump(event)
    BY <2>1 DEF Drain, Pump, Scalars, Phases
  <2>2. CASE Peek(event)
    <3>1. /\ kind.stream /\ pc = "peek"
          /\ UNCHANGED <<request, aborted, signal, listening, up, gone>>
          /\ \/ /\ pc' = "pipe" /\ rest' = "open" /\ outcome' = "ok"
                /\ timer' = FALSE /\ firstTimer' = FALSE
             \/ pc' \in {"peek", "drain"} /\ UNCHANGED <<outcome, timer, firstTimer, rest>>
      BY <2>2 DEF Peek, Return
    <3>2. timer' \in BOOLEAN /\ firstTimer' \in BOOLEAN
      BY <3>1 DEF Scalars
    <3>3. outcome' \in Outcome /\ rest' \in {"none", "open", "closed", "cancelled"}
          /\ pc' \in Attempt \cup Piping \cup {"done"}
      BY <3>1 DEF Scalars, Outcome
    <3>4. Scalars'
      BY <3>1, <3>2, <3>3 DEF Scalars
    <3>5. Phases'
      BY <3>1 DEF Phases
    <3>6. QED
      BY <3>4, <3>5
  <2>3. QED
    BY <1>8, <2>1, <2>2
<1>9. ASSUME NEW body \in Body, TextEnds(body) PROVE (Scalars /\ Phases)'
  <2>1. outcome' \in Outcome
    BY <1>9, Outcomes DEF TextEnds, Return
  <2>2. QED
    BY <1>9, <2>1 DEF TextEnds, Return, Scalars, Phases
<1>10. CASE StreamEnds \/ ErrorTextEnds
  <2>1. /\ pc' = "done" /\ timer' = FALSE /\ firstTimer' = FALSE /\ up' = "ended"
        /\ outcome' = "keyFailure" \/ (outcome' = outcome /\ pc = "errorText")
        /\ UNCHANGED <<request, aborted, signal, listening, rest, gone>> /\ pc \in Attempt
    BY <1>10 DEF StreamEnds, ErrorTextEnds, Return
  <2>2. Scalars'
    BY <2>1, ZenonT(40) DEF Scalars, Outcome
  <2>3. Phases'
    BY <2>1 DEF Phases
  <2>4. QED
    BY <2>2, <2>3
<1>11. CASE Breaks
  BY <1>11 DEF Breaks, Scalars, Phases
<1>12. CASE TimerFires \/ FirstByteTimerFires
  <2>1. /\ timer' \in BOOLEAN /\ (timer' => timer)
        /\ firstTimer' \in BOOLEAN /\ (firstTimer' => firstTimer) /\ aborted' = TRUE
        /\ UNCHANGED <<request, pc, outcome, signal, listening, up, rest, gone>>
    <3>1. CASE TimerFires
      BY <3>1 DEF TimerFires, Scalars
    <3>2. CASE FirstByteTimerFires
      BY <3>2 DEF FirstByteTimerFires, Scalars
    <3>3. QED
      BY <1>12, <3>1, <3>2
  <2>2. Scalars'
    BY <2>1 DEF Scalars
  <2>3. Phases'
    BY <2>1 DEF Phases
  <2>4. QED
    BY <2>2, <2>3
<1>13. CASE Drained
  BY <1>13 DEF Drained, Scalars, Phases
<1>14. CASE Leave
  <2>1. /\ gone' = TRUE /\ signal' \in {signal, TRUE}
        /\ aborted' \in BOOLEAN /\ (aborted' <=> aborted \/ (signal' /\ listening))
        /\ rest' = (IF pc \in Piping THEN "cancelled" ELSE rest)
        /\ pc' = (IF pc = "blocked" THEN "done" ELSE pc)
        /\ UNCHANGED <<request, outcome, timer, firstTimer, listening, up>>
    BY <1>14 DEF Leave, Scalars
  <2>2. Scalars'
    BY <2>1 DEF Scalars
  <2>3. Phases'
    BY <2>1 DEF Scalars, Phases
  <2>4. QED
    BY <2>2, <2>3
<1>15. CASE UNCHANGED vars
  BY <1>15 DEF vars, Scalars, Phases
<1>16. QED
  BY <1>1, <1>2, <1>3, <1>4, <1>5, <1>6, <1>7, <1>8, <1>9, <1>10, <1>11, <1>12, <1>13, <1>14, <1>15
     DEF Next, Run, Upstream

-----------------------------------------------------------------------------
(***************************************************************************)
(* Flow.                                                                   *)
(***************************************************************************)
LEMMA BeginsAppend ==
  ASSUME NEW s \in Seq(Event), NEW t \in Seq(Event), NEW event \in Event
  PROVE  /\ Begins(s, s)
         /\ Begins(s, t) => Begins(s, Append(t, event))
BY LenProperties, AppendProperties DEF Begins

LEMMA BeginsIsPrefix ==
  ASSUME NEW s \in Seq(Event), NEW t \in Seq(Event), Begins(s, t)
  PROVE  /\ IsPrefix(s, t)
         /\ Len(s) = Len(t) => s = t
<1>1. Len(s) \in Nat /\ Len(t) \in Nat /\ Len(s) <= Len(t)
  BY LenProperties DEF Begins
<1>2. \A i \in 1..Len(t) : t[i] \in Event
  BY ElementOfSeq
<1>3. \A i \in 1..Len(s) : t[i] \in Event
  BY <1>1, <1>2
<1>4. /\ SubSeq(t, 1, Len(s)) \in Seq(Event)
      /\ Len(SubSeq(t, 1, Len(s))) = Len(s)
      /\ \A i \in 1..Len(s) : SubSeq(t, 1, Len(s))[i] = t[i]
  <2>1. /\ SubSeq(t, 1, Len(s)) \in Seq(Event)
        /\ Len(SubSeq(t, 1, Len(s))) = IF 1 <= Len(s) THEN Len(s) - 1 + 1 ELSE 0
        /\ \A i \in 1 .. Len(s) - 1 + 1 : SubSeq(t, 1, Len(s))[i] = t[1 + i - 1]
    BY <1>1, <1>3, SubSeqProperties
  <2>2. QED
    BY <1>1, <2>1
<1>5. s = SubSeq(t, 1, Len(s))
  BY <1>1, <1>4, SeqEqual DEF Begins
<1>6. SubSeq(s, 1, Len(s)) = s /\ SubSeq(t, 1, Len(t)) = t
  BY SubSeqFull
<1>7. QED
  BY <1>1, <1>5, <1>6 DEF IsPrefix

\* Content that came before anything but empty events stays where it is.
LEMMA ContentStays ==
  ASSUME Chunks, NEW event \in Event, sent' = Append(sent, event), UNCHANGED <<outcome, kind>>,
         OkHasContent
  PROVE  OkHasContent'
<1>1. Len(sent) \in Nat /\ Len(sent') = Len(sent) + 1 /\ \A i \in 1..Len(sent) : sent'[i] = sent[i]
  BY LenProperties, AppendProperties DEF Chunks
<1>2. SUFFICES ASSUME outcome = "ok" /\ kind.stream
               PROVE  \E i \in 1..Len(sent') : /\ sent'[i] = "content"
                                               /\ \A j \in 1..(i - 1) : sent'[j] = "empty"
  BY DEF OkHasContent
<1>3. PICK i \in 1..Len(sent) : sent[i] = "content" /\ \A j \in 1..(i - 1) : sent[j] = "empty"
  BY <1>2 DEF OkHasContent
<1>4. i \in 1..Len(sent') /\ sent'[i] = "content" /\ \A j \in 1..(i - 1) : sent'[j] = "empty"
  BY <1>1, <1>3
<1>5. QED
  BY <1>4

\* A step that moves no event.
LEMMA Still ==
  ASSUME Inv, UNCHANGED <<kind, sent, held, queue, delivered>>,
         pc' \in Attempt \ {"peek", "drain"} => pc \in Attempt \ {"peek", "drain"},
         pc' = "peek" => pc \in {"headers", "peek"},
         rest' = "none" => rest = "none",
         pc' \in Piping /\ ~gone' => pc \in Piping /\ ~gone,
         pc' = "done" /\ outcome' = "ok" /\ kind.stream /\ ~gone' =>
           /\ outcome = "ok" /\ ~gone
           /\ (pc = "done" \/ (pc = "pipe" /\ queue = <<>>)),
         outcome' = "ok" /\ kind.stream => outcome = "ok"
  PROVE  Chunks' /\ Flow'
<1>1. Chunks' /\ OkHasContent'
  BY DEF Inv, Types, Chunks, Flow, OkHasContent
<1>2. pc' = "peek" => held = sent /\ \A i \in 1..Len(sent) : sent[i] = "empty"
  <2>1. CASE pc = "headers"
    <3>1. sent = <<>> /\ held = <<>> /\ Len(sent) = 0
      BY <2>1 DEF Inv, Flow, Attempt, Waiting
    <3>2. QED
      BY <3>1
  <2>2. CASE pc = "peek"
    BY <2>2 DEF Inv, Flow
  <2>3. QED
    BY <2>1, <2>2
<1>3. (pc' \in Piping /\ ~gone') => InTransit'
  BY DEF Inv, Flow, InTransit, Begins
<1>4. Begins(delivered, sent)'
  BY DEF Inv, Flow, Begins
<1>5. (pc' = "done" /\ outcome' = "ok" /\ kind.stream /\ ~gone') => delivered = sent
  <2>1. CASE pc = "done"
    BY <2>1 DEF Inv, Flow
  <2>2. CASE pc = "pipe" /\ queue = <<>> /\ ~gone
    <3>1. InTransit /\ Len(queue) = 0 /\ Len(delivered) \in Nat /\ Len(sent) \in Nat
      BY <2>2, LenProperties DEF Inv, Types, Chunks, Flow, Piping
    <3>2. Len(sent) = Len(delivered)
      BY <3>1 DEF InTransit
    <3>3. QED
      BY <3>2, BeginsIsPrefix DEF Inv, Types, Chunks, Flow
  <2>3. QED
    BY <2>1, <2>2
<1>6. QED
  BY <1>1, <1>2, <1>3, <1>4, <1>5 DEF Inv, Flow

LEMMA PeekFlow == ASSUME Inv, NEW event \in Event, Peek(event) PROVE Chunks' /\ Flow'
<1>1. /\ pc = "peek" /\ kind.stream /\ UNCHANGED <<kind, delivered, gone>>
      /\ held' = Append(held, event) /\ sent' = Append(sent, event) /\ held = sent
      /\ delivered = <<>> /\ queue = <<>> /\ rest = "none"
      /\ \A i \in 1..Len(sent) : sent[i] = "empty"
  BY DEF Peek, Sends, Inv, Flow, Phases, Attempt, Waiting, request
<1>2. sent \in Seq(Event) /\ delivered \in Seq(Event) /\ Len(sent) \in Nat
  BY LenProperties DEF Inv, Types, Chunks
<1>3. /\ sent' \in Seq(Event) /\ Len(sent') = Len(sent) + 1 /\ held' = sent'
      /\ \A i \in 1..Len(sent) : sent'[i] = sent[i] /\ sent'[Len(sent) + 1] = event
  BY <1>1, <1>2, AppendProperties
<1>4. Begins(delivered, sent)' /\ Begins(sent', sent')
  BY <1>1, <1>2, <1>3, BeginsAppend DEF Inv, Flow
<1>5. CASE event = "content" /\ Return("ok") /\ pc' = "pipe" /\ rest' = "open" /\ queue' = <<held'>>
  <2>1. queue' \in Seq(Seq(Event)) /\ Len(queue') = 1 /\ queue'[1] = sent'
    BY <1>3, <1>5
  <2>2. InTransit'
    BY <1>1, <1>2, <1>3, <1>4, <2>1 DEF InTransit
  <2>3. OkHasContent'
    <3>1. sent'[Len(sent')] = "content" /\ Len(sent') \in 1..Len(sent')
      BY <1>2, <1>3, <1>5, AppendProperties, <1>1
    <3>2. \A j \in 1..(Len(sent') - 1) : sent'[j] = "empty"
      BY <1>1, <1>2, <1>3
    <3>3. QED
      BY <3>1, <3>2 DEF OkHasContent
  <2>4. QED
    BY <1>1, <1>3, <1>4, <1>5, <2>1, <2>2, <2>3 DEF Flow, Chunks, Attempt, Waiting
<1>6. CASE event = "error" /\ pc' = "drain" /\ UNCHANGED <<outcome, timer, firstTimer, queue, rest>>
  BY <1>1, <1>2, <1>3, <1>4, <1>6, ContentStays
     DEF Inv, Types, Chunks, Flow, Attempt, Waiting, Piping
<1>7. CASE event = "empty" /\ UNCHANGED <<pc, outcome, timer, firstTimer, queue, rest>>
  <2>1. \A i \in 1..Len(sent') : sent'[i] = "empty"
    <3>1. sent'[Len(sent) + 1] = "empty"
      BY <1>1, <1>2, <1>7, AppendProperties
    <3>2. QED
      BY <1>1, <1>2, <1>3, <3>1
  <2>2. QED
    BY <1>1, <1>2, <1>3, <1>4, <1>7, <2>1, ContentStays
       DEF Inv, Types, Chunks, Flow, Attempt, Waiting, Piping
<1>8. QED
  BY <1>5, <1>6, <1>7 DEF Peek

LEMMA DrainFlow == ASSUME Inv, NEW event \in Event, Drain(event) PROVE Chunks' /\ Flow'
<1>1. /\ pc = "drain" /\ sent' = Append(sent, event)
      /\ UNCHANGED <<kind, pc, outcome, held, queue, delivered, rest, gone>>
  BY DEF Drain, Sends, request, pipe
<1>2. sent' \in Seq(Event) /\ Begins(delivered, sent)'
  BY <1>1, BeginsAppend, AppendProperties DEF Inv, Types, Chunks, Flow
<1>3. QED
  BY <1>1, <1>2, ContentStays DEF Inv, Types, Chunks, Flow, Attempt, Waiting, Piping

LEMMA PumpFlow == ASSUME Inv, NEW event \in Event, Pump(event) PROVE Chunks' /\ Flow'
<1>1. /\ pc \in Piping /\ rest = "open" /\ sent' = Append(sent, event)
      /\ queue' = Append(queue, <<event>>)
      /\ UNCHANGED <<kind, pc, outcome, held, delivered, rest, gone>>
  BY DEF Pump, Sends, request, Inv, Phases
<1>2. /\ sent \in Seq(Event) /\ delivered \in Seq(Event) /\ queue \in Seq(Seq(Event))
      /\ <<event>> \in Seq(Event) /\ Len(sent) \in Nat /\ Len(queue) \in Nat
      /\ Len(delivered) \in Nat
  BY LenProperties DEF Inv, Types, Chunks
<1>3. /\ sent' \in Seq(Event) /\ Len(sent') = Len(sent) + 1 /\ sent'[Len(sent) + 1] = event
      /\ \A i \in 1..Len(sent) : sent'[i] = sent[i]
  BY <1>1, <1>2, AppendProperties
<1>4. /\ queue' \in Seq(Seq(Event)) /\ Len(queue') = Len(queue) + 1
      /\ queue'[Len(queue) + 1] = <<event>>
      /\ \A i \in 1..Len(queue) : queue'[i] = queue[i]
  BY <1>1, <1>2, AppendProperties
<1>5. Begins(delivered, sent)'
  BY <1>1, <1>2, BeginsAppend DEF Inv, Flow
<1>6. ASSUME ~gone PROVE InTransit'
  <2>1. InTransit
    BY <1>1, <1>6 DEF Inv, Flow
  <2>2. CASE /\ Len(sent) = Len(delivered) + Len(queue)
             /\ \A i \in 1..Len(queue) : queue[i] = <<sent[Len(delivered) + i]>>
    <3>1. \A i \in 1..Len(queue') : queue'[i] = <<sent'[Len(delivered) + i]>>
      <4> SUFFICES ASSUME NEW i \in 1..Len(queue') PROVE queue'[i] = <<sent'[Len(delivered) + i]>>
        OBVIOUS
      <4>1. CASE i = Len(queue) + 1
        BY <1>2, <1>3, <1>4, <2>2, <4>1
      <4>2. CASE i \in 1..Len(queue)
        <5>1. queue'[i] = queue[i] /\ queue[i] = <<sent[Len(delivered) + i]>>
          BY <1>4, <2>2, <4>2
        <5>2. Len(delivered) + i \in 1..Len(sent)
          BY <1>2, <2>2, <4>2
        <5>3. QED
          BY <1>3, <5>1, <5>2
      <4>3. QED
        BY <1>2, <1>4, <4>1, <4>2
    <3>2. delivered' = delivered /\ Len(sent') = Len(delivered') + Len(queue')
      BY <1>1, <1>2, <1>3, <1>4, <2>2
    <3>3. QED
      BY <3>1, <3>2 DEF InTransit
  <2>3. CASE /\ delivered = <<>> /\ Len(queue) > 0 /\ Begins(queue[1], sent)
             /\ Len(sent) = Len(queue[1]) + Len(queue) - 1
             /\ \A i \in 2..Len(queue) : queue[i] = <<sent[Len(queue[1]) + i - 1]>>
    <3>1. queue'[1] = queue[1] /\ queue[1] \in Seq(Event) /\ Len(queue[1]) \in Nat
      BY <1>2, <1>4, <2>3, ElementOfSeq, LenProperties
    <3>2. Begins(queue'[1], sent')
      BY <1>1, <1>2, <2>3, <3>1, BeginsAppend
    <3>3. \A i \in 2..Len(queue') : queue'[i] = <<sent'[Len(queue'[1]) + i - 1]>>
      <4> SUFFICES ASSUME NEW i \in 2..Len(queue')
                   PROVE queue'[i] = <<sent'[Len(queue[1]) + i - 1]>>
        BY <3>1
      <4>1. CASE i = Len(queue) + 1
        BY <1>2, <1>3, <1>4, <2>3, <3>1, <4>1, SMTT(30)
      <4>2. CASE i \in 2..Len(queue)
        <5>1. queue'[i] = queue[i] /\ queue[i] = <<sent[Len(queue[1]) + i - 1]>>
          BY <1>4, <2>3, <4>2, SMTT(30)
        <5>2. Len(queue[1]) + i - 1 \in 1..Len(sent)
          BY <1>2, <2>3, <3>1, <4>2
        <5>3. QED
          BY <1>3, <5>1, <5>2
      <4>3. QED
        BY <1>2, <1>4, <4>1, <4>2
    <3>4. Len(queue') > 0 /\ Len(sent') = Len(queue'[1]) + Len(queue') - 1
      BY <1>2, <1>3, <1>4, <2>3, <3>1
    <3>5. QED
      BY <1>1, <2>3, <3>2, <3>3, <3>4 DEF InTransit
  <2>4. QED
    BY <2>1, <2>2, <2>3 DEF InTransit
<1>7. OkHasContent' /\ Chunks'
  BY <1>1, <1>2, <1>3, <1>4, ContentStays DEF Inv, Types, Chunks, Flow
<1>8. QED
  BY <1>1, <1>5, <1>6, <1>7 DEF Flow, Attempt, Waiting, Piping

LEMMA WriteFlow == ASSUME Inv, Write PROVE Chunks' /\ Flow'
<1>1. /\ pc = "pipe" /\ pc' \in Piping /\ queue # <<>> /\ queue' = Tail(queue)
      /\ delivered' = (IF gone THEN delivered ELSE delivered \o Head(queue))
      /\ UNCHANGED <<kind, outcome, sent, held, rest, gone>> /\ rest # "none"
  BY DEF Write, Piping, request, Inv, Phases
<1>2. /\ sent \in Seq(Event) /\ held \in Seq(Event) /\ delivered \in Seq(Event)
      /\ queue \in Seq(Seq(Event))
      /\ Len(sent) \in Nat /\ Len(queue) \in Nat /\ Len(delivered) \in Nat
  BY LenProperties DEF Inv, Types, Chunks
<1>3. /\ queue' \in Seq(Seq(Event)) /\ Head(queue) = queue[1] /\ Head(queue) \in Seq(Event)
      /\ Len(queue') = Len(queue) - 1 /\ \A i \in 1..Len(queue') : queue'[i] = queue[i + 1]
  BY <1>1, <1>2, HeadTailProperties
<1>4. delivered' \in Seq(Event)
  BY <1>1, <1>2, <1>3, ConcatProperties
<1>5. Len(queue) > 0 /\ Len(queue[1]) \in Nat
  BY <1>1, <1>2, <1>3, EmptySeq, LenProperties
<1>6. ASSUME ~gone PROVE InTransit' /\ Begins(delivered, sent)'
  <2>1. /\ Len(delivered') = Len(delivered) + Len(queue[1])
        /\ \A i \in 1..Len(delivered') :
             delivered'[i] = IF i <= Len(delivered) THEN delivered[i]
                             ELSE queue[1][i - Len(delivered)]
    BY <1>1, <1>2, <1>3, <1>6, ConcatProperties
  <2>2. InTransit /\ Begins(delivered, sent)
    BY <1>1, <1>6 DEF Inv, Flow, Piping
  <2>3. CASE /\ Len(sent) = Len(delivered) + Len(queue)
             /\ \A i \in 1..Len(queue) : queue[i] = <<sent[Len(delivered) + i]>>
    <3>0. queue[1] = <<sent[Len(delivered) + 1]>>
      BY <1>2, <1>5, <2>3
    <3>1. Len(queue[1]) = 1 /\ queue[1][1] = sent[Len(delivered) + 1]
      BY <3>0
    <3>2. Len(sent) = Len(delivered') + Len(queue')
      BY <1>2, <1>3, <2>1, <2>3, <3>1
    <3>3. \A i \in 1..Len(queue') : queue'[i] = <<sent[Len(delivered') + i]>>
      <4> SUFFICES ASSUME NEW i \in 1..Len(queue') PROVE queue'[i] = <<sent[Len(delivered') + i]>>
        OBVIOUS
      <4>1. i + 1 \in 1..Len(queue) /\ Len(delivered) + (i + 1) = Len(delivered') + i
        BY <1>2, <1>3, <2>1, <3>1
      <4>2. queue[i + 1] = <<sent[Len(delivered) + (i + 1)]>>
        BY <2>3, <4>1
      <4>3. QED
        BY <1>3, <4>1, <4>2
    <3>4. Begins(delivered', sent)
      <4>1. Len(delivered') = Len(delivered) + 1 /\ Len(delivered') <= Len(sent)
        BY <1>2, <1>5, <2>1, <2>3, <3>1
      <4>2. ASSUME NEW i \in 1..Len(delivered') PROVE delivered'[i] = sent[i]
        <5>1. CASE i <= Len(delivered)
          BY <1>2, <2>1, <2>2, <5>1 DEF Begins
        <5>2. CASE i = Len(delivered) + 1
          BY <1>2, <2>1, <3>1, <4>1, <5>2
        <5>3. QED
          BY <1>2, <4>1, <5>1, <5>2
      <4>3. QED
        BY <4>1, <4>2 DEF Begins
    <3>5. QED
      BY <1>1, <3>2, <3>3, <3>4 DEF InTransit
  <2>4. CASE /\ delivered = <<>> /\ Len(queue) > 0 /\ Begins(queue[1], sent)
             /\ Len(sent) = Len(queue[1]) + Len(queue) - 1
             /\ \A i \in 2..Len(queue) : queue[i] = <<sent[Len(queue[1]) + i - 1]>>
    <3>1. Len(delivered) = 0 /\ Len(delivered') = Len(queue[1])
      BY <1>5, <2>1, <2>4
    <3>2. \A i \in 1..Len(delivered') : delivered'[i] = queue[1][i]
      BY <1>5, <2>1, <3>1
    <3>3. Begins(delivered', sent)
      BY <2>4, <3>1, <3>2 DEF Begins
    <3>4. Len(sent) = Len(delivered') + Len(queue')
      BY <1>2, <1>3, <1>5, <2>4, <3>1
    <3>5. \A i \in 1..Len(queue') : queue'[i] = <<sent[Len(delivered') + i]>>
      <4> SUFFICES ASSUME NEW i \in 1..Len(queue') PROVE queue'[i] = <<sent[Len(delivered') + i]>>
        OBVIOUS
      <4>0. i \in Nat /\ i >= 1 /\ i <= Len(queue) - 1
        BY <1>2, <1>3
      <4>1. i + 1 \in 2..Len(queue) /\ Len(queue[1]) + (i + 1) - 1 = Len(delivered') + i
        BY <1>2, <1>5, <3>1, <4>0
      <4>2. queue[i + 1] = <<sent[Len(queue[1]) + (i + 1) - 1]>>
        BY <2>4, <4>1
      <4>3. QED
        BY <1>3, <4>1, <4>2
    <3>6. QED
      BY <1>1, <3>3, <3>4, <3>5 DEF InTransit
  <2>5. QED
    BY <2>2, <2>3, <2>4 DEF InTransit
<1>7. gone => Begins(delivered, sent)'
  BY <1>1 DEF Inv, Flow, Begins
<1>8. OkHasContent' /\ Chunks'
  BY <1>1, <1>2, <1>3, <1>4 DEF Inv, Flow, Chunks, OkHasContent
<1>9. QED
  BY <1>1, <1>6, <1>7, <1>8 DEF Flow, Attempt, Waiting, Piping

LEMMA LeaveFlow == ASSUME Inv, Leave PROVE Chunks' /\ Flow'
<1>1. /\ gone' /\ UNCHANGED <<kind, outcome, sent, held, delivered>> /\ ~gone
      /\ pc' = (IF pc = "blocked" THEN "done" ELSE pc)
      /\ queue' = (IF pc \in Piping THEN <<>> ELSE queue)
      /\ rest' = (IF pc \in Piping THEN "cancelled" ELSE rest)
  BY DEF Leave, request
<1>2. Chunks'
  BY <1>1 DEF Inv, Types, Chunks
<1>3. OkHasContent' /\ Begins(delivered, sent)'
  BY <1>1 DEF Inv, Flow, OkHasContent, Begins
<1>4. QED
  BY <1>1, <1>2, <1>3 DEF Inv, Flow, Attempt, Waiting, Piping

LEMMA FlowStep == ASSUME Inv, [Next]_vars PROVE Chunks' /\ Flow'
<1> USE DEF Attempt, Waiting, Piping, request, control, pipe
<1>0. /\ pc \in Piping => outcome = "ok" /\ rest # "none"
      /\ outcome = "ok" /\ kind.stream => pc \in Piping \cup {"done"}
      /\ pc = "text" => ~kind.stream
      /\ pc = "errorText" => outcome # "ok"
  BY DEF Inv, Phases
<1>1. CASE Begin \/ Discovered
  <2>1. CASE Post
    BY <1>0, <1>1, <2>1, Still DEF Begin, Discovered, Post
  <2>2. ASSUME NEW result \in {"badRequest", "keyFailure"}, Refuse(result)
        PROVE  Chunks' /\ Flow'
    BY <1>0, <1>1, <2>2, Still DEF Begin, Discovered, Refuse
  <2>3. QED
    BY <1>1, <2>1, <2>2 DEF Begin, Discovered
<1>2. CASE Discover
  BY <1>0, <1>2, Still DEF Discover
<1>3. CASE Fail
  <2>1. /\ pc \in Waiting /\ pc' = "done" /\ UNCHANGED <<kind, sent, held, pipe, gone>>
        /\ ~(outcome' = "ok" /\ kind.stream)
    BY <1>0, <1>3 DEF Fail, Return
  <2>2. QED
    BY <2>1, Still
<1>4. CASE Write
  BY <1>4, WriteFlow
<1>5. CASE PipeEnd
  BY <1>0, <1>5, Still DEF PipeEnd
<1>6. CASE PumpEnds
  BY <1>0, <1>6, Still DEF PumpEnds
<1>7. ASSUME NEW status \in Status, Headers(status) PROVE Chunks' /\ Flow'
  BY <1>0, <1>7, Outcomes, Still DEF Headers
<1>8. ASSUME NEW event \in Event, Peek(event) \/ Drain(event) \/ Pump(event)
      PROVE  Chunks' /\ Flow'
  BY <1>8, PeekFlow, DrainFlow, PumpFlow
<1>9. ASSUME NEW body \in Body, TextEnds(body) PROVE Chunks' /\ Flow'
  BY <1>0, <1>9, Still DEF TextEnds, Return
<1>10. CASE StreamEnds \/ ErrorTextEnds
  BY <1>0, <1>10, Still DEF StreamEnds, ErrorTextEnds, Return
<1>11. CASE Breaks
  BY <1>0, <1>11, Still DEF Breaks
<1>12. CASE TimerFires \/ FirstByteTimerFires
  BY <1>0, <1>12, Still DEF TimerFires, FirstByteTimerFires
<1>13. CASE Drained
  BY <1>0, <1>13, Still DEF Drained
<1>14. CASE Leave
  BY <1>14, LeaveFlow
<1>15. CASE UNCHANGED vars
  BY <1>0, <1>15, Still DEF vars
<1>16. QED
  BY <1>1, <1>2, <1>3, <1>4, <1>5, <1>6, <1>7, <1>8, <1>9, <1>10, <1>11, <1>12, <1>13, <1>14, <1>15
     DEF Next, Run, Upstream

LEMMA Invariant == Spec => []Inv
<1>1. Inv /\ [Next]_vars => Inv'
  BY PhasesStep, FlowStep DEF Inv, Types
<1>2. QED
  BY <1>1, InitInv, PTL DEF Spec
-----------------------------------------------------------------------------
(***************************************************************************)
(* The theorems.                                                           *)
(***************************************************************************)
\* What the client got is always the beginning of what the upstream sent, and all
\* of it once the stream is over and nobody left: the rebuilding of the stream in
\* stream-check.ts and the pipe of stream.ts lose, repeat and swap nothing, for
\* streams of any length and any interleaving of their reading and writing.
THEOREM StreamWhole == Spec => []StreamInv
<1>1. ASSUME Inv PROVE StreamInv
  <2>1. TypeOK
    BY <1>1 DEF Inv, Types, Scalars, Chunks, Phases, TypeOK
  <2>2. IsPrefix(delivered, sent)
    BY <1>1, BeginsIsPrefix DEF Inv, Types, Chunks, Flow
  <2>3. pc = "done" /\ outcome = "ok" /\ kind.stream /\ ~gone => delivered = sent
    BY <1>1 DEF Inv, Flow
  <2>4. QED
    BY <2>1, <2>2, <2>3 DEF StreamInv, Verbatim
<1>2. QED
  BY <1>1, Invariant, PTL

\* checkStreamContent() hands on only a stream whose content it has read, and
\* what it read before that were empty events, never an error.
THEOREM ContentFirst == Spec => []OkHasContent
<1>1. Inv => OkHasContent
  BY DEF Inv, Flow
<1>2. QED
  BY <1>1, Invariant, PTL

\* A deadline of postChatCompletion() aborts only the attempt that armed it: the
\* finally of the attempt disarms both, whatever way it ends.
THEOREM DeadlinesCutOwn == Spec => Deadlines
<1>1. ASSUME Inv, [Next]_vars, ~aborted, aborted', signal' = signal
      PROVE  pc \in Waiting /\ (firstTimer' # firstTimer => pc = "headers")
  <2>1. CASE TimerFires
    BY <1>1, <2>1 DEF TimerFires, Inv, Phases
  <2>2. CASE FirstByteTimerFires
    BY <1>1, <2>2 DEF FirstByteTimerFires, Inv, Phases, Waiting
  <2>3. CASE Leave
    BY <1>1, <2>3 DEF Leave, Inv, Phases
  <2>4. CASE Run \/ Upstream \/ Discovered \/ Drained \/ UNCHANGED vars
    BY <1>1, <2>4
       DEF Run, Upstream, Discovered, Drained, vars, control, Begin, Discover, Fail, Write, PipeEnd,
           PumpEnds, Post, Refuse, Return, Headers, Peek, Drain, Pump, TextEnds, StreamEnds,
           ErrorTextEnds, Breaks, Sends
  <2>5. QED
    BY <1>1, <2>1, <2>2, <2>3, <2>4 DEF Next
<1>2. Inv /\ [Next]_vars
        => [~aborted /\ aborted' /\ signal' = signal
              => pc \in Waiting /\ (firstTimer' # firstTimer => pc = "headers")]_vars
  BY <1>1
<1>3. QED
  BY <1>2, Invariant, PTL DEF Spec, Deadlines
=============================================================================
