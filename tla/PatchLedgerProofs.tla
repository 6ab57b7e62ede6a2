------------------------- MODULE PatchLedgerProofs -------------------------
(***************************************************************************)
(* The ledger, the overrides and the outbox of the Director, for any       *)
(* number of patches, commands, attempts and faults.                       *)
(*                                                                         *)
(* Order says why no older approval overwrites a newer one: the approvals  *)
(* before the one in the overrides are all recorded as applied, and what a *)
(* tick has still to carry out is exactly what is not.  Flush says where   *)
(* the letters of the outbox are while it is flushed.                      *)
(***************************************************************************)
EXTENDS PatchLedger, SequenceTheorems, TLAPS

Pc == {"idle", "flush", "propose", "decide", "apply", "record", "send", "down"}

\* Messages of proposals that are in the ledger.
Known == { m \in Message : Proposal(m) \subseteq proposed }
KnownLetter == [message : Known, attempts : 0..(MaxAttempts - 1)]

Tick ==
  [ pc : Pc, batch : Seq(1..Len(channel)), todo : SUBSET Nat, rest : Seq(KnownLetter),
    kept : Seq(KnownLetter), gone : SUBSET Message, message : SUBSET Known,
    back : {"idle", "propose", "decide", "apply"} ]

Slack ==
  /\ channel \in Seq([patch : proposed, verdict : Verdict]) /\ Len(channel) <= MaxCommands
  /\ announced \subseteq proposed
Poller == seen \in 0..Len(channel) /\ queue \in Seq(1..Len(channel))
Ledger ==
  /\ proposed \subseteq Patch /\ approved \in Seq(proposed)
  /\ \A i, j \in 1..Len(approved) : approved[i] = approved[j] => i = j
  /\ applied \subseteq ToSet(approved) /\ overrides \in ToSet(approved) \cup {NoPatch}

Types ==
  /\ Slack /\ Poller /\ Ledger
  /\ outbox \in Seq(KnownLetter) /\ readable \in BOOLEAN
  /\ tick \in Tick /\ faults \in 0..MaxFaults

Undone == { i \in 1..Len(approved) : approved[i] \notin applied }

Applying == tick.pc \in {"apply", "record"} \/ (tick.pc = "send" /\ tick.back = "apply")

Order ==
  /\ Applying => tick.todo = Undone
  /\ tick.pc = "record" => \E i \in Current : overrides = approved[i]
  /\ overrides # NoPatch =>
       \E m \in 1..Len(approved) : /\ overrides = approved[m]
                                   /\ \A i \in 1..(m - 1) : approved[i] \in applied

\* Still to be tried, kept, delivered, or given up.
Flush ==
  tick.pc = "flush" =>
    \A i \in 1..Len(outbox) :
      \/ \E j \in 1..Len(tick.rest) : tick.rest[j] = outbox[i]
      \/ \E j \in 1..Len(tick.kept) : tick.kept[j].message = outbox[i].message
      \/ outbox[i].message \in tick.gone
      \/ outbox[i].attempts = MaxAttempts - 1

Inv == Types /\ Order /\ Flush
-----------------------------------------------------------------------------
(***************************************************************************)
(* Types.                                                                  *)
(***************************************************************************)
LEMMA Fixed ==
  ASSUME UNCHANGED <<channel, proposed>>
  PROVE  Known' = Known /\ KnownLetter' = KnownLetter /\ Tick' = Tick
BY DEF Known, KnownLetter, Tick

\* More proposals and a longer channel make nothing ill-typed.
LEMMA Grows ==
  ASSUME proposed \subseteq proposed', Len(channel) \in Nat, Len(channel)' \in Nat,
         Len(channel) <= Len(channel)'
  PROVE  /\ \A s \in Seq(KnownLetter) : s \in Seq(KnownLetter')
         /\ \A s \in Seq(1..Len(channel)) : s \in Seq(1..Len(channel)')
         /\ \A t \in Tick : t \in Tick'
<1>1. Known \subseteq Known' /\ KnownLetter \subseteq KnownLetter'
  BY DEF Known, KnownLetter
<1>2. \A s \in Seq(KnownLetter) : s \in Seq(KnownLetter')
  BY <1>1, SeqMonotonic
<1>3. 1..Len(channel) \subseteq 1..Len(channel)'
  OBVIOUS
<1>4. \A s \in Seq(1..Len(channel)) : s \in Seq(1..Len(channel)')
  BY <1>3, SeqMonotonic
<1>5. ASSUME NEW t \in Tick PROVE t \in Tick'
  <2>1. t.message \in SUBSET Known'
    BY <1>1 DEF Tick
  <2>2. t.rest \in Seq(KnownLetter') /\ t.kept \in Seq(KnownLetter')
        /\ t.batch \in Seq(1..Len(channel)')
    BY <1>2, <1>4 DEF Tick
  <2>3. QED
    BY <2>1, <2>2 DEF Tick
<1>6. QED
  BY <1>2, <1>4, <1>5

LEMMA IdleTyped ==
  /\ Idle \in Tick /\ Idle.pc = "idle" /\ Idle.back = "idle"
  /\ \A pc \in Pc : [Idle EXCEPT !.pc = pc] \in Tick /\ [Idle EXCEPT !.pc = pc].pc = pc
  /\ \A pc \in Pc, rest \in Seq(KnownLetter) : [Idle EXCEPT !.pc = pc, !.rest = rest] \in Tick
<1>1. \A S : <<>> \in Seq(S)
  BY EmptySeq
<1>2. QED
  BY <1>1 DEF Idle, Tick, Pc

LEMMA KeptTyped ==
  ASSUME NEW letter \in KnownLetter
  PROVE  /\ Kept(letter) \in Seq(KnownLetter)
         /\ letter.attempts = MaxAttempts - 1
              \/ (Len(Kept(letter)) = 1 /\ Kept(letter)[1].message = letter.message)
<1>1. letter.attempts \in 0..(MaxAttempts - 1) /\ MaxAttempts \in Nat \ {0}
  BY NumberAssumption DEF KnownLetter
<1>2. CASE letter.attempts + 1 >= MaxAttempts
  <2>1. Kept(letter) = <<>> /\ letter.attempts = MaxAttempts - 1
    BY <1>1, <1>2 DEF Kept
  <2>2. QED
    BY <2>1, EmptySeq
<1>3. CASE ~(letter.attempts + 1 >= MaxAttempts)
  <2> DEFINE again == [letter EXCEPT !.attempts = @ + 1]
  <2>1. again \in KnownLetter /\ again.message = letter.message
    BY <1>1, <1>3 DEF KnownLetter
  <2>2. Kept(letter) = <<again>>
    BY <1>3 DEF Kept
  <2> HIDE DEF again
  <2>3. QED
    BY <2>1, <2>2
<1>4. QED
  BY <1>2, <1>3

LEMMA ReadTyped ==
  ASSUME outbox \in Seq(KnownLetter)
  PROVE  ReadOutbox \in Seq(KnownLetter)
BY EmptySeq DEF ReadOutbox

LEMMA KeepTyped ==
  ASSUME outbox \in Seq(KnownLetter), NEW message \in Known, Keep(message)
  PROVE  outbox' \in Seq(KnownLetter) /\ readable' = TRUE
<1>1. [message |-> message, attempts |-> 0] \in KnownLetter
  BY NumberAssumption DEF KnownLetter
<1>2. QED
  BY <1>1, ReadTyped, AppendProperties DEF Keep

LEMMA PostingTyped ==
  ASSUME tick \in Tick, NEW message \in Known, NEW back \in {"idle", "propose", "decide", "apply"}
  PROVE  /\ Posting(message, back) \in Tick
         /\ Posting(message, back).pc = "send" /\ Posting(message, back).back = back
         /\ Posting(message, back).batch = tick.batch /\ Posting(message, back).todo = tick.todo
BY DEF Posting, Tick, Pc

LEMMA SayTypes ==
  ASSUME Types, NEW p \in Patch, NEW verdict \in Verdict, Say(p, verdict) PROVE Types'
<1>1. /\ channel' = Append(channel, [patch |-> p, verdict |-> verdict]) /\ p \in proposed
      /\ Len(channel) < MaxCommands /\ MaxCommands \in Nat
      /\ UNCHANGED <<announced, poller, ledger, overrides, mailbox, tick, faults>>
  BY NumberAssumption DEF Say, Types, Slack
<1>2. channel \in Seq([patch : proposed, verdict : Verdict]) /\ Len(channel) \in Nat
  BY LenProperties DEF Types, Slack
<1>3. [patch |-> p, verdict |-> verdict] \in [patch : proposed, verdict : Verdict]
  BY <1>1
<1>4. channel' \in Seq([patch : proposed, verdict : Verdict]) /\ Len(channel)' = Len(channel) + 1
  BY <1>1, <1>2, <1>3, AppendProperties
<1>5. Slack'
  BY <1>1, <1>2, <1>4 DEF Types, Slack, ledger
<1>6. Poller' /\ outbox' \in Seq(KnownLetter') /\ readable' \in BOOLEAN /\ tick' \in Tick'
  <2>1. proposed' = proposed /\ Len(channel)' \in Nat /\ Len(channel) <= Len(channel)'
    BY <1>1, <1>2, <1>4 DEF ledger
  <2>2. seen' \in 0..Len(channel)' /\ UNCHANGED <<queue, outbox, readable, tick>>
    BY <1>1, <1>2, <1>4 DEF Types, Poller, poller, mailbox
  <2>3. QED
    BY <1>2, <2>1, <2>2, Grows DEF Types, Poller
<1>7. QED
  BY <1>1, <1>5, <1>6 DEF Types, Ledger, ledger

LEMMA PollTypes == ASSUME Types, Poll PROVE Types'
<1> DEFINE fresh == Len(channel) - seen
           taken == IF fresh > PollLimit THEN PollLimit ELSE fresh
           newest == [i \in 1..taken |-> Len(channel) + 1 - i]
<1>1. /\ fresh > 0 /\ queue' = queue \o newest /\ seen' = Len(channel)
      /\ UNCHANGED <<slack, ledger, overrides, mailbox, tick, faults>>
  BY DEF Poll
<1>2. Len(channel) \in Nat /\ seen \in 0..Len(channel) /\ PollLimit \in Nat \ {0}
  BY NumberAssumption, LenProperties DEF Types, Slack, Poller
<1>3. taken \in Nat /\ taken <= Len(channel)
  BY <1>1, <1>2
<1>4. newest \in Seq(1..Len(channel))
  <2> HIDE DEF taken
  <2>1. \A i \in 1..taken : Len(channel) + 1 - i \in 1..Len(channel)
    BY <1>2, <1>3
  <2>2. QED
    BY <1>3, <2>1
<1> HIDE DEF newest
<1>5. queue' \in Seq(1..Len(channel))
  BY <1>1, <1>4, ConcatProperties DEF Types, Poller
<1>6. UNCHANGED <<channel, proposed, approved, applied, announced, outbox, readable>>
  BY <1>1 DEF slack, ledger, mailbox
<1>7. QED
  BY <1>1, <1>2, <1>5, <1>6, Fixed DEF Types, Slack, Poller, Ledger

LEMMA ProposeTypes == ASSUME Types, NEW p \in Patch, Propose(p) PROVE Types'
<1> DEFINE news == [kind |-> "proposed", of |-> p]
<1>1. /\ proposed' = proposed \cup {p} /\ tick' = Posting(news, "propose")
      /\ UNCHANGED <<slack, poller, approved, applied, overrides, mailbox, faults>>
      /\ UNCHANGED <<channel, announced, seen, queue>>
  BY DEF Propose, slack, poller
<1>2. Len(channel) \in Nat /\ proposed \subseteq proposed' /\ Len(channel)' = Len(channel)
  BY <1>1, LenProperties DEF Types, Slack
<1>3. news \in Known'
  BY <1>1 DEF Known, Message, Proposal
<1>4. tick' \in Tick'
  <2>1. tick \in Tick'
    BY <1>2, Grows DEF Types
  <2>2. tick' = [tick EXCEPT !.pc = "send", !.message = {news}, !.back = "propose"]
    BY <1>1 DEF Posting
  <2> HIDE DEF news
  <2>3. QED
    BY <1>3, <2>1, <2>2 DEF Tick, Pc
<1>5. outbox' \in Seq(KnownLetter') /\ readable' \in BOOLEAN
  BY <1>1, <1>2, Grows DEF Types, mailbox
<1>6. channel' \in Seq([patch : proposed', verdict : Verdict]) /\ approved' \in Seq(proposed')
  <2>1. [patch : proposed, verdict : Verdict] \subseteq [patch : proposed', verdict : Verdict]
    BY <1>2
  <2>2. channel \in Seq([patch : proposed', verdict : Verdict])
    BY <2>1, SeqMonotonic DEF Types, Slack
  <2>3. approved \in Seq(proposed')
    BY <1>2, SeqMonotonic DEF Types, Ledger
  <2>4. QED
    BY <1>1, <2>2, <2>3
<1>7. Slack'
  BY <1>1, <1>2, <1>6 DEF Types, Slack
<1>8. Ledger'
  BY <1>1, <1>2, <1>6 DEF Types, Ledger
<1>9. QED
  BY <1>1, <1>4, <1>5, <1>7, <1>8 DEF Types, Poller

LEMMA DecideTypes == ASSUME Types, Decide PROVE Types'
<1> DEFINE c == Head(tick.batch)
           p == channel[c].patch
           news == [kind |-> "decided", of |-> c]
<1>1. /\ tick.batch \in Seq(1..Len(channel)) /\ tick.batch # <<>> /\ tick \in Tick
      /\ channel \in Seq([patch : proposed, verdict : Verdict]) /\ Len(channel) \in Nat
      /\ Len(channel) <= MaxCommands /\ MaxCommands \in Nat
  BY NumberAssumption, LenProperties DEF Decide, Types, Slack, Tick
<1>2. c \in 1..Len(channel) /\ Tail(tick.batch) \in Seq(1..Len(channel))
  BY <1>1, HeadTailProperties
<1>3. p \in proposed
  <2> HIDE DEF c
  <2>1. channel[c] \in [patch : proposed, verdict : Verdict]
    BY <1>1, <1>2, ElementOfSeq
  <2>2. QED
    BY <2>1
<1>4. /\ approved' = (IF channel[c].verdict = "approve" /\ ~Contains(approved, p)
                      THEN Append(approved, p) ELSE approved)
      /\ tick' = [Posting(news, "decide") EXCEPT !.batch = Tail(@)]
      /\ UNCHANGED <<slack, poller, proposed, applied, overrides, mailbox, faults>>
      /\ UNCHANGED <<channel, announced, seen, queue>>
  BY DEF Decide, slack, poller
<1>5. news \in Known
  BY <1>1, <1>2 DEF Known, Message, Proposal, Command
<1> HIDE DEF c, p, news
<1>6. tick' \in Tick
  <2>1. Posting(news, "decide") \in Tick /\ Posting(news, "decide").batch = tick.batch
    BY <1>1, <1>5, PostingTyped
  <2>2. QED
    BY <1>2, <1>4, <2>1 DEF Tick
<1>7. Ledger'
  <2>1. approved \in Seq(proposed) /\ Len(approved) \in Nat /\ DOMAIN approved = 1..Len(approved)
    BY LenProperties DEF Types, Ledger
  <2>2. CASE approved' = approved
    BY <1>4, <2>2 DEF Types, Ledger
  <2>3. CASE approved' = Append(approved, p) /\ ~Contains(approved, p)
    <3>1. /\ approved' \in Seq(proposed) /\ Len(approved') = Len(approved) + 1
          /\ DOMAIN approved' = 1..Len(approved')
          /\ \A i \in 1..Len(approved) : approved'[i] = approved[i]
          /\ approved'[Len(approved) + 1] = p
      BY <1>3, <2>1, <2>3, AppendProperties, LenProperties
    <3>2. \A i, j \in 1..Len(approved') : approved'[i] = approved'[j] => i = j
      BY <2>1, <2>3, <3>1 DEF Contains, Types, Ledger
    <3>3. ToSet(approved) \subseteq ToSet(approved')
      BY <2>1, <3>1 DEF ToSet
    <3>4. QED
      BY <1>4, <3>1, <3>2, <3>3 DEF Types, Ledger
  <2>4. QED
    BY <1>4, <2>2, <2>3
<1>8. QED
  BY <1>4, <1>6, <1>7, Fixed DEF Types, Slack, Poller, mailbox

LEMMA FlushOneTypes ==
  ASSUME Types, NEW arrives \in BOOLEAN, NEW ok \in BOOLEAN, FlushOne(arrives, ok) PROVE Types'
<1> DEFINE letter == Head(tick.rest)
           others == Tail(tick.rest)
           kept == IF ok THEN tick.kept ELSE tick.kept \o Kept(letter)
           gone == IF ok THEN tick.gone \cup {letter.message} ELSE tick.gone
<1>1. /\ tick' = [tick EXCEPT !.rest = others, !.kept = kept, !.gone = gone]
      /\ announced' = (IF arrives THEN announced \cup Proposal(letter.message) ELSE announced)
      /\ tick.rest # <<>> /\ FaultUnless(ok)
      /\ UNCHANGED <<channel, poller, ledger, overrides, mailbox>>
      /\ UNCHANGED <<seen, queue, proposed, approved, applied>>
  BY DEF FlushOne, poller, ledger
<1>2. letter \in KnownLetter /\ others \in Seq(KnownLetter)
  BY <1>1, HeadTailProperties DEF Types, Tick
<1>3. letter.message \in Message /\ Proposal(letter.message) \subseteq proposed
  BY <1>2 DEF KnownLetter, Known
<1>4. kept \in Seq(KnownLetter)
  BY <1>2, KeptTyped, ConcatProperties DEF Types, Tick
<1>5. gone \in SUBSET Message
  BY <1>3 DEF Types, Tick
<1> HIDE DEF letter, others, kept, gone
<1>6. tick' \in Tick
  BY <1>1, <1>2, <1>4, <1>5 DEF Types, Tick
<1>7. announced' \subseteq proposed
  BY <1>1, <1>3 DEF Types, Slack
<1>8. faults' \in 0..MaxFaults
  BY <1>1, NumberAssumption DEF Types, FaultUnless, Fault
<1>9. QED
  BY <1>1, <1>6, <1>7, <1>8, Fixed DEF Types, Slack, Poller, Ledger, mailbox

LEMMA SendTypes ==
  ASSUME Types, NEW arrives \in BOOLEAN, NEW ok \in BOOLEAN, Send(arrives, ok) PROVE Types'
<1>1. PICK message \in tick.message :
        /\ announced' = IF arrives THEN announced \cup Proposal(message) ELSE announced
        /\ IF ok THEN UNCHANGED mailbox ELSE Keep(message)
  BY DEF Send
<1>2. /\ tick' = [tick EXCEPT !.pc = tick.back, !.message = {}, !.back = "idle"]
      /\ FaultUnless(ok)
      /\ UNCHANGED <<channel, poller, ledger, overrides>>
      /\ UNCHANGED <<seen, queue, proposed, approved, applied>>
  BY DEF Send, poller, ledger
<1>3. message \in Known /\ Proposal(message) \subseteq proposed
  BY DEF Types, Tick, Known
<1>4. outbox' \in Seq(KnownLetter) /\ readable' \in BOOLEAN
  BY <1>1, <1>3, KeepTyped DEF Types, mailbox
<1>5. tick' \in Tick
  BY <1>2 DEF Types, Tick, Pc
<1>6. announced' \subseteq proposed
  BY <1>1, <1>3 DEF Types, Slack
<1>7. faults' \in 0..MaxFaults
  BY <1>2, NumberAssumption DEF Types, FaultUnless, Fault
<1>8. QED
  BY <1>2, <1>4, <1>5, <1>6, <1>7, Fixed DEF Types, Slack, Poller, Ledger

LEMMA RecordTypes == ASSUME Types, Order, Record PROVE Types'
<1>1. PICK i \in Current : applied' = applied \cup {approved[i]} /\ tick' = Applied(i)
  BY DEF Record
<1>2. UNCHANGED <<slack, poller, proposed, approved, overrides, mailbox, faults>>
      /\ UNCHANGED <<channel, announced, seen, queue>>
  BY DEF Record, slack, poller
<1>3. i \in 1..Len(approved)
  BY DEF Record, Order, Applying, Current, Undone
<1>4. /\ approved[i] \in proposed /\ approved[i] \in Patch
      /\ approved[i] \in ToSet(approved)
  BY <1>3, LenProperties, ElementOfSeq DEF Types, Ledger, ToSet
<1>5. tick' \in Tick
  <2> DEFINE news == [kind |-> "applied", of |-> approved[i]]
  <2>1. news \in Known
    BY <1>4 DEF Known, Message, Proposal
  <2> HIDE DEF news
  <2>2. Posting(news, "apply") \in Tick
    BY <2>1, PostingTyped DEF Types
  <2>3. tick' = [Posting(news, "apply") EXCEPT !.todo = @ \ {i}]
    BY <1>1 DEF Applied, news
  <2>4. QED
    BY <2>2, <2>3 DEF Tick
<1>6. QED
  BY <1>1, <1>2, <1>4, <1>5, Fixed DEF Types, Slack, Poller, Ledger, mailbox

LEMMA TypesStep == ASSUME Types, Order, [Next]_vars PROVE Types'
<1>1. ASSUME UNCHANGED <<slack, poller, ledger, overrides>>, tick' \in Tick,
             outbox' \in Seq(KnownLetter), readable' \in BOOLEAN, faults' \in 0..MaxFaults
      PROVE  Types'
  BY <1>1, Fixed DEF Types, Slack, Poller, Ledger, slack, poller, ledger
<1>2. /\ Types /\ outbox \in Seq(KnownLetter) /\ readable \in BOOLEAN
      /\ tick \in Tick /\ faults \in 0..MaxFaults
  BY DEF Types
<1>3. Fault => faults' \in 0..MaxFaults
  BY <1>2, NumberAssumption DEF Fault
<1>4. CASE BeginTick
  <2>1. ReadOutbox \in Seq(KnownLetter)
    BY <1>2, ReadTyped
  <2>2. tick' \in Tick
    BY <1>4, <2>1, IdleTyped DEF BeginTick, Pc
  <2>3. QED
    BY <1>1, <1>2, <1>4, <2>2 DEF BeginTick, mailbox
<1>5. CASE FlushEnd
  BY <1>1, <1>2, <1>5, IdleTyped DEF FlushEnd, Pc, Tick
<1>6. CASE Drain
  <2>1. /\ tick' = [tick EXCEPT !.pc = "decide", !.batch = queue] /\ queue' = <<>>
        /\ UNCHANGED <<channel, announced, seen, proposed, approved, applied, overrides, mailbox,
                       faults>>
    BY <1>6 DEF Drain, slack, ledger, mailbox
  <2>2. tick' \in Tick /\ queue' \in Seq(1..Len(channel))
    BY <1>2, <2>1, EmptySeq DEF Types, Poller, Tick, Pc
  <2>3. QED
    BY <2>1, <2>2, Fixed DEF Types, Slack, Poller, Ledger, mailbox
<1>7. CASE Decide
  BY <1>7, DecideTypes
<1>8. CASE DecidedAll
  <2>1. ApprovedPatches \in SUBSET Nat
    BY LenProperties DEF ApprovedPatches, Types, Ledger
  <2>2. QED
    BY <1>1, <1>2, <1>8, <2>1 DEF DecidedAll, mailbox, Tick, Pc
<1>9. CASE Apply
  <2>1. PICK i \in Current : overrides' = approved[i]
    BY <1>9 DEF Apply
  <2>2. i \in 1..Len(approved)
    BY <1>9 DEF Apply, Order, Applying, Current, Undone
  <2>3. overrides' \in ToSet(approved)
    BY <2>1, <2>2, LenProperties DEF Types, Ledger, ToSet
  <2>4. /\ tick' \in Tick
        /\ UNCHANGED <<channel, announced, seen, queue, proposed, approved, applied, mailbox,
                       faults>>
    BY <1>2, <1>9 DEF Apply, slack, poller, ledger, mailbox, Tick, Pc
  <2>5. QED
    BY <2>3, <2>4, Fixed DEF Types, Slack, Poller, Ledger, mailbox
<1>10. CASE Record
  BY <1>10, RecordTypes
<1>11. CASE EndTick
  BY <1>1, <1>2, <1>11, IdleTyped DEF EndTick, mailbox
<1>12. CASE Restart
  BY <1>1, <1>2, <1>12, IdleTyped DEF Restart, mailbox
<1>13. CASE Throw
  BY <1>1, <1>2, <1>3, <1>13, IdleTyped DEF Throw, mailbox
<1>14. CASE Crash
  <2>1. /\ tick' = [Idle EXCEPT !.pc = "down"] /\ queue' = <<>> /\ seen' = 0
        /\ UNCHANGED <<channel, announced, proposed, approved, applied, overrides, mailbox>>
        /\ faults' \in 0..MaxFaults
    BY <1>3, <1>14 DEF Crash, slack, ledger
  <2>2. tick' \in Tick /\ queue' \in Seq(1..Len(channel)) /\ seen' \in 0..Len(channel)
    <3>1. Len(channel) \in Nat
      BY LenProperties DEF Types, Slack
    <3>2. queue' \in Seq(1..Len(channel)) /\ tick' \in Tick
      BY <2>1, IdleTyped, EmptySeq DEF Pc
    <3>3. QED
      BY <2>1, <3>1, <3>2
  <2>3. QED
    BY <2>1, <2>2, Fixed DEF Types, Slack, Poller, Ledger, mailbox
<1>15. CASE UNCHANGED vars
  BY <1>1, <1>2, <1>15 DEF vars, mailbox
<1>16. CASE Spoil \/ Mend
  BY <1>1, <1>2, <1>3, <1>16 DEF Spoil, Mend
<1>17. QED
  BY <1>4, <1>5, <1>6, <1>7, <1>8, <1>9, <1>10, <1>11, <1>12, <1>13, <1>14, <1>15, <1>16,
     SayTypes, PollTypes, ProposeTypes, FlushOneTypes, SendTypes
     DEF Next, TickStep
-----------------------------------------------------------------------------
(***************************************************************************)
(* Order.                                                                  *)
(***************************************************************************)
\* A step that changes neither the approvals nor the overrides, and does not come
\* to carry approvals out.
LEMMA OrderKept ==
  ASSUME Order, UNCHANGED <<approved, applied, overrides>>,
         Applying' => Applying /\ tick'.todo = tick.todo,
         tick'.pc = "record" => tick.pc = "record"
  PROVE  Order'
<1>1. (Applying => tick.todo = Undone)'
  BY DEF Order, Undone
<1>2. (tick.pc = "record" => \E i \in Current : overrides = approved[i])'
  BY DEF Order, Current, Applying
<1>3. QED
  BY <1>1, <1>2 DEF Order

LEMMA OrderStep == ASSUME Types, Types', Order, [Next]_vars PROVE Order'
<1> USE DEF ledger
<1>0. /\ approved \in Seq(proposed) /\ Len(approved) \in Nat /\ tick \in Tick
      /\ DOMAIN approved = 1..Len(approved)
      /\ \A i \in 1..Len(approved) : approved[i] \in proposed
      /\ \A i, j \in 1..Len(approved) : approved[i] = approved[j] => i = j
  BY LenProperties, ElementOfSeq DEF Types, Ledger
<1>1. CASE BeginTick \/ FlushEnd \/ EndTick \/ Restart \/ Throw \/ Crash
  <2>1. tick'.pc \in {"flush", "propose", "idle", "down"}
    <3>1. CASE BeginTick \/ FlushEnd
      BY <3>1 DEF BeginTick, FlushEnd, Idle
    <3>2. CASE EndTick \/ Restart
      BY <3>2 DEF EndTick, Restart, Idle
    <3>3. CASE Throw \/ Crash
      BY <3>3 DEF Throw, Crash, Idle
    <3>4. QED
      BY <1>1, <3>1, <3>2, <3>3
  <2>2. UNCHANGED <<approved, applied, overrides>>
    BY <1>1 DEF BeginTick, FlushEnd, EndTick, Restart, Throw, Crash
  <2>3. QED
    BY <2>1, <2>2, OrderKept DEF Applying
<1>2. CASE Drain
  <2>1. tick'.pc = "decide" /\ UNCHANGED <<approved, applied, overrides>>
    BY <1>0, <1>2 DEF Drain, Tick
  <2>2. QED
    BY <2>1, OrderKept DEF Applying
<1>3. CASE Decide
  <2> DEFINE p == channel[Head(tick.batch)].patch
  <2>1. /\ approved' = Append(approved, p) \/ approved' = approved
        /\ UNCHANGED <<applied, overrides>> /\ tick.pc = "decide"
    BY <1>3 DEF Decide
  <2>2. tick'.pc = "send" /\ tick'.back = "decide"
    BY <1>0, <1>3 DEF Decide, Posting, Tick
  <2> HIDE DEF p
  <2>3. Len(approved) <= Len(approved') /\ Len(approved') \in Nat
        /\ \A i \in 1..Len(approved) : approved'[i] = approved[i]
    BY <1>0, <2>1, AppendProperties DEF Types, Ledger
  <2>4. ASSUME overrides # NoPatch
        PROVE  \E m \in 1..Len(approved') : /\ overrides = approved'[m]
                                            /\ \A i \in 1..(m - 1) : approved'[i] \in applied
    <3>1. PICK m \in 1..Len(approved) : /\ overrides = approved[m]
                                        /\ \A i \in 1..(m - 1) : approved[i] \in applied
      BY <2>4 DEF Order
    <3>2. m \in 1..Len(approved') /\ \A i \in 1..(m - 1) : i \in 1..Len(approved)
      BY <1>0, <2>3
    <3>3. QED
      BY <2>3, <3>1, <3>2
  <2>5. QED
    BY <2>1, <2>2, <2>4 DEF Order, Applying
<1>4. CASE DecidedAll
  <2>1. /\ tick' = [tick EXCEPT !.pc = "apply", !.todo = ApprovedPatches]
        /\ UNCHANGED <<proposed, approved, applied, overrides>>
    BY <1>4 DEF DecidedAll
  <2>2. ApprovedPatches = Undone
    BY <1>0 DEF ApprovedPatches, Undone
  <2>3. tick'.pc = "apply" /\ tick'.todo = Undone'
    BY <1>0, <2>1, <2>2 DEF Tick, Undone
  <2>4. QED
    BY <2>1, <2>3 DEF Order, Applying
<1>5. CASE Apply
  <2>1. PICK i \in Current : overrides' = approved[i]
    BY <1>5 DEF Apply
  <2>2. /\ tick.pc = "apply" /\ tick' = [tick EXCEPT !.pc = "record"]
        /\ UNCHANGED <<approved, applied>>
    BY <1>5 DEF Apply
  <2>3. tick'.pc = "record" /\ tick'.todo = tick.todo /\ tick.todo = Undone /\ Undone' = Undone
    BY <1>0, <2>2 DEF Tick, Order, Applying, Undone
  <2>4. Current' = Current
    BY <2>3 DEF Current
  <2>5. i \in 1..Len(approved) /\ \A j \in 1..Len(approved) : approved[j] \notin applied => i <= j
    BY <2>3 DEF Current, Undone
  <2>6. \A j \in 1..(i - 1) : approved[j] \in applied
    BY <1>0, <2>5
  <2>7. QED
    BY <2>1, <2>2, <2>3, <2>4, <2>5, <2>6 DEF Order
<1>6. CASE Record
  <2>1. PICK i \in Current : applied' = applied \cup {approved[i]} /\ tick' = Applied(i)
    BY <1>6 DEF Record
  <2>2. tick.pc = "record" /\ UNCHANGED <<approved, overrides>>
    BY <1>6 DEF Record
  <2>3. tick'.pc = "send" /\ tick'.back = "apply" /\ tick'.todo = tick.todo \ {i}
    BY <1>0, <2>1 DEF Applied, Posting, Tick
  <2>4. tick.todo = Undone /\ i \in Undone
    BY <2>2 DEF Order, Applying, Current
  <2>5. Undone' = Undone \ {i}
    BY <1>0, <2>1, <2>2, <2>4 DEF Undone
  <2>6. QED
    BY <2>1, <2>2, <2>3, <2>4, <2>5 DEF Order
<1>7. ASSUME NEW p \in Patch, Propose(p) PROVE Order'
  <2>1. tick'.pc = "send" /\ tick'.back = "propose" /\ UNCHANGED <<approved, applied, overrides>>
    BY <1>0, <1>7 DEF Propose, Posting, Tick
  <2>2. QED
    BY <2>1, OrderKept DEF Applying
<1>8. ASSUME NEW arrives \in BOOLEAN, NEW ok \in BOOLEAN, FlushOne(arrives, ok) PROVE Order'
  <2>1. tick'.pc = "flush" /\ UNCHANGED <<approved, applied, overrides>>
    BY <1>0, <1>8 DEF FlushOne, Tick
  <2>2. QED
    BY <2>1, OrderKept DEF Applying
<1>9. ASSUME NEW arrives \in BOOLEAN, NEW ok \in BOOLEAN, Send(arrives, ok) PROVE Order'
  <2>1. /\ tick.pc = "send" /\ tick'.pc = tick.back /\ tick'.back = "idle"
        /\ tick'.todo = tick.todo /\ UNCHANGED <<approved, applied, overrides>>
        /\ tick.back \in {"idle", "propose", "decide", "apply"}
    BY <1>0, <1>9 DEF Send, Tick
  <2>2. QED
    BY <2>1, OrderKept DEF Applying
<1>10. CASE UNCHANGED <<tick, approved, applied, overrides>>
  BY <1>10, OrderKept DEF Applying
<1>11. QED
  BY <1>1, <1>2, <1>3, <1>4, <1>5, <1>6, <1>7, <1>8, <1>9, <1>10
     DEF Next, TickStep, Poll, Say, Spoil, Mend, vars

-----------------------------------------------------------------------------
(***************************************************************************)
(* Flush.                                                                  *)
(***************************************************************************)
LEMMA FlushOneFlush ==
  ASSUME Types, Flush, NEW arrives \in BOOLEAN, NEW ok \in BOOLEAN, FlushOne(arrives, ok)
  PROVE  Flush'
<1> DEFINE letter == Head(tick.rest)
<1>1. /\ tick.rest \in Seq(KnownLetter) /\ tick.rest # <<>> /\ tick.kept \in Seq(KnownLetter)
      /\ tick \in Tick /\ tick.pc = "flush" /\ outbox' = outbox
  BY DEF FlushOne, mailbox, Types, Tick
<1>2. /\ tick'.rest = Tail(tick.rest)
      /\ tick'.kept = IF ok THEN tick.kept ELSE tick.kept \o Kept(letter)
      /\ tick'.gone = IF ok THEN tick.gone \cup {letter.message} ELSE tick.gone
  BY <1>1 DEF FlushOne, Tick
<1>3. /\ letter \in KnownLetter /\ letter = tick.rest[1] /\ Len(tick.rest) \in Nat
      /\ Len(tick'.rest) = Len(tick.rest) - 1
      /\ \A i \in 1..Len(tick'.rest) : tick'.rest[i] = tick.rest[i + 1]
  BY <1>1, <1>2, HeadTailProperties, LenProperties
<1> HIDE DEF letter
<1>4. /\ Len(tick.kept) \in Nat /\ Len(tick'.kept) \in Nat /\ Len(tick.kept) <= Len(tick'.kept)
      /\ \A j \in 1..Len(tick.kept) : tick'.kept[j] = tick.kept[j]
      /\ \/ ok \/ letter.attempts = MaxAttempts - 1
         \/ \E j \in 1..Len(tick'.kept) : tick'.kept[j].message = letter.message
  <2>1. CASE ok
    BY <1>1, <1>2, <2>1, LenProperties
  <2>2. CASE ~ok
    <3>1. /\ Kept(letter) \in Seq(KnownLetter) /\ Len(Kept(letter)) \in Nat
          /\ letter.attempts = MaxAttempts - 1
               \/ (Len(Kept(letter)) = 1 /\ Kept(letter)[1].message = letter.message)
      BY <1>3, KeptTyped, LenProperties
    <3>2. /\ Len(tick'.kept) = Len(tick.kept) + Len(Kept(letter)) /\ Len(tick.kept) \in Nat
          /\ \A j \in 1..(Len(tick.kept) + Len(Kept(letter))) :
               tick'.kept[j] = IF j <= Len(tick.kept) THEN tick.kept[j]
                               ELSE Kept(letter)[j - Len(tick.kept)]
      BY <1>1, <1>2, <2>2, <3>1, ConcatProperties, LenProperties
    <3>3. CASE Len(Kept(letter)) = 1 /\ Kept(letter)[1].message = letter.message
      <4>1. /\ Len(tick.kept) + 1 \in 1..Len(tick'.kept)
            /\ tick'.kept[Len(tick.kept) + 1] = Kept(letter)[1]
        BY <3>2, <3>3
      <4>2. QED
        BY <3>2, <3>3, <4>1
    <3>4. CASE letter.attempts = MaxAttempts - 1
      BY <3>1, <3>2, <3>4
    <3>5. QED
      BY <3>1, <3>3, <3>4
  <2>3. QED
    BY <2>1, <2>2
<1>5. ASSUME NEW i \in 1..Len(outbox)
      PROVE  \/ \E j \in 1..Len(tick'.rest) : tick'.rest[j] = outbox[i]
             \/ \E j \in 1..Len(tick'.kept) : tick'.kept[j].message = outbox[i].message
             \/ outbox[i].message \in tick'.gone
             \/ outbox[i].attempts = MaxAttempts - 1
  <2>1. ASSUME NEW j \in 1..Len(tick.rest), tick.rest[j] = outbox[i]
        PROVE  \/ \E l \in 1..Len(tick'.rest) : tick'.rest[l] = outbox[i]
               \/ \E l \in 1..Len(tick'.kept) : tick'.kept[l].message = outbox[i].message
               \/ outbox[i].message \in tick'.gone
               \/ outbox[i].attempts = MaxAttempts - 1
    <3>1. CASE j = 1
      BY <1>2, <1>3, <1>4, <2>1, <3>1
    <3>2. CASE j > 1
      <4>1. j - 1 \in 1..Len(tick'.rest) /\ (j - 1) + 1 = j
        BY <1>3, <3>2
      <4>2. tick'.rest[j - 1] = outbox[i]
        BY <1>3, <2>1, <4>1
      <4>3. QED
        BY <4>1, <4>2
    <3>3. j = 1 \/ j > 1
      BY <1>3
    <3>4. QED
      BY <3>1, <3>2, <3>3
  <2>2. ASSUME NEW j \in 1..Len(tick.kept), tick.kept[j].message = outbox[i].message
        PROVE  \E l \in 1..Len(tick'.kept) : tick'.kept[l].message = outbox[i].message
    <3>1. j \in 1..Len(tick'.kept) /\ tick'.kept[j] = tick.kept[j]
      BY <1>4
    <3>2. QED
      BY <2>2, <3>1
  <2>3. tick.gone \subseteq tick'.gone
    BY <1>2
  <2>4. QED
    BY <1>1, <2>1, <2>2, <2>3 DEF Flush
<1>6. QED
  BY <1>1, <1>5 DEF Flush

LEMMA FlushStep == ASSUME Types, Flush, [Next]_vars PROVE Flush'
<1>0. tick \in Tick
  BY DEF Types
<1>1. CASE BeginTick
  <2>1. tick'.rest = ReadOutbox /\ outbox' = outbox
    BY <1>1 DEF BeginTick, Idle, mailbox
  <2>2. tick'.pc = "flush" => ReadOutbox = outbox
    BY <1>1 DEF BeginTick, Idle, ReadOutbox
  <2>3. QED
    BY <2>1, <2>2 DEF Flush
<1>2. CASE FlushEnd \/ EndTick \/ Restart \/ Throw \/ Crash
  BY <1>2 DEF FlushEnd, EndTick, Restart, Throw, Crash, Idle, Flush
<1>3. CASE Drain \/ Decide \/ DecidedAll \/ Apply \/ Record
  <2>1. tick'.pc # "flush"
    BY <1>0, <1>3 DEF Drain, Decide, DecidedAll, Apply, Record, Posting, Applied, Tick
  <2>2. QED
    BY <2>1 DEF Flush
<1>4. ASSUME NEW p \in Patch, Propose(p) PROVE Flush'
  BY <1>0, <1>4 DEF Propose, Posting, Tick, Flush
<1>5. ASSUME NEW arrives \in BOOLEAN, NEW ok \in BOOLEAN, Send(arrives, ok) PROVE Flush'
  BY <1>0, <1>5 DEF Send, Tick, Flush
<1>6. CASE UNCHANGED <<tick, outbox>>
  BY <1>6 DEF Flush
<1>7. QED
  BY <1>1, <1>2, <1>3, <1>4, <1>5, <1>6, FlushOneFlush
     DEF Next, TickStep, Poll, Say, Spoil, Mend, mailbox, vars

LEMMA InitInv == Init => Inv
<1> SUFFICES ASSUME Init PROVE Inv
  OBVIOUS
<1>1. /\ channel = <<>> /\ queue = <<>> /\ approved = <<>> /\ outbox = <<>>
      /\ Len(channel) = 0 /\ Len(approved) = 0 /\ Len(outbox) = 0
  BY DEF Init
<1>2. \A S : <<>> \in Seq(S)
  BY EmptySeq
<1>3. Types
  <2>1. Slack /\ Poller
    BY <1>1, <1>2, NumberAssumption DEF Init, Slack, Poller
  <2>2. Ledger
    BY <1>1, <1>2 DEF Init, Ledger
  <2>3. /\ outbox \in Seq(KnownLetter) /\ readable \in BOOLEAN
        /\ tick \in Tick /\ faults \in 0..MaxFaults
    <3>1. outbox \in Seq(KnownLetter) /\ readable \in BOOLEAN
      BY <1>1, <1>2 DEF Init
    <3>2. tick \in Tick
      BY IdleTyped DEF Init
    <3>3. faults \in 0..MaxFaults
      BY NumberAssumption DEF Init
    <3>4. QED
      BY <3>1, <3>2, <3>3
  <2>4. QED
    BY <2>1, <2>2, <2>3 DEF Types
<1>4. Order /\ Flush
  BY <1>1, IdleTyped DEF Init, Order, Flush, Applying
<1>5. QED
  BY <1>3, <1>4 DEF Inv

LEMMA Invariant == Spec => []Inv
<1>1. Inv /\ [Next]_vars => Inv'
  BY TypesStep, OrderStep, FlushStep DEF Inv
<1>2. QED
  BY <1>1, InitInv, PTL DEF Spec
-----------------------------------------------------------------------------
(***************************************************************************)
(* The theorems.                                                           *)
(***************************************************************************)
\* For any number of patches, commands, attempts and faults: the types, nothing is
\* approved twice in the eyes of readApprovedPatches(), what is applied was
\* approved, what is approved was proposed, and no letter is ever kept beyond
\* MAX_OUTBOX_ATTEMPTS (ledger.ts, surface.ts).
THEOREM LedgerSound == Spec => []TypeOK
<1>1. ASSUME Types PROVE TypeOK
  <2>1. tick.rest \in Seq(Letter) /\ tick.kept \in Seq(Letter) /\ outbox \in Seq(Letter)
    <3>1. KnownLetter \subseteq Letter
      BY DEF KnownLetter, Letter, Known
    <3>2. QED
      BY <1>1, <3>1, SeqMonotonic DEF Types, Tick
  <2>2. IsInjective(approved)
    BY <1>1, LenProperties DEF Types, Ledger, IsInjective
  <2>3. QED
    BY <1>1, <2>1, <2>2 DEF Types, Slack, Poller, Ledger, TypeOK
<1>2. Inv => Types
  BY DEF Inv
<1>3. QED
  BY <1>1, <1>2, Invariant, PTL

\* The overrides of an older approval never replace those of a newer one, for any
\* number of approvals and wherever a tick throws or the process dies: applying
\* and recording are two writes, and a patch that was applied and not recorded is
\* applied again before anything newer (loop.ts runOnce(), phase 6).
THEOREM NewestOverrides == Spec => OlderNeverOverwrites
<1>1. ASSUME Inv, [Next]_vars, overrides # NoPatch, overrides' # overrides
      PROVE  \E i, j \in DOMAIN approved :
               i < j /\ approved[i] = overrides /\ approved[j] = overrides'
  <2>1. Apply
    BY <1>1 DEF Next, TickStep, BeginTick, FlushEnd, Drain, Decide, DecidedAll, Record, EndTick,
                Restart, Propose, FlushOne, Send, Poll, Throw, Crash, Say, Spoil, Mend, vars
  <2>2. PICK j \in Current : overrides' = approved[j]
    BY <2>1 DEF Apply
  <2>3. PICK i \in 1..Len(approved) : /\ overrides = approved[i]
                                      /\ \A l \in 1..(i - 1) : approved[l] \in applied
    BY <1>1 DEF Inv, Order
  <2>4. j \in 1..Len(approved) /\ approved[j] \notin applied
    BY <1>1, <2>1 DEF Inv, Order, Applying, Apply, Current, Undone
  <2>5. i # j
    BY <1>1, <2>2, <2>3
  <2>6. Len(approved) \in Nat /\ DOMAIN approved = 1..Len(approved)
    BY <1>1, LenProperties DEF Inv, Types, Ledger
  <2>7. ~(j < i)
    BY <2>3, <2>4, <2>6
  <2>8. i < j
    BY <2>4, <2>5, <2>6, <2>7
  <2>9. QED
    BY <2>2, <2>3, <2>4, <2>6, <2>8
<1>2. Inv /\ [Next]_vars
        => [overrides # NoPatch /\ overrides' # overrides =>
              \E i, j \in DOMAIN approved :
                i < j /\ approved[i] = overrides /\ approved[j] = overrides']_vars
  BY <1>1
<1>3. QED
  BY <1>2, Invariant, PTL DEF Spec, OlderNeverOverwrites

\* A letter leaves the outbox file only when it was delivered, has failed
\* MAX_OUTBOX_ATTEMPTS times or is overwritten by enqueueOutbox() over a file it
\* cannot read, for outboxes of any length and wherever ticks throw, the process dies
\* or reads fail: flushOutbox() writes back all that it kept, or does not write.
THEOREM LettersStay == Spec => EnqueuedNotLost
<1> DEFINE Stays(i) == \/ outbox[i].message \in Messages(outbox') \cup tick.gone
                       \/ outbox[i].attempts = MaxAttempts - 1
                       \/ ~readable /\ tick.pc = "send"
<1>1. ASSUME Inv, [Next]_vars, NEW i \in DOMAIN outbox
      PROVE  Stays(i)
  <2>1. outbox \in Seq(KnownLetter) /\ DOMAIN outbox = 1..Len(outbox) /\ Len(outbox) \in Nat
    BY <1>1, LenProperties DEF Inv, Types
  <2>2. CASE outbox' = outbox
    BY <2>2 DEF Messages
  <2>3. CASE FlushEnd
    <3>1. outbox' = tick.kept /\ tick.pc = "flush" /\ tick.rest = <<>> /\ Len(tick.rest) = 0
      BY <2>3 DEF FlushEnd
    <3>2. DOMAIN tick.kept = 1..Len(tick.kept)
      BY <1>1, LenProperties DEF Inv, Types, Tick
    <3>3. \/ \E j \in 1..Len(tick.kept) : tick.kept[j].message = outbox[i].message
          \/ outbox[i].message \in tick.gone
          \/ outbox[i].attempts = MaxAttempts - 1
      BY <1>1, <2>1, <3>1 DEF Inv, Flush
    <3>4. QED
      BY <3>1, <3>2, <3>3 DEF Messages
  <2>4. ASSUME NEW arrives \in BOOLEAN, NEW ok \in BOOLEAN, Send(arrives, ok), outbox' # outbox,
               readable
        PROVE  Stays(i)
    <3>1. PICK message \in tick.message : Keep(message)
      BY <2>4 DEF Send, mailbox
    <3>2. message \in Known /\ [message |-> message, attempts |-> 0] \in KnownLetter
      BY <1>1, NumberAssumption DEF Inv, Types, Tick, KnownLetter
    <3>3. /\ outbox' \in Seq(KnownLetter) /\ Len(outbox') = Len(outbox) + 1
          /\ DOMAIN outbox' = 1..Len(outbox') /\ outbox'[i] = outbox[i]
      <4>1. outbox' = Append(outbox, [message |-> message, attempts |-> 0])
        BY <2>4, <3>1 DEF Keep, ReadOutbox
      <4>2. QED
        BY <2>1, <3>2, <4>1, AppendProperties, LenProperties
    <3>4. i \in DOMAIN outbox'
      BY <2>1, <3>3
    <3>5. QED
      BY <3>3, <3>4 DEF Messages
  <2>5. ASSUME NEW arrives \in BOOLEAN, NEW ok \in BOOLEAN, Send(arrives, ok), ~readable
        PROVE  Stays(i)
    BY <2>5 DEF Send
  <2>6. QED
    BY <1>1, <2>2, <2>3, <2>4, <2>5
       DEF Next, TickStep, BeginTick, Drain, Decide, DecidedAll, Apply, Record, EndTick, Restart,
           Propose, FlushOne, Poll, Throw, Crash, Say, Spoil, Mend, mailbox, vars
<1>2. Inv /\ [Next]_vars => [\A i \in DOMAIN outbox : Stays(i)]_vars
  BY <1>1
<1>3. QED
  BY <1>2, Invariant, PTL DEF Spec, EnqueuedNotLost
=============================================================================
