---------------------------- MODULE PatchLedger ----------------------------
(***************************************************************************)
(* The decisions of the Director: proposals, the Slack commands that       *)
(* approve or reject them, the ledger, the overrides file and the durable  *)
(* outbox of Slack messages (src/director/loop.ts runOnce(), phases 0, 4,  *)
(* 5 and 6, with surface.ts, slack-poller.ts, ledger.ts and apply.ts).     *)
(*                                                                         *)
(* The tick runs its phases in order, the poller fetches between its       *)
(* awaits, and a crash loses what only the memory holds: the poller's      *)
(* queue and position and the decisions under way.  The ledger is kept as  *)
(* its reader readApprovedPatches() sees it; every patch sets the same     *)
(* override, so the overrides file is the patch that wrote it last.        *)
(***************************************************************************)
EXTENDS SequencesExt

CONSTANTS
  Patch,         \* ids of proposals
  NoPatch,       \* no patch has written the overrides
  MaxAttempts,   \* MAX_OUTBOX_ATTEMPTS
  PollLimit,     \* the `limit` of conversations.history
  MaxCommands,   \* bound: commands in the channel
  MaxFaults      \* bound: thrown errors, failed deliveries and reads, crashes

ASSUME NumberAssumption ==
  /\ MaxAttempts \in Nat \ {0} /\ PollLimit \in Nat \ {0}
  /\ MaxCommands \in Nat /\ MaxFaults \in Nat

VARIABLES
  channel,     \* Slack: the commands of the user, oldest first
  announced,   \* Slack: the patches whose proposal arrived
  seen,        \* poller: the position of lastTs; 0 when it is undefined
  queue,       \* poller: fetched commands, as positions of the channel
  proposed,    \* ledger: the patches proposed
  approved,    \* ledger: the patches approved, in the order of their first approval
  applied,     \* ledger: the patches applied
  overrides,   \* the overrides file
  outbox,      \* the outbox file
  readable,    \* readOutbox() gets its letters: the file is not corrupt, the read works
  tick,        \* progress of the tick
  faults       \* how often something failed

slack == <<channel, announced>>
poller == <<seen, queue>>
ledger == <<proposed, approved, applied>>
mailbox == <<outbox, readable>>
vars == <<slack, poller, ledger, overrides, mailbox, tick, faults>>

Command == 1..MaxCommands
Verdict == {"approve", "reject"}
Message == [kind : {"proposed", "applied"}, of : Patch] \cup [kind : {"decided"}, of : Command]
Letter == [message : Message, attempts : 0..(MaxAttempts - 1)]

\* What the user learns to answer from a message.
Proposal(message) == IF message.kind = "proposed" THEN {message.of} ELSE {}

\* batch: what the tick took from the queue.  todo: the approvals it carries out,
\* as positions of `approved`.  rest, kept, gone: the letters the flush has not
\* tried yet, keeps and is rid of.  message, back: what it posts, and what is next.
Idle == [pc |-> "idle", batch |-> <<>>, todo |-> {}, rest |-> <<>>, kept |-> <<>>,
         gone |-> {}, message |-> {}, back |-> "idle"]

Init ==
  /\ channel = <<>> /\ announced = {}
  /\ seen = 0 /\ queue = <<>>
  /\ proposed = {} /\ approved = <<>> /\ applied = {} /\ overrides = NoPatch
  /\ outbox = <<>> /\ readable = TRUE
  /\ tick = Idle /\ faults = 0

Fault == faults < MaxFaults /\ faults' = faults + 1
FaultUnless(ok) == IF ok THEN UNCHANGED faults ELSE Fault

(***************************************************************************)
(* Slack.                                                                  *)
(***************************************************************************)
\* The user answers a proposal that arrived.
Say(p, verdict) ==
  /\ Len(channel) < MaxCommands
  /\ p \in announced
  /\ channel' = Append(channel, [patch |-> p, verdict |-> verdict])
  /\ UNCHANGED <<announced, poller, ledger, overrides, mailbox, tick, faults>>

\* poll(): the newest PollLimit commands after lastTs, newest first.
Poll ==
  /\ tick.pc # "down"
  /\ LET fresh == Len(channel) - seen
         taken == IF fresh > PollLimit THEN PollLimit ELSE fresh
     IN  /\ fresh > 0
         /\ queue' = queue \o [i \in 1..taken |-> Len(channel) + 1 - i]
         /\ seen' = Len(channel)
  /\ UNCHANGED <<slack, ledger, overrides, mailbox, tick, faults>>

(***************************************************************************)
(* flushOutbox(), at the top of the tick.                                  *)
(***************************************************************************)
\* readOutbox(): a file that cannot be read or parsed is taken for an empty one.
ReadOutbox == IF readable THEN outbox ELSE <<>>

\* The outbox is written only if there were letters to try.
BeginTick ==
  /\ tick.pc = "idle"
  /\ tick' = [Idle EXCEPT !.pc = IF ReadOutbox = <<>> THEN "propose" ELSE "flush",
                          !.rest = ReadOutbox]
  /\ UNCHANGED <<slack, poller, ledger, overrides, mailbox, faults>>

\* Fault: a letter is kept however often it failed.
KeptForever(letter) == <<[letter EXCEPT !.attempts = @ + 1]>>

\* What stays of a letter after another failure: nothing once it has failed
\* MAX_OUTBOX_ATTEMPTS times.
Kept(letter) ==
  IF letter.attempts + 1 >= MaxAttempts THEN <<>>
  ELSE <<[letter EXCEPT !.attempts = @ + 1]>>

\* deliverToSlack() of the next letter.  An error may hide a delivery.
FlushOne(arrives, ok) ==
  /\ tick.pc = "flush" /\ tick.rest # <<>>
  /\ FaultUnless(ok) /\ (ok => arrives)
  /\ LET letter == Head(tick.rest)
     IN  /\ announced' = IF arrives THEN announced \cup Proposal(letter.message) ELSE announced
         /\ tick' = [tick EXCEPT !.rest = Tail(@), !.kept = IF ok THEN @ ELSE @ \o Kept(letter),
                                 !.gone = IF ok THEN @ \cup {letter.message} ELSE @]
  /\ UNCHANGED <<channel, poller, ledger, overrides, mailbox>>

\* Fault: the outbox is not written back.
FlushUnsaved ==
  /\ tick.pc = "flush" /\ tick.rest = <<>>
  /\ tick' = [Idle EXCEPT !.pc = "propose"]
  /\ UNCHANGED <<slack, poller, ledger, overrides, mailbox, faults>>

\* writeOutbox(remaining); phase 4 follows.
FlushEnd ==
  /\ tick.pc = "flush" /\ tick.rest = <<>>
  /\ outbox' = tick.kept /\ readable' = TRUE
  /\ tick' = [Idle EXCEPT !.pc = "propose"]
  /\ UNCHANGED <<slack, poller, ledger, overrides, faults>>

(***************************************************************************)
(* Every post*() enters the ledger and then sends a message; the tick goes *)
(* on at `back`.                                                           *)
(***************************************************************************)
Posting(message, back) ==
  [tick EXCEPT !.pc = "send", !.message = {message}, !.back = back]

\* Fault: the outbox is written without what stood in it.
KeepAlone(message) ==
  outbox' = <<[message |-> message, attempts |-> 0]>> /\ readable' = TRUE

\* enqueueOutbox(): what it could not read is overwritten.
Keep(message) ==
  outbox' = Append(ReadOutbox, [message |-> message, attempts |-> 0]) /\ readable' = TRUE

\* sendToSlack(): deliver now or enqueue.
Send(arrives, ok) ==
  /\ tick.pc = "send"
  /\ FaultUnless(ok) /\ (ok => arrives)
  /\ \E message \in tick.message :
       /\ announced' = IF arrives THEN announced \cup Proposal(message) ELSE announced
       /\ IF ok THEN UNCHANGED mailbox ELSE Keep(message)
  /\ tick' = [tick EXCEPT !.pc = tick.back, !.message = {}, !.back = "idle"]
  /\ UNCHANGED <<channel, poller, ledger, overrides>>

\* proposePatches(): the agent proposes another patch.
Propose(p) ==
  /\ tick.pc = "propose" /\ p \notin proposed
  /\ proposed' = proposed \cup {p}
  /\ tick' = Posting([kind |-> "proposed", of |-> p], "propose")
  /\ UNCHANGED <<slack, poller, approved, applied, overrides, mailbox, faults>>

\* pollSlackMessages(): the poller's queue is drained.
Drain ==
  /\ tick.pc = "propose"
  /\ tick' = [tick EXCEPT !.pc = "decide", !.batch = queue]
  /\ queue' = <<>>
  /\ UNCHANGED <<slack, seen, ledger, overrides, mailbox, faults>>

\* postDecision().
Decide ==
  /\ tick.pc = "decide" /\ tick.batch # <<>>
  /\ LET c == Head(tick.batch)
         p == channel[c].patch
     IN  /\ approved' = IF channel[c].verdict = "approve" /\ ~Contains(approved, p)
                        THEN Append(approved, p) ELSE approved
         /\ tick' = [Posting([kind |-> "decided", of |-> c], "decide") EXCEPT !.batch = Tail(@)]
  /\ UNCHANGED <<slack, poller, proposed, applied, overrides, mailbox, faults>>

\* Fault: the patches applied before are read again.
ApprovedPatchesAll == { i \in DOMAIN approved : approved[i] \in proposed }

\* readApprovedPatches(): proposed and approved, not applied.
ApprovedPatches == { i \in DOMAIN approved : approved[i] \in proposed \ applied }

DecidedAll ==
  /\ tick.pc = "decide" /\ tick.batch = <<>>
  /\ tick' = [tick EXCEPT !.pc = "apply", !.todo = ApprovedPatches]
  /\ UNCHANGED <<slack, poller, ledger, overrides, mailbox, faults>>

\* The approval the loop has come to: the oldest of those left.
Current == { i \in tick.todo : \A j \in tick.todo : i <= j }

\* applyPatch(): pending file and rename.
Apply ==
  /\ tick.pc = "apply"
  /\ \E i \in Current : overrides' = approved[i]
  /\ tick' = [tick EXCEPT !.pc = "record"]
  /\ UNCHANGED <<slack, poller, ledger, mailbox, faults>>

\* What the tick posts after an approval was carried out.
Applied(i) ==
  [Posting([kind |-> "applied", of |-> approved[i]], "apply") EXCEPT !.todo = @ \ {i}]

\* Fault: the entry of the ledger is forgotten.
RecordNothing ==
  /\ tick.pc = "record"
  /\ \E i \in Current : tick' = Applied(i)
  /\ UNCHANGED <<slack, poller, ledger, overrides, mailbox, faults>>

\* postApplied().
Record ==
  /\ tick.pc = "record"
  /\ \E i \in Current : applied' = applied \cup {approved[i]} /\ tick' = Applied(i)
  /\ UNCHANGED <<slack, poller, proposed, approved, overrides, mailbox, faults>>

EndTick ==
  /\ tick.pc = "apply" /\ tick.todo = {}
  /\ tick' = Idle
  /\ UNCHANGED <<slack, poller, ledger, overrides, mailbox, faults>>

\* A file cannot be written or the agent loop fails: the tick ends where it is.
Throw ==
  /\ tick.pc \notin {"idle", "down"} /\ Fault
  /\ tick' = Idle
  /\ UNCHANGED <<slack, poller, ledger, overrides, mailbox>>

\* The router dies and starts again: the poller begins without a position.
Crash ==
  /\ tick.pc # "down" /\ Fault
  /\ tick' = [Idle EXCEPT !.pc = "down"]
  /\ queue' = <<>> /\ seen' = 0
  /\ UNCHANGED <<slack, ledger, overrides, mailbox>>

Restart ==
  /\ tick.pc = "down"
  /\ tick' = Idle
  /\ UNCHANGED <<slack, poller, ledger, overrides, mailbox, faults>>

\* The outbox file gets corrupt or its reads fail, and not any longer.
Spoil ==
  /\ readable /\ Fault /\ readable' = FALSE
  /\ UNCHANGED <<slack, poller, ledger, overrides, outbox, tick>>

Mend ==
  /\ ~readable /\ readable' = TRUE
  /\ UNCHANGED <<slack, poller, ledger, overrides, outbox, tick, faults>>

TickStep ==
  \/ BeginTick \/ FlushEnd \/ Drain \/ Decide \/ DecidedAll \/ Apply \/ Record \/ EndTick \/ Restart
  \/ \E p \in Patch : Propose(p)
  \/ \E arrives, ok \in BOOLEAN : FlushOne(arrives, ok) \/ Send(arrives, ok)

Next ==
  \/ TickStep \/ Poll \/ Throw \/ Crash \/ Spoil \/ Mend
  \/ \E p \in Patch, verdict \in Verdict : Say(p, verdict)

Spec == Init /\ [][Next]_vars

(***************************************************************************)
(* The timers of the Director and of the poller fire, requests end, and    *)
(* somebody starts the router again.                                       *)
(***************************************************************************)
FairSpec == Spec /\ WF_vars(TickStep) /\ WF_vars(Poll)
-----------------------------------------------------------------------------
(***************************************************************************)
(* Properties.                                                             *)
(***************************************************************************)
Messages(letters) == { letters[i].message : i \in DOMAIN letters }

\* Types.  Nothing is approved twice in the eyes of the reader, and what was
\* applied was proposed and approved.
TypeOK ==
  /\ channel \in Seq([patch : proposed, verdict : Verdict]) /\ Len(channel) <= MaxCommands
  /\ announced \subseteq proposed
  /\ seen \in 0..Len(channel) /\ queue \in Seq(1..Len(channel))
  /\ proposed \subseteq Patch /\ approved \in Seq(proposed) /\ IsInjective(approved)
  /\ applied \subseteq ToSet(approved)
  /\ overrides \in ToSet(approved) \cup {NoPatch}
  /\ outbox \in Seq(Letter) /\ readable \in BOOLEAN
  /\ tick.rest \in Seq(Letter) /\ tick.kept \in Seq(Letter)
  /\ faults \in 0..MaxFaults

\* A letter leaves the outbox only when it was delivered, has failed
\* MAX_OUTBOX_ATTEMPTS times (surface.ts flushOutbox(): "poison-queue guard"), or
\* enqueueOutbox() adds one to a file it cannot read.  So a read that fails at the
\* flush loses nothing, and no crash and no throw does.
EnqueuedNotLost ==
  [][\A i \in DOMAIN outbox :
       \/ outbox[i].message \in Messages(outbox') \cup tick.gone
       \/ outbox[i].attempts = MaxAttempts - 1
       \/ ~readable /\ tick.pc = "send"]_vars

\* The overrides of an older approval never replace those of a newer one,
\* although a patch is applied before it is recorded and may be applied again
\* (loop.ts phase 6).
OlderNeverOverwrites ==
  [][overrides # NoPatch /\ overrides' # overrides =>
       \E i, j \in DOMAIN approved : i < j /\ approved[i] = overrides /\ approved[j] = overrides']_vars

\* An approval in the ledger is carried out, in the tick that reads it or in a
\* later one.
ApprovedGetsApplied == \A p \in Patch : Contains(approved, p) ~> p \in applied

\* No letter stays for ever in an outbox that can be read.
OutboxDrains ==
  \A m \in Message : m \in Messages(outbox) ~> m \notin Messages(outbox) \/ ~readable
=============================================================================
