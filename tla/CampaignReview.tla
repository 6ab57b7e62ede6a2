--------------------------- MODULE CampaignReview ---------------------------
(***************************************************************************)
(* What a tick of the Director makes of the campaign's files               *)
(* (src/director/loop.ts runOnce(), phases 2 to 6, with observe.ts,        *)
(* classify.ts and agent-loop.ts): it reads the event log from the offset  *)
(* of the checkpoint, publishes a changed count, asks a language model     *)
(* about what looks wrong, and saves the checkpoint.                       *)
(*                                                                         *)
(* DirectorTick has the phases before and the worker, PatchLedger the      *)
(* decisions; here they are inputs.  Flawed events look alike: how many of *)
(* them a tick reads stands for hashClassifications().                     *)
(***************************************************************************)
EXTENDS Naturals, FiniteSets, Sequences

CONSTANTS
  MaxEvents,    \* maxEvents of observe(): the most events a tick looks at
  MaxSteps,     \* maxSteps of runDirectorAgent()
  Target,       \* the submissions the campaign is after
  MaxLines,     \* bound: lines of the event log
  MaxToolCalls, \* bound: tool calls in an answer of the model
  MaxFaults     \* bound: errors, crashes and shutdowns

ASSUME ReviewAssumption ==
  /\ {MaxEvents, MaxSteps, MaxToolCalls} \subseteq Nat \ {0}
  /\ {Target, MaxLines, MaxFaults} \subseteq Nat

VARIABLES
  log,        \* events.jsonl, its complete lines
  partial,    \* a line without its newline follows
  tracker,    \* the confirmed submissions in tracker.json
  old,        \* the last activity is longer ago than STALE_THRESHOLD_MINUTES
  pc,         \* where the tick stands; "idle" between ticks, "down" after an exit
  aborted,    \* the signal of the tick
  cp,         \* the checkpoint in memory
  saved,      \* the checkpoint file
  tick,       \* locals of the tick
  agent,      \* the agent loop: mode, steps, open tool calls of the last answer
  posted,     \* the last observation published
  faults,     \* how often something failed
  reviewed,   \* history: the lines whose events a tick has classified
  settled     \* history: what the model was asked in ticks that saved

campaign == <<log, partial, tracker, old>>
history == <<reviewed, settled>>
vars == <<campaign, pc, aborted, cp, saved, tick, agent, posted, faults, history>>

Line == {"fine", "flaw", "junk"}
None == Target + 1
Blank == [offset |-> 0, stale |-> FALSE, flaws |-> 0, reported |-> None]
NewTick == [seen |-> 0, flaws |-> 0, stale |-> FALSE, count |-> 0,
            handled |-> FALSE, vpn |-> FALSE, asked |-> FALSE]
NewAgent(mode) == [mode |-> mode, steps |-> 0, open |-> 0]
Nothing == [stale |-> FALSE, flaws |-> 0]
Steps == {"observe", "persist", "report", "decide", "agent", "sleep", "tools",
          "slack", "finish"}

Init ==
  /\ log = <<>> /\ partial = FALSE /\ tracker = 0 /\ old = FALSE
  /\ pc = "idle" /\ aborted = FALSE
  /\ cp = Blank /\ saved = Blank /\ tick = NewTick /\ agent = NewAgent("read")
  /\ posted = None /\ faults = 0
  /\ reviewed = {} /\ settled = Nothing

\* The tick is over, and its locals with it.
Over == cp' = Blank /\ tick' = NewTick /\ agent' = NewAgent("read")

Fault == faults < MaxFaults /\ faults' = faults + 1

\* The timer fires.  An earlier phase of the tick has perhaps restarted an idle
\* worker (staleHandledThisTick).
Begin ==
  /\ pc = "idle" /\ ~aborted
  /\ pc' = "observe" /\ cp' = saved
  /\ \E vpn \in {FALSE, old} : tick' = [NewTick EXCEPT !.handled = vpn, !.vpn = vpn]
  /\ UNCHANGED <<campaign, aborted, saved, agent, posted, faults, history>>

(***************************************************************************)
(* tailEvents(): the complete lines past the offset.  Of their events the  *)
(* first MaxEvents are returned; the offset passes all lines.              *)
(***************************************************************************)
Past(offset) == {n \in 1..Len(log) : n > offset}
EventsIn(lines) == {n \in lines : log[n] # "junk"}
First(k, lines) == {n \in lines : Cardinality({i \in lines : i < n}) < k}

\* Fault: the line at the end counts as read before its newline is there.
TailPartial(offset) ==
  [events |-> First(MaxEvents, EventsIn(Past(offset))),
   offset |-> IF Len(log) > offset /\ partial THEN Len(log) + 1 ELSE Len(log)]

TailEvents(offset) ==
  [events |-> First(MaxEvents, EventsIn(Past(offset))), offset |-> Len(log)]

\* Fault: observe() starts from a checkpoint without the hash and the flag.
ClassifyForgetful(read) ==
  LET stale == read.events = {} /\ old /\ tracker < Target
      fire == stale /\ ~tick.handled
  IN  /\ tick' = [tick EXCEPT !.seen = Cardinality(read.events),
                              !.flaws = Cardinality({n \in read.events : log[n] = "flaw"}),
                              !.stale = stale, !.count = tracker, !.handled = @ \/ fire]
      /\ cp' = [cp EXCEPT !.offset = read.offset, !.flaws = 0, !.stale = fire]
      /\ pc' = IF fire THEN "persist" ELSE "report"
      /\ reviewed' = reviewed \cup read.events
      /\ settled' = [settled EXCEPT !.stale = @ /\ read.events = {}]

\* classify(); an unfinished campaign without a new event that is old is stale,
\* and recovered if that was not done already (DirectorTick).
Classify(read) ==
  LET stale == read.events = {} /\ old /\ tracker < Target
      fire == stale /\ ~cp.stale /\ ~tick.handled
  IN  /\ tick' = [tick EXCEPT !.seen = Cardinality(read.events),
                              !.flaws = Cardinality({n \in read.events : log[n] = "flaw"}),
                              !.stale = stale, !.count = tracker, !.handled = @ \/ fire]
      /\ cp' = [cp EXCEPT !.offset = read.offset, !.stale = @ \/ fire]
      /\ pc' = IF fire THEN "persist" ELSE "report"
      /\ reviewed' = reviewed \cup read.events
      /\ settled' = [settled EXCEPT !.stale = @ /\ read.events = {}]

\* A log that cannot be opened reads as one without news.
Observe ==
  /\ pc = "observe"
  /\ \/ Classify(TailEvents(cp.offset)) /\ UNCHANGED faults
     \/ Classify([events |-> {}, offset |-> cp.offset]) /\ Fault
  /\ UNCHANGED <<campaign, aborted, saved, agent, posted>>

\* The recovery of a stall is saved at once.
Persist ==
  /\ pc = "persist"
  /\ pc' = "report" /\ saved' = cp
  /\ UNCHANGED <<campaign, aborted, cp, tick, agent, posted, faults, history>>

\* A changed count is published; a new event ends the warning.
Report ==
  /\ pc = "report"
  /\ pc' = "decide"
  /\ cp' = [cp EXCEPT !.reported = tick.count, !.stale = @ /\ tick.seen = 0]
  /\ posted' = IF tick.count # cp.reported THEN tick.count ELSE posted
  /\ UNCHANGED <<campaign, aborted, saved, tick, agent, faults, history>>

(***************************************************************************)
(* Phase 4: is there something to ask that was not asked already?  A stale *)
(* campaign is idle for another number of minutes at every tick: its hash  *)
(* equals no other and stands as 0.                                        *)
(***************************************************************************)
Actionable == tick.flaws > 0 \/ tick.stale
Warned == tick.stale /\ cp.stale /\ ~tick.handled
SameState == ~tick.stale /\ tick.flaws = cp.flaws
MayAsk == Actionable /\ ~aborted /\ ~Warned /\ ~SameState

DoNotAsk ==
  /\ pc = "decide" /\ ~MayAsk
  /\ pc' = "slack"
  /\ UNCHANGED <<campaign, aborted, cp, saved, tick, agent, posted, faults, history>>

Propose ==
  /\ pc = "decide" /\ MayAsk
  /\ pc' = "agent" /\ agent' = NewAgent("read")
  /\ cp' = [cp EXCEPT !.flaws = tick.flaws, !.stale = @ \/ tick.stale]
  /\ tick' = [tick EXCEPT !.asked = TRUE]
  /\ UNCHANGED <<campaign, aborted, saved, posted, faults, history>>

(***************************************************************************)
(* runDirectorAgent(): the loop proposes in mode "read" and executes what  *)
(* was approved in mode "write".                                           *)
(***************************************************************************)
AgentReturns == pc' = (IF agent.mode = "read" THEN "slack" ELSE "finish")

\* The steps are used up, or the signal is aborted.
AgentStops ==
  /\ pc = "agent" /\ (agent.steps = MaxSteps \/ aborted)
  /\ AgentReturns /\ agent' = NewAgent("read")
  /\ UNCHANGED <<campaign, aborted, cp, saved, tick, posted, faults, history>>

\* Fault: a call that failed does not count as a step.
RetryFree(answer) == [agent EXCEPT !.steps = IF answer = "failure" THEN @ ELSE @ + 1]

\* A call is a step, and so is one that failed.
StepTaken(answer) == [agent EXCEPT !.steps = @ + 1]

\* The call fails, or the answer is none at all, some text, or patches.
AskModel(answer) ==
  /\ pc = "agent" /\ agent.steps < MaxSteps /\ ~aborted
  /\ agent' = StepTaken(answer)
  /\ \/ answer = "failure" /\ pc' = "sleep"
     \/ answer = "text" /\ UNCHANGED pc
     \/ answer \in {"nothing", "patches"} /\ AgentReturns
  /\ UNCHANGED <<campaign, aborted, cp, saved, tick, posted, faults, history>>

\* The pause after a failure is over.
Wake ==
  /\ pc = "sleep" /\ pc' = "agent"
  /\ UNCHANGED <<campaign, aborted, cp, saved, tick, agent, posted, faults, history>>

AskForTools(calls) ==
  /\ pc = "agent" /\ agent.steps < MaxSteps /\ ~aborted
  /\ agent' = [StepTaken("tools") EXCEPT !.open = calls]
  /\ pc' = "tools"
  /\ UNCHANGED <<campaign, aborted, cp, saved, tick, posted, faults, history>>

\* Fault: an exception of a tool takes the loop to its next step.
CallToolUncaught ==
  /\ pc = "tools"
  /\ \/ /\ agent' = [agent EXCEPT !.open = @ - 1]
        /\ pc' = IF agent.open = 1 THEN "agent" ELSE "tools"
        /\ UNCHANGED faults
     \/ Fault /\ pc' = "agent" /\ UNCHANGED agent
  /\ UNCHANGED <<campaign, aborted, cp, saved, tick, posted, history>>

\* callTool() answers one call, an error that it catches included.
CallTool ==
  /\ pc = "tools"
  /\ agent' = [agent EXCEPT !.open = @ - 1]
  /\ pc' = IF agent.open = 1 THEN "agent" ELSE "tools"
  /\ UNCHANGED <<campaign, aborted, cp, saved, tick, posted, faults, history>>

(***************************************************************************)
(* The proposals are posted and the decisions read; if any patch is        *)
(* approved, the agent is called to execute it, and the patch is applied   *)
(* whatever the agent did (PatchLedger).                                   *)
(***************************************************************************)
PollSlack(approved) ==
  /\ pc = "slack"
  /\ IF approved /\ ~aborted
     THEN pc' = "agent" /\ agent' = NewAgent("write")
     ELSE pc' = "finish" /\ UNCHANGED agent
  /\ UNCHANGED <<campaign, aborted, cp, saved, tick, posted, faults, history>>

Finish ==
  /\ pc = "finish"
  /\ pc' = "idle" /\ saved' = cp /\ Over
  /\ settled' = IF tick.asked THEN [stale |-> tick.stale, flaws |-> tick.flaws] ELSE settled
  /\ UNCHANGED <<campaign, aborted, posted, faults, reviewed>>

\* A missing tracker, a ledger or a checkpoint that cannot be written, a tool
\* with a query that is no string: the tick ends without saving.
Throw ==
  /\ pc \in {"observe", "persist", "report", "tools", "slack", "finish"}
  /\ pc' = "idle" /\ Over /\ Fault
  /\ UNCHANGED <<campaign, aborted, saved, posted, history>>

(***************************************************************************)
(* shutdown() aborts the tick, which goes on until the process exits.  It  *)
(* may exit, or crash, in the middle of writeFile().                       *)
(***************************************************************************)
Shutdown ==
  /\ pc # "down" /\ ~aborted /\ aborted' = TRUE /\ Fault
  /\ UNCHANGED <<campaign, pc, cp, saved, tick, agent, posted, history>>

Gone ==
  /\ pc # "down" /\ pc' = "down" /\ Over
  /\ \/ UNCHANGED <<saved, history>>
     \/ /\ pc \in {"persist", "finish"}
        /\ saved' = Blank /\ settled' = Nothing /\ UNCHANGED reviewed
  /\ UNCHANGED <<campaign, aborted, posted>>

Crash == Gone /\ Fault
Exit == aborted /\ Gone /\ UNCHANGED faults

Restart ==
  /\ pc = "down"
  /\ pc' = "idle" /\ aborted' = FALSE
  /\ UNCHANGED <<campaign, cp, saved, tick, agent, posted, faults, history>>

(***************************************************************************)
(* The campaign worker writes a line in one piece or two, with or without  *)
(* a submission in the tracker; it may repair the tracker.                 *)
(***************************************************************************)
Rest == <<pc, aborted, cp, saved, tick, agent, posted, faults, history>>

WriteLine(line, count) ==
  /\ Len(log) < MaxLines
  /\ log' = Append(log, line) /\ partial' = FALSE /\ old' = FALSE
  /\ tracker' = count
  /\ UNCHANGED Rest

WritePartOfLine ==
  /\ Len(log) < MaxLines /\ ~partial
  /\ partial' = TRUE
  /\ UNCHANGED <<log, tracker, old, Rest>>

TimePasses ==
  /\ old' = TRUE
  /\ UNCHANGED <<log, partial, tracker, Rest>>

Step ==
  \/ Begin \/ Observe \/ Persist \/ Report \/ DoNotAsk \/ Propose
  \/ AgentStops \/ (\E answer \in {"failure", "nothing", "text", "patches"} : AskModel(answer)) \/ Wake
  \/ (\E calls \in 1..MaxToolCalls : AskForTools(calls)) \/ CallTool
  \/ (\E approved \in BOOLEAN : PollSlack(approved)) \/ Finish
  \/ Exit \/ Restart

Worker ==
  \/ \E line \in Line, count \in 0..Target : WriteLine(line, count)
  \/ WritePartOfLine

Next == Step \/ Throw \/ Shutdown \/ Crash \/ Worker \/ TimePasses

Spec == Init /\ [][Next]_vars

(***************************************************************************)
(* The timer keeps firing, every step of a tick ends (commands, requests   *)
(* and walks have timeouts), and somebody starts the router again.  The    *)
(* answers of the model are not fair: it may fail, or talk, for ever.      *)
(***************************************************************************)
FairSpec == Spec /\ WF_vars(Step)
-----------------------------------------------------------------------------
(***************************************************************************)
(* Properties.                                                             *)
(***************************************************************************)
Checkpoint == [offset : 0..MaxLines, stale : BOOLEAN, flaws : 0..MaxLines,
               reported : 0..None]

\* Types.
TypeOK ==
  /\ log \in UNION {[1..n -> Line] : n \in 0..MaxLines}
  /\ partial \in BOOLEAN /\ tracker \in 0..Target /\ old \in BOOLEAN
  /\ pc \in Steps \cup {"idle", "down"} /\ aborted \in BOOLEAN
  /\ cp \in Checkpoint /\ saved \in Checkpoint
  /\ tick \in [seen : 0..MaxEvents, flaws : 0..MaxEvents, stale : BOOLEAN, count : 0..Target,
               handled : BOOLEAN, vpn : BOOLEAN, asked : BOOLEAN]
  /\ agent \in [mode : {"read", "write"}, steps : 0..MaxSteps, open : 0..MaxToolCalls]
  /\ posted \in 0..None /\ faults \in 0..MaxFaults
  /\ reviewed \subseteq 1..MaxLines
  /\ settled \in [stale : BOOLEAN, flaws : 0..MaxLines]

\* Whatever throws or dies, and wherever the worker stands in a line, the saved
\* offset passes an event only that was classified, except behind MaxEvents
\* others (observe.ts: "we drop the trailing partial and do NOT advance past
\* it, so the next call re-reads it once the file has more bytes").
NothingSkipped ==
  \A n \in 1..Len(log) :
    n <= saved.offset /\ log[n] # "junk" /\ n \notin reviewed =>
      Cardinality({i \in reviewed : i < n}) >= MaxEvents

\* The invariant of the review: types, and no event lost.
ReviewInv == TypeOK /\ NothingSkipped

\* The model is not asked twice about the same: not about the flaws of the last
\* question, nor about a stall before the campaign shows a new event, unless
\* the tick that asked failed, its checkpoint was lost, or the VPN rotation has
\* restarted the idle worker once more (loop.ts: "Skipping proposal: same state
\* as last tick", "Suppress repeated stale-campaign proposals").
AskedOnce ==
  [][pc = "decide" /\ pc' = "agent" =>
       IF tick.stale THEN settled.stale => tick.vpn ELSE tick.flaws # settled.flaws]_vars

\* Every tool call of an answer has its result in the conversation before the
\* model is asked again (agent-loop.ts pushes a message of role "tool" each).
ToolCallsAnswered ==
  [][agent'.steps > agent.steps => agent.open = 0]_vars

\* However the model answers and whenever the router dies, a log that
\* grows no longer is passed in the end, and the count in the tracker is published unless
\* it changes, or a tick that failed has published another: when the count then
\* goes back to the one in the checkpoint, it is not published again.
CatchesUp ==
  /\ <>[](saved.offset = Len(log))
  /\ \A count \in 0..Target :
       tracker = count ~>
         \/ posted = count \/ tracker # count
         \/ pc = "idle" /\ posted # saved.reported
=============================================================================
