------------------------- MODULE CampaignReviewProofs -------------------------
(***************************************************************************)
(* Proofs about CampaignReview, for a log of any length, any number of     *)
(* steps, tool calls and faults: the saved offset passes no event unseen   *)
(* (OffsetsPassed), every tool call is answered before the model is asked  *)
(* again (ToolsOpen), and the model is not asked twice about the same      *)
(* (Settled).  The lemmas in front say what the first k events of a set of *)
(* lines are: no more than k, with k of them before every other one.       *)
(***************************************************************************)
EXTENDS CampaignReview, FiniteSetTheorems, SequenceTheorems, WellFoundedInduction, TLAPS

-----------------------------------------------------------------------------
(***************************************************************************)
(* The first k of a set of lines.                                          *)
(***************************************************************************)
LEMMA Least == ASSUME NEW S \in SUBSET Nat, S # {} PROVE \E m \in S : \A i \in S : m <= i
<1>1. PICK m \in S : \A i \in S : ~(<<i, m>> \in OpToRel(<, Nat))
  BY NatLessThanWellFounded, WFMin
<1>2. \A i \in S : ~(i < m)
  BY <1>1 DEF OpToRel
<1>3. QED
  BY <1>2

LEMMA IntervalFinite == \A n \in Nat : IsFiniteSet(1..n) /\ Cardinality(1..n) = n
BY FS_Interval

\* In front of a line that is not among the first k there are k that are.
LEMMA FirstReaches ==
  ASSUME NEW N \in Nat, NEW E \in SUBSET (1..N), NEW k \in Nat,
         NEW n \in E, n \notin First(k, E)
  PROVE  Cardinality({i \in First(k, E) : i < n}) >= k
<1> DEFINE T == E \ First(k, E)
           F == {i \in First(k, E) : i < n}
           Before(m) == {i \in E : i < m}
<1>1. PICK m \in T : \A i \in T : m <= i
  <2>1. T \in SUBSET Nat
    BY 1..N \subseteq Nat
  <2>2. T # {}
    OBVIOUS
  <2>3. QED
    BY <2>1, <2>2, Least
<1>2. Before(m) \subseteq F
  <2>1. SUFFICES ASSUME NEW i \in E, i < m PROVE i \in First(k, E) /\ i < n
    OBVIOUS
  <2>2. i \in Nat /\ m \in Nat /\ n \in Nat /\ m <= n
    BY <1>1
  <2>3. i \notin T
    BY <1>1, <2>1, <2>2
  <2>4. QED
    BY <2>1, <2>2, <2>3
<1>3. IsFiniteSet(E)
  BY IntervalFinite, FS_Subset
<1>4. IsFiniteSet(F) /\ IsFiniteSet(Before(m))
  BY <1>3, FS_Subset DEF First
<1>5. Cardinality(Before(m)) >= k
  <2>1. Cardinality(Before(m)) \in Nat
    BY <1>4, FS_CardinalityType
  <2>2. ~(Cardinality(Before(m)) < k)
    BY <1>1 DEF First
  <2>3. QED
    BY <2>1, <2>2
<1>6. Cardinality(Before(m)) <= Cardinality(F)
  BY <1>2, <1>4, FS_Subset
<1>7. QED
  BY <1>4, <1>5, <1>6, FS_CardinalityType

\* There are no more than k of them.
LEMMA FirstBounded ==
  ASSUME NEW N \in Nat, NEW E \in SUBSET (1..N), NEW k \in Nat
  PROVE  /\ IsFiniteSet(First(k, E))
         /\ Cardinality(First(k, E)) \in 0..k
         /\ Cardinality(First(k, E)) <= N
<1> DEFINE F == First(k, E)
           Above == {b \in Nat : \A i \in F : i <= b}
<1>1. IsFiniteSet(E) /\ IsFiniteSet(F) /\ F \in SUBSET (1..N) /\ Cardinality(F) \in Nat
  <2>1. F \in SUBSET E
    BY DEF First
  <2>2. QED
    BY <2>1, IntervalFinite, FS_Subset, FS_CardinalityType
<1>2. Cardinality(F) <= N
  BY <1>1, IntervalFinite, FS_Subset
<1>3. ASSUME F # {} PROVE Cardinality(F) <= k
  <2>1. PICK b \in Above : \A c \in Above : b <= c
    BY <1>1, Least, N \in Above
  <2>2. b \in F
    <3>1. SUFFICES ASSUME b \notin F PROVE FALSE
      OBVIOUS
    <3>2. \A i \in F : i \in Nat /\ i <= b /\ i # b /\ i >= 1
      BY <1>1, <2>1, <3>1
    <3>3. b - 1 \in Above
      BY <1>3, <2>1, <3>2
    <3>4. QED
      BY <2>1, <3>3
  <2> DEFINE B == {i \in E : i < b}
             G == {i \in F : i < b}
  <2>3. F = G \cup {b} /\ b \notin G
    BY <1>1, <2>1, <2>2
  <2>4. IsFiniteSet(B) /\ IsFiniteSet(G) /\ G \subseteq B
    BY <1>1, FS_Subset DEF First
  <2>5. Cardinality(B) \in Nat /\ Cardinality(G) \in Nat /\ Cardinality(G) <= Cardinality(B)
    BY <2>4, FS_Subset, FS_CardinalityType
  <2>6. Cardinality(B) < k
    BY <2>2 DEF First
  <2>7. Cardinality(F) = Cardinality(G) + 1
    BY <2>3, <2>4, FS_AddElement
  <2>8. QED
    BY <2>5, <2>6, <2>7
<1>4. ASSUME F = {} PROVE Cardinality(F) <= k
  BY <1>4, FS_EmptySet
<1>5. QED
  BY <1>1, <1>2, <1>3, <1>4

-----------------------------------------------------------------------------
(***************************************************************************)
(* Types, in the parts that the steps change together.                     *)
(***************************************************************************)
Campaign ==
  /\ log \in Seq(Line) /\ Len(log) \in 0..MaxLines
  /\ partial \in BOOLEAN /\ tracker \in 0..Target /\ old \in BOOLEAN
Control == pc \in Steps \cup {"idle", "down"} /\ aborted \in BOOLEAN
Checkpoints == cp \in Checkpoint /\ saved \in Checkpoint
Local == [seen : 0..MaxEvents, flaws : 0..MaxEvents, stale : BOOLEAN, count : 0..Target,
          handled : BOOLEAN, vpn : BOOLEAN, asked : BOOLEAN]
Locals == tick \in Local /\ tick.flaws <= MaxLines
Loop == agent \in [mode : {"read", "write"}, steps : 0..MaxSteps, open : 0..MaxToolCalls]
World == posted \in 0..None /\ faults \in 0..MaxFaults
Memory == reviewed \subseteq 1..Len(log) /\ settled \in [stale : BOOLEAN, flaws : 0..MaxLines]

Types == Campaign /\ Control /\ Checkpoints /\ Locals /\ Loop /\ World /\ Memory

LEMMA NoneType == /\ None \in 0..None /\ 0..Target \subseteq 0..None /\ 0 \in 0..None
                  /\ 0 \in 0..MaxLines /\ 0 \in 0..MaxEvents /\ 0 \in 0..Target
                  /\ 0 \in 0..MaxSteps /\ 0 \in 0..MaxToolCalls /\ 0 \in 0..MaxFaults
BY ReviewAssumption DEF None

LEMMA BlankTypes == /\ Blank \in Checkpoint /\ NewTick \in Local /\ NewTick.flaws <= MaxLines
                    /\ \A mode \in {"read", "write"} :
                         NewAgent(mode) \in [mode : {"read", "write"}, steps : 0..MaxSteps,
                                             open : 0..MaxToolCalls]
<1>1. Blank \in Checkpoint
  BY NoneType DEF Blank, Checkpoint
<1>2. NewTick \in Local
  BY NoneType DEF NewTick, Local
<1>3. NewTick.flaws <= MaxLines
  BY ReviewAssumption DEF NewTick
<1>4. QED
  BY <1>1, <1>2, <1>3, NoneType DEF NewAgent

LEMMA NothingType == Nothing \in [stale : BOOLEAN, flaws : 0..MaxLines]
BY NoneType DEF Nothing

LEMMA InitTypes == Init => Types
<1> SUFFICES ASSUME Init PROVE Types
  OBVIOUS
<1>1. Campaign
  <2>1. log \in Seq(Line) /\ Len(log) = 0
    BY DEF Init
  <2>2. QED
    BY <2>1, NoneType DEF Init, Campaign
<1>2. Control
  BY DEF Init, Control
<1>3. Checkpoints
  BY BlankTypes DEF Init, Checkpoints
<1>4. Locals /\ Loop
  BY BlankTypes DEF Init, Locals, Loop
<1>5. World
  BY NoneType DEF Init, World
<1>6. Memory
  BY NoneType DEF Init, Memory, Nothing
<1>7. QED
  BY <1>1, <1>2, <1>3, <1>4, <1>5, <1>6 DEF Types

\* What a tick reads of the log.
LEMMA ReadTypes ==
  ASSUME Campaign, NEW offset
  PROVE  LET read == TailEvents(offset) IN
         /\ read.events \subseteq 1..Len(log) /\ IsFiniteSet(read.events)
         /\ Cardinality(read.events) \in 0..MaxEvents
         /\ Cardinality(read.events) <= MaxLines
         /\ read.offset = Len(log)
<1> DEFINE E == EventsIn(Past(offset))
<1>1. Len(log) \in Nat /\ Len(log) <= MaxLines /\ MaxLines \in Nat /\ MaxEvents \in Nat
  BY ReviewAssumption DEF Campaign
<1>2. E \in SUBSET (1..Len(log))
  BY DEF EventsIn, Past
<1>3. First(MaxEvents, E) \subseteq E
  BY DEF First
<1>4. /\ IsFiniteSet(First(MaxEvents, E))
      /\ Cardinality(First(MaxEvents, E)) \in 0..MaxEvents
      /\ Cardinality(First(MaxEvents, E)) <= Len(log)
  BY <1>1, <1>2, FirstBounded
<1>5. Cardinality(First(MaxEvents, E)) <= MaxLines
  BY <1>1, <1>4
<1> HIDE DEF E
<1>6. /\ TailEvents(offset).events = First(MaxEvents, E)
      /\ TailEvents(offset).offset = Len(log)
  BY DEF TailEvents, E
<1>7. QED
  BY <1>2, <1>3, <1>4, <1>5, <1>6, Zenon

LEMMA ClassifyTypes ==
  ASSUME Types, NEW read, read.events \subseteq 1..Len(log), IsFiniteSet(read.events),
         Cardinality(read.events) \in 0..MaxEvents, Cardinality(read.events) <= MaxLines,
         read.offset \in 0..MaxLines, Classify(read), UNCHANGED <<log, saved>>
  PROVE  Checkpoints' /\ Locals' /\ Memory'
<1> DEFINE stale == read.events = {} /\ old /\ tracker < Target
           fire == stale /\ ~cp.stale /\ ~tick.handled
           flawed == {n \in read.events : log[n] = "flaw"}
           handled == tick.handled \/ fire
           warned == cp.stale \/ fire
<1>1. Cardinality(flawed) \in 0..MaxEvents /\ Cardinality(flawed) <= MaxLines
  <2>1. IsFiniteSet(flawed) /\ Cardinality(flawed) <= Cardinality(read.events)
    BY FS_Subset
  <2>2. Cardinality(flawed) \in Nat
    BY <2>1, FS_CardinalityType
  <2>3. QED
    BY <2>1, <2>2, ReviewAssumption
<1>2. stale \in BOOLEAN /\ handled \in BOOLEAN /\ warned \in BOOLEAN
  OBVIOUS
<1>3. /\ tick' = [tick EXCEPT !.seen = Cardinality(read.events), !.flaws = Cardinality(flawed),
                              !.stale = stale, !.count = tracker, !.handled = handled]
      /\ cp' = [cp EXCEPT !.offset = read.offset, !.stale = warned]
      /\ reviewed' = reviewed \cup read.events
      /\ settled' = [settled EXCEPT !.stale = @ /\ read.events = {}]
  BY DEF Classify
<1> HIDE DEF stale, handled, warned, flawed
<1>4. tick \in Local /\ cp \in Checkpoint /\ tracker \in 0..Target
  BY DEF Types, Locals, Checkpoints, Campaign
<1>5. tick' \in Local /\ tick'.flaws = Cardinality(flawed)
  BY <1>1, <1>2, <1>3, <1>4 DEF Local
<1>6. cp' \in Checkpoint
  BY <1>2, <1>3, <1>4 DEF Checkpoint
<1>7. Memory'
  <2> DEFINE kept == settled.stale /\ read.events = {}
  <2>1. kept \in BOOLEAN /\ settled' = [settled EXCEPT !.stale = kept]
    BY <1>3
  <2> HIDE DEF kept
  <2>2. settled' \in [stale : BOOLEAN, flaws : 0..MaxLines]
    BY <2>1 DEF Types, Memory
  <2>3. reviewed' \subseteq 1..Len(log)'
    BY <1>3 DEF Types, Memory
  <2>4. QED
    BY <2>2, <2>3 DEF Memory
<1>8. QED
  BY <1>1, <1>5, <1>6, <1>7 DEF Checkpoints, Locals, Types

\* Tool calls are open only while they are called.
ToolsOpen == IF pc = "tools" THEN agent.open > 0 ELSE agent.open = 0
Inv == Types /\ ToolsOpen

LEMMA NextTypes == Inv /\ [Next]_vars => Types'
<1> SUFFICES ASSUME Inv, Types, [Next]_vars PROVE Types'
  BY DEF Inv
<1>1. CASE UNCHANGED vars
  BY <1>1 DEF Types, Campaign, Control, Checkpoints, Locals, Loop, World, Memory, vars,
              campaign, history
<1>2. CASE Next
  <2>1. CASE Begin
    <3>1. Locals'
      <4>1. PICK vpn \in {FALSE, old} : tick' = [NewTick EXCEPT !.handled = vpn, !.vpn = vpn]
        BY <2>1 DEF Begin
      <4>2. vpn \in BOOLEAN
        BY DEF Types, Campaign
      <4>3. QED
        BY <4>1, <4>2, BlankTypes DEF Locals, Local
    <3>2. Control'
      BY <2>1 DEF Begin, Types, Control, Steps
    <3>3. Checkpoints'
      BY <2>1 DEF Begin, Types, Checkpoints
    <3>4. (Campaign /\ Loop /\ World /\ Memory)'
      BY <2>1 DEF Begin, Types, Campaign, Loop, World, Memory, campaign, history
    <3>5. QED
      BY <3>1, <3>2, <3>3, <3>4 DEF Types
  <2>2. CASE Observe
    <3>1. (Checkpoints /\ Locals /\ Memory)'
      <4>1. CASE Classify(TailEvents(cp.offset))
        <5>1. Campaign /\ Len(log) \in 0..MaxLines
          BY DEF Types, Campaign
        <5>2. QED
          BY <2>2, <4>1, <5>1, ReadTypes, ClassifyTypes DEF Observe, campaign
      <4>2. CASE Classify([events |-> {}, offset |-> cp.offset])
        <5> DEFINE read == [events |-> {}, offset |-> cp.offset]
        <5>1. read.events = {} /\ read.offset = cp.offset
          OBVIOUS
        <5>2. read.offset \in 0..MaxLines
          BY <5>1 DEF Types, Checkpoints, Checkpoint
        <5>3. /\ read.events \subseteq 1..Len(log) /\ IsFiniteSet(read.events)
              /\ Cardinality(read.events) = 0
          BY <5>1, FS_EmptySet
        <5>4. Cardinality(read.events) \in 0..MaxEvents /\ Cardinality(read.events) <= MaxLines
          BY <5>3, NoneType, ReviewAssumption
        <5>5. Classify(read) /\ UNCHANGED <<log, saved>>
          BY <2>2, <4>2 DEF Observe, campaign
        <5> HIDE DEF read
        <5>6. QED
          BY <5>2, <5>3, <5>4, <5>5, ClassifyTypes
      <4>3. QED
        BY <2>2, <4>1, <4>2 DEF Observe
    <3>2. Control'
      BY <2>2 DEF Observe, Classify, Types, Control, Steps
    <3>3. World'
      BY <2>2, ReviewAssumption DEF Observe, Fault, Types, World
    <3>4. (Campaign /\ Loop)'
      BY <2>2 DEF Observe, Types, Campaign, Loop, campaign, history
    <3>5. QED
      BY <3>1, <3>2, <3>3, <3>4 DEF Types
  <2>3. CASE Persist
    <3>1. Control'
      BY <2>3 DEF Persist, Types, Control, Steps
    <3>2. Checkpoints'
      BY <2>3 DEF Persist, Types, Checkpoints
    <3>3. (Campaign /\ Locals /\ Loop /\ World /\ Memory)'
      BY <2>3 DEF Persist, Types, Campaign, Locals, Loop, World, Memory, campaign,
           history
    <3>4. QED
      BY <3>1, <3>2, <3>3 DEF Types
  <2>4. CASE Report
    <3>1. Checkpoints'
      <4> DEFINE stale == cp.stale /\ tick.seen = 0
      <4>1. stale \in BOOLEAN
        OBVIOUS
      <4>2. cp' = [cp EXCEPT !.reported = tick.count, !.stale = stale] /\ saved' = saved
        BY <2>4 DEF Report
      <4>3. tick.count \in 0..None
        BY NoneType DEF Types, Locals, Local
      <4> HIDE DEF stale
      <4>4. QED
        BY <4>1, <4>2, <4>3 DEF Types, Checkpoints, Checkpoint
    <3>2. World'
      <4>1. tick.count \in 0..None
        BY NoneType DEF Types, Locals, Local
      <4>2. QED
        BY <2>4, <4>1 DEF Report, Types, World
    <3>3. Control'
      BY <2>4 DEF Report, Types, Control, Steps
    <3>4. (Campaign /\ Locals /\ Loop /\ Memory)'
      BY <2>4 DEF Report, Types, Campaign, Locals, Loop, Memory, campaign, history
    <3>5. QED
      BY <3>1, <3>2, <3>3, <3>4 DEF Types
  <2>5. CASE DoNotAsk
    <3>1. Control'
      BY <2>5 DEF DoNotAsk, Types, Control, Steps
    <3>2. (Campaign /\ Checkpoints /\ Locals /\ Loop /\ World /\ Memory)'
      BY <2>5 DEF DoNotAsk, Types, Campaign, Checkpoints, Locals, Loop, World, Memory,
           campaign, history
    <3>3. QED
      BY <3>1, <3>2 DEF Types
  <2>6. CASE Propose
    <3>1. Checkpoints'
      <4> DEFINE stale == cp.stale \/ tick.stale
      <4>1. stale \in BOOLEAN
        OBVIOUS
      <4>2. cp' = [cp EXCEPT !.flaws = tick.flaws, !.stale = stale] /\ saved' = saved
        BY <2>6 DEF Propose
      <4>3. tick.flaws \in 0..MaxLines
        BY ReviewAssumption DEF Types, Locals, Local
      <4> HIDE DEF stale
      <4>4. QED
        BY <4>1, <4>2, <4>3 DEF Types, Checkpoints, Checkpoint
    <3>2. Locals'
      BY <2>6 DEF Propose, Types, Locals, Local
    <3>3. Loop'
      BY <2>6, BlankTypes DEF Propose, Loop
    <3>4. Control'
      BY <2>6 DEF Propose, Types, Control, Steps
    <3>5. (Campaign /\ World /\ Memory)'
      BY <2>6 DEF Propose, Types, Campaign, World, Memory, campaign, history
    <3>6. QED
      BY <3>1, <3>2, <3>3, <3>4, <3>5 DEF Types
  <2>7. CASE AgentStops
    <3>1. Control'
      BY <2>7 DEF AgentStops, AgentReturns, Types, Control, Steps
    <3>2. Loop'
      BY <2>7, BlankTypes DEF AgentStops, AgentReturns, Types, Loop
    <3>3. (Campaign /\ Checkpoints /\ Locals /\ World /\ Memory)'
      BY <2>7 DEF AgentStops, AgentReturns, Types, Campaign, Checkpoints, Locals,
           World, Memory, campaign, history
    <3>4. QED
      BY <3>1, <3>2, <3>3 DEF Types
  <2>8. ASSUME NEW answer \in {"failure", "nothing", "text", "patches"}, AskModel(answer) PROVE Types'
    <3>1. Control'
      BY <2>8 DEF AskModel, AgentReturns, StepTaken, Types, Control, Steps
    <3>2. Loop'
      BY <2>8, ReviewAssumption DEF AskModel, AgentReturns, StepTaken, Types, Loop
    <3>3. (Campaign /\ Checkpoints /\ Locals /\ World /\ Memory)'
      BY <2>8 DEF AskModel, AgentReturns, StepTaken, Types, Campaign, Checkpoints,
           Locals, World, Memory, campaign, history
    <3>4. QED
      BY <3>1, <3>2, <3>3 DEF Types
  <2>9. CASE Wake
    <3>1. Control'
      BY <2>9 DEF Wake, Types, Control, Steps
    <3>2. (Campaign /\ Checkpoints /\ Locals /\ Loop /\ World /\ Memory)'
      BY <2>9 DEF Wake, Types, Campaign, Checkpoints, Locals, Loop, World, Memory,
           campaign, history
    <3>3. QED
      BY <3>1, <3>2 DEF Types
  <2>10. ASSUME NEW calls \in 1..MaxToolCalls, AskForTools(calls) PROVE Types'
    <3>1. Loop'
      <4>1. calls \in 0..MaxToolCalls /\ agent.steps + 1 \in 0..MaxSteps
        BY <2>10, ReviewAssumption DEF AskForTools, Types, Loop
      <4>2. agent' = [agent EXCEPT !.steps = agent.steps + 1, !.open = calls]
        BY <2>10 DEF AskForTools, StepTaken, Types, Loop
      <4>3. QED
        BY <4>1, <4>2 DEF Types, Loop
    <3>2. Control'
      BY <2>10 DEF AskForTools, StepTaken, Types, Control, Steps
    <3>3. (Campaign /\ Checkpoints /\ Locals /\ World /\ Memory)'
      BY <2>10 DEF AskForTools, StepTaken, Types, Campaign, Checkpoints, Locals,
           World, Memory, campaign, history
    <3>4. QED
      BY <3>1, <3>2, <3>3 DEF Types
  <2>11. CASE CallTool
    <3>1. Loop'
      <4>1. agent.open > 0
        BY <2>11 DEF CallTool, Inv, ToolsOpen
      <4>2. QED
        BY <2>11, <4>1, ReviewAssumption DEF CallTool, Types, Loop
    <3>2. Control'
      BY <2>11 DEF CallTool, Types, Control, Steps
    <3>3. (Campaign /\ Checkpoints /\ Locals /\ World /\ Memory)'
      BY <2>11 DEF CallTool, Types, Campaign, Checkpoints, Locals, World, Memory,
           campaign, history
    <3>4. QED
      BY <3>1, <3>2, <3>3 DEF Types
  <2>12. ASSUME NEW approved \in BOOLEAN, PollSlack(approved) PROVE Types'
    <3>1. Control'
      BY <2>12 DEF PollSlack, Types, Control, Steps
    <3>2. Loop'
      BY <2>12, BlankTypes DEF PollSlack, Types, Loop
    <3>3. (Campaign /\ Checkpoints /\ Locals /\ World /\ Memory)'
      BY <2>12 DEF PollSlack, Types, Campaign, Checkpoints, Locals, World, Memory,
           campaign, history
    <3>4. QED
      BY <3>1, <3>2, <3>3 DEF Types
  <2>13. CASE Finish
    <3>1. Checkpoints'
      BY <2>13, BlankTypes DEF Finish, Over, Types, Checkpoints
    <3>2. Locals'
      BY <2>13, BlankTypes DEF Finish, Over, Locals
    <3>3. Loop'
      BY <2>13, BlankTypes DEF Finish, Over, Loop
    <3>4. Memory'
      <4>1. tick.stale \in BOOLEAN /\ tick.flaws \in 0..MaxLines
        BY ReviewAssumption DEF Types, Locals, Local
      <4>2. settled' \in [stale : BOOLEAN, flaws : 0..MaxLines]
        BY <2>13, <4>1 DEF Finish, Types, Memory
      <4>3. QED
        BY <2>13, <4>2 DEF Finish, Types, Memory, campaign
    <3>5. Control'
      BY <2>13 DEF Finish, Over, Types, Control, Steps
    <3>6. (Campaign /\ World)'
      BY <2>13 DEF Finish, Over, Types, Campaign, World, campaign, history
    <3>7. QED
      BY <3>1, <3>2, <3>3, <3>4, <3>5, <3>6 DEF Types
  <2>14. CASE Throw
    <3>1. Control'
      BY <2>14 DEF Throw, Over, Types, Control, Steps
    <3>2. Checkpoints'
      BY <2>14, BlankTypes DEF Throw, Over, Types, Checkpoints
    <3>3. Locals'
      BY <2>14, BlankTypes DEF Throw, Over, Types, Locals
    <3>4. Loop'
      BY <2>14, BlankTypes DEF Throw, Over, Types, Loop
    <3>5. World'
      BY <2>14, ReviewAssumption DEF Throw, Over, Fault, Types, World
    <3>6. (Campaign /\ Memory)'
      BY <2>14 DEF Throw, Over, Types, Campaign, Memory, campaign, history
    <3>7. QED
      BY <3>1, <3>2, <3>3, <3>4, <3>5, <3>6 DEF Types
  <2>15. CASE Shutdown
    <3>1. Control'
      BY <2>15 DEF Shutdown, Types, Control, Steps
    <3>2. World'
      BY <2>15, ReviewAssumption DEF Shutdown, Fault, Types, World
    <3>3. (Campaign /\ Checkpoints /\ Locals /\ Loop /\ Memory)'
      BY <2>15 DEF Shutdown, Types, Campaign, Checkpoints, Locals, Loop, Memory,
           campaign, history
    <3>4. QED
      BY <3>1, <3>2, <3>3 DEF Types
  <2>16. CASE Crash
    <3>1. Control'
      BY <2>16 DEF Crash, Gone, Over, Types, Control, Steps
    <3>2. Checkpoints'
      BY <2>16, BlankTypes DEF Crash, Gone, Over, Types, Checkpoints
    <3>3. Locals'
      BY <2>16, BlankTypes DEF Crash, Gone, Over, Types, Locals
    <3>4. Loop'
      BY <2>16, BlankTypes DEF Crash, Gone, Over, Types, Loop
    <3>5. World'
      BY <2>16, ReviewAssumption DEF Crash, Gone, Over, Fault, Types, World
    <3>6. Memory'
      BY <2>16, NothingType DEF Crash, Gone, Over, history, Types, Memory, campaign
    <3>7. (Campaign)'
      BY <2>16 DEF Crash, Gone, Over, Types, Campaign, campaign, history
    <3>8. QED
      BY <3>1, <3>2, <3>3, <3>4, <3>5, <3>6, <3>7 DEF Types
  <2>17. CASE Exit
    <3>1. Control'
      BY <2>17 DEF Exit, Gone, Over, Types, Control, Steps
    <3>2. Checkpoints'
      BY <2>17, BlankTypes DEF Exit, Gone, Over, Types, Checkpoints
    <3>3. Locals'
      BY <2>17, BlankTypes DEF Exit, Gone, Over, Types, Locals
    <3>4. Loop'
      BY <2>17, BlankTypes DEF Exit, Gone, Over, Types, Loop
    <3>5. Memory'
      BY <2>17, NothingType DEF Exit, Gone, Over, history, Types, Memory, campaign
    <3>6. (Campaign /\ World)'
      BY <2>17 DEF Exit, Gone, Over, Types, Campaign, World, campaign, history
    <3>7. QED
      BY <3>1, <3>2, <3>3, <3>4, <3>5, <3>6 DEF Types
  <2>18. CASE Restart
    <3>1. Control'
      BY <2>18 DEF Restart, Types, Control, Steps
    <3>2. (Campaign /\ Checkpoints /\ Locals /\ Loop /\ World /\ Memory)'
      BY <2>18 DEF Restart, Types, Campaign, Checkpoints, Locals, Loop, World, Memory,
           campaign, history
    <3>3. QED
      BY <3>1, <3>2 DEF Types
  <2>19. ASSUME NEW line \in Line, NEW count \in 0..Target, WriteLine(line, count) PROVE Types'
    <3>1. (Campaign /\ Memory)'
      <4>1. /\ log' \in Seq(Line) /\ Len(log') = Len(log) + 1
            /\ Len(log) \in 0..MaxLines /\ Len(log) < MaxLines
        BY <2>19 DEF WriteLine, Types, Campaign
      <4>2. Len(log)' \in 0..MaxLines /\ 1..Len(log) \subseteq 1..Len(log)'
        BY <4>1, ReviewAssumption
      <4>3. QED
        BY <2>19, <4>1, <4>2 DEF WriteLine, Types, Campaign, Memory, Rest, history
    <3>2. (Control /\ Checkpoints /\ Locals /\ Loop /\ World)'
      BY <2>19 DEF WriteLine, Rest, Types, Control, Steps, Checkpoints, Locals, Loop,
           World, campaign, history
    <3>3. QED
      BY <3>1, <3>2 DEF Types
  <2>20. CASE WritePartOfLine
    <3>1. Campaign'
      BY <2>20 DEF WritePartOfLine, Rest, Types, Campaign
    <3>2. (Control /\ Checkpoints /\ Locals /\ Loop /\ World /\ Memory)'
      BY <2>20 DEF WritePartOfLine, Rest, Types, Control, Steps, Checkpoints, Locals,
           Loop, World, Memory, campaign, history
    <3>3. QED
      BY <3>1, <3>2 DEF Types
  <2>21. CASE TimePasses
    <3>1. Campaign'
      BY <2>21 DEF TimePasses, Rest, Types, Campaign
    <3>2. (Control /\ Checkpoints /\ Locals /\ Loop /\ World /\ Memory)'
      BY <2>21 DEF TimePasses, Rest, Types, Control, Steps, Checkpoints, Locals, Loop,
           World, Memory, campaign, history
    <3>3. QED
      BY <3>1, <3>2 DEF Types
  <2>22. QED
    BY <1>2, <2>1, <2>2, <2>3, <2>4, <2>5, <2>6, <2>7, <2>8, <2>9, <2>10, <2>11,
         <2>12, <2>13, <2>14, <2>15, <2>16, <2>17, <2>18, <2>19, <2>20, <2>21
         DEF Next, Step, Worker
<1>3. QED
  BY <1>1, <1>2

-----------------------------------------------------------------------------
(***************************************************************************)
(* Tool calls.                                                             *)
(***************************************************************************)
LEMMA NextInv == Inv /\ [Next]_vars => Inv'
<1> SUFFICES ASSUME Inv, Types, ToolsOpen, [Next]_vars PROVE ToolsOpen'
  BY NextTypes DEF Inv
<1>1. CASE UNCHANGED <<pc, agent>>
  BY <1>1 DEF ToolsOpen
<1>2. CASE pc # "tools" /\ pc' # "tools" /\ UNCHANGED agent
  BY <1>2 DEF ToolsOpen
<1>3. CASE agent'.open = 0 /\ pc' # "tools"
  BY <1>3 DEF ToolsOpen
<1>4. CASE UNCHANGED vars
  BY <1>1, <1>4 DEF vars
<1>5. CASE Begin \/ Persist \/ Report \/ DoNotAsk \/ Wake \/ Restart
  BY <1>2, <1>5 DEF Begin, Persist, Report, DoNotAsk, Wake, Restart
<1>6. CASE Observe
  BY <1>2, <1>6 DEF Observe, Classify
<1>7. CASE Propose \/ AgentStops \/ Finish \/ Throw \/ Crash \/ Exit
  BY <1>3, <1>7 DEF Propose, AgentStops, AgentReturns, Finish, Throw, Crash, Exit, Gone, Over,
                    NewAgent
<1>8. ASSUME NEW answer \in {"failure", "nothing", "text", "patches"}, AskModel(answer)
      PROVE  ToolsOpen'
  BY <1>8 DEF AskModel, AgentReturns, StepTaken, ToolsOpen, Types, Loop
<1>9. ASSUME NEW calls \in 1..MaxToolCalls, AskForTools(calls) PROVE ToolsOpen'
  <2>1. agent'.open = calls /\ pc' = "tools"
    BY <1>9 DEF AskForTools, StepTaken, Types, Loop
  <2>2. QED
    BY <2>1, ReviewAssumption DEF ToolsOpen
<1>10. CASE CallTool
  BY <1>10, ReviewAssumption DEF CallTool, ToolsOpen, Types, Loop
<1>11. ASSUME NEW approved \in BOOLEAN, PollSlack(approved) PROVE ToolsOpen'
  BY <1>11 DEF PollSlack, ToolsOpen, NewAgent
<1>12. CASE Shutdown
  BY <1>1, <1>12 DEF Shutdown
<1>13. CASE Worker \/ TimePasses
  BY <1>1, <1>13 DEF Worker, WriteLine, WritePartOfLine, TimePasses, Rest
<1>14. QED
  BY <1>4, <1>5, <1>6, <1>7, <1>8, <1>9, <1>10, <1>11, <1>12, <1>13 DEF Next, Step

LEMMA InitInv == Init => Inv
BY InitTypes DEF Init, Inv, ToolsOpen, NewAgent

LEMMA Invariant == Spec => []Inv
BY InitInv, NextInv, PTL DEF Spec

\* Every tool call of an answer has its result in the conversation before the model
\* is asked again, however many calls, steps and faults (agent-loop.ts
\* runDirectorAgent()).
THEOREM ToolsAnswered == Spec => ToolCallsAnswered
<1>1. Inv /\ [Next]_vars => [agent'.steps > agent.steps => agent.open = 0]_vars
  <2> SUFFICES ASSUME Inv, Types, ToolsOpen, [Next]_vars, agent'.steps > agent.steps
               PROVE  agent.open = 0
    BY DEF Inv
  <2>1. agent.steps \in Nat
    BY ReviewAssumption DEF Types, Loop
  <2>2. CASE UNCHANGED agent
    BY <2>1, <2>2
  <2>3. CASE agent'.steps \in {0, agent.steps}
    BY <2>1, <2>3
  <2>4. CASE pc # "tools"
    BY <2>4 DEF ToolsOpen
  <2>5. CASE CallTool
    BY <2>3, <2>5 DEF CallTool, Types, Loop
  <2>6. CASE Throw \/ Crash \/ Exit
    BY <2>3, <2>6 DEF Throw, Crash, Exit, Gone, Over, NewAgent
  <2>7. CASE Shutdown \/ Worker \/ TimePasses \/ UNCHANGED vars
    BY <2>2, <2>7 DEF Shutdown, Worker, WriteLine, WritePartOfLine, TimePasses, Rest, vars
  <2>8. QED
    BY <2>4, <2>5, <2>6, <2>7 DEF Next, Step, Begin, Observe, Persist, Report, DoNotAsk, Propose,
       AgentStops, AskModel, Wake, AskForTools, PollSlack, Finish, Restart
<1>2. QED
  BY <1>1, Invariant, PTL DEF Spec, ToolCallsAnswered

-----------------------------------------------------------------------------
(***************************************************************************)
(* Questions.                                                              *)
(***************************************************************************)
InTick == pc \notin {"idle", "down"}
Before == {"observe", "persist", "report", "decide"}

\* What was settled is in the file and, until the tick asks, in its checkpoint; what
\* the tick has asked is in its checkpoint from then on.
Settled ==
  /\ settled.flaws = saved.flaws /\ (settled.stale => saved.stale)
  /\ InTick => /\ settled.stale => cp.stale
               /\ ~tick.asked => cp.flaws = settled.flaws
               /\ tick.asked => cp.flaws = tick.flaws /\ (tick.stale => cp.stale) /\ pc \notin Before
               /\ tick.handled /\ settled.stale => tick.vpn
  /\ pc \in {"persist", "report"} /\ settled.stale => tick.seen = 0

LEMMA ClassifySettled ==
  ASSUME Inv, Types, Settled, pc = "observe", UNCHANGED saved,
         NEW read, IsFiniteSet(read.events), Classify(read)
  PROVE  Settled'
<1> DEFINE stale == read.events = {} /\ old /\ tracker < Target
           fire == stale /\ ~cp.stale /\ ~tick.handled
<1>0. tick \in Local /\ cp \in Checkpoint /\ settled \in [stale : BOOLEAN, flaws : 0..MaxLines]
  BY DEF Types, Locals, Checkpoints, Memory
<1>1. /\ tick'.asked = tick.asked /\ tick'.vpn = tick.vpn
      /\ tick'.handled <=> tick.handled \/ fire
      /\ tick'.seen = Cardinality(read.events)
  <2>1. tick'.handled = (tick.handled \/ fire)
    BY <1>0 DEF Classify, Local
  <2>2. QED
    BY <1>0, <2>1 DEF Classify, Local
<1>2. cp'.flaws = cp.flaws /\ (cp'.stale <=> cp.stale \/ fire)
  <2>1. cp'.stale = (cp.stale \/ fire)
    BY <1>0 DEF Classify, Checkpoint
  <2>2. QED
    BY <1>0, <2>1 DEF Classify, Checkpoint
<1>3. settled'.flaws = settled.flaws /\ (settled'.stale <=> settled.stale /\ read.events = {})
  <2>1. settled'.stale = (settled.stale /\ read.events = {})
    BY <1>0 DEF Classify
  <2>2. QED
    BY <1>0, <2>1 DEF Classify
<1>4. pc' \in {"persist", "report"}
  BY DEF Classify
<1>5. read.events = {} => Cardinality(read.events) = 0
  BY FS_EmptySet
<1>6. fire => ~cp.stale
  OBVIOUS
<1> HIDE DEF fire, stale
<1>7. ~tick.asked
  BY DEF Settled, InTick, Before
<1>8. QED
  BY <1>1, <1>2, <1>3, <1>4, <1>5, <1>6, <1>7 DEF Settled, InTick, Before

LEMMA NextSettled == Inv /\ Settled /\ [Next]_vars => Settled'
<1> SUFFICES ASSUME Inv, Types, Settled, [Next]_vars PROVE Settled'
  BY DEF Inv
<1>0. /\ tick \in Local /\ cp \in Checkpoint /\ saved \in Checkpoint
      /\ settled \in [stale : BOOLEAN, flaws : 0..MaxLines]
  BY DEF Types, Locals, Checkpoints, Memory
<1>1. CASE UNCHANGED vars
  BY <1>1 DEF vars, history, Settled, InTick, Before
<1>2. CASE Begin
  <2>1. PICK vpn \in {FALSE, old} : tick' = [NewTick EXCEPT !.handled = vpn, !.vpn = vpn]
    BY <1>2 DEF Begin
  <2>2. ~tick'.asked /\ (tick'.handled => tick'.vpn)
    BY <2>1 DEF NewTick
  <2>3. QED
    BY <1>2, <2>2 DEF Begin, history, Settled, InTick, Before
<1>3. CASE Observe
  <2>1. CASE Classify(TailEvents(cp.offset))
    BY <1>3, <2>1, ReadTypes, ClassifySettled DEF Observe, Types
  <2>2. CASE Classify([events |-> {}, offset |-> cp.offset])
    BY <1>3, <2>2, FS_EmptySet, ClassifySettled DEF Observe
  <2>3. QED
    BY <1>3, <2>1, <2>2 DEF Observe
<1>4. CASE Persist
  BY <1>4 DEF Persist, history, Settled, InTick, Before
<1>5. CASE Report
  <2>1. cp'.stale <=> cp.stale /\ tick.seen = 0
    <3>1. cp'.stale = (cp.stale /\ tick.seen = 0)
      BY <1>0, <1>5 DEF Report, Checkpoint
    <3>2. QED
      BY <1>0, <3>1 DEF Checkpoint
  <2>2. cp'.flaws = cp.flaws
    BY <1>0, <1>5 DEF Report, Checkpoint
  <2>3. QED
    BY <1>5, <2>1, <2>2 DEF Report, history, Settled, InTick, Before
<1>6. CASE Propose
  <2>1. cp'.stale <=> cp.stale \/ tick.stale
    <3>1. cp'.stale = (cp.stale \/ tick.stale)
      BY <1>0, <1>6 DEF Propose, Checkpoint
    <3>2. QED
      BY <1>0, <3>1 DEF Checkpoint
  <2>2. cp'.flaws = tick.flaws /\ tick' = [tick EXCEPT !.asked = TRUE]
    BY <1>0, <1>6 DEF Propose, Checkpoint
  <2>3. /\ tick'.asked /\ tick'.stale = tick.stale /\ tick'.flaws = tick.flaws
        /\ tick'.vpn = tick.vpn /\ tick'.handled = tick.handled
    BY <1>0, <2>2 DEF Local
  <2>4. QED
    BY <1>6, <2>1, <2>2, <2>3 DEF Propose, history, Settled, InTick, Before
<1>7. CASE DoNotAsk \/ Wake \/ AgentStops \/ CallTool
  BY <1>7 DEF DoNotAsk, Wake, AgentStops, AgentReturns, CallTool, history, Settled, InTick, Before
<1>8. CASE \/ \E answer \in {"failure", "nothing", "text", "patches"} : AskModel(answer)
           \/ \E calls \in 1..MaxToolCalls : AskForTools(calls)
           \/ \E approved \in BOOLEAN : PollSlack(approved)
  BY <1>8 DEF AskModel, AgentReturns, AskForTools, PollSlack, history, Settled, InTick, Before
<1>9. CASE Finish
  <2>1. CASE tick.asked
    BY <1>9, <2>1 DEF Finish, Settled, InTick
  <2>2. CASE ~tick.asked
    BY <1>9, <2>2 DEF Finish, Settled, InTick
  <2>3. QED
    BY <2>1, <2>2
<1>10. CASE Throw
  BY <1>10 DEF Throw, history, Settled, InTick
<1>11. CASE Crash \/ Exit
  <2>1. Gone
    BY <1>11 DEF Crash, Exit
  <2>2. pc' = "down"
    BY <2>1 DEF Gone
  <2>3. CASE UNCHANGED <<saved, history>>
    BY <2>2, <2>3 DEF history, Settled, InTick
  <2>4. CASE saved' = Blank /\ settled' = Nothing
    BY <2>2, <2>4 DEF Blank, Nothing, Settled, InTick
  <2>5. QED
    BY <2>1, <2>3, <2>4 DEF Gone
<1>12. CASE Shutdown
  BY <1>12 DEF Shutdown, history, Settled, InTick, Before
<1>13. CASE Restart
  BY <1>13 DEF Restart, history, Settled, InTick
<1>14. CASE Worker \/ TimePasses
  BY <1>14 DEF Worker, WriteLine, WritePartOfLine, TimePasses, Rest, history, Settled, InTick, Before
<1>15. QED
  BY <1>1, <1>2, <1>3, <1>4, <1>5, <1>6, <1>7, <1>8, <1>9, <1>10, <1>11, <1>12, <1>13, <1>14
  DEF Next, Step

\* The model is not asked twice about the same flaws, nor about a stall before a new
\* event, unless the tick that asked failed, its checkpoint was lost or the VPN
\* rotation has restarted the worker (loop.ts runOnce() phase 4).
THEOREM NotAskedTwice == Spec => AskedOnce
<1>1. Init => Settled
  BY DEF Init, Settled, InTick, Blank, Nothing
<1>2. ASSUME Inv, Settled, [Next]_vars, pc = "decide", pc' = "agent"
      PROVE  IF tick.stale THEN settled.stale => tick.vpn ELSE tick.flaws # settled.flaws
  <2>1. Propose
    BY <1>2 DEF Next, Step, Begin, Observe, Classify, Persist, Report, DoNotAsk, AgentStops,
       AskModel, Wake, AskForTools, CallTool, PollSlack, Finish, Restart, Throw, Crash, Exit,
       Gone, Shutdown, Worker, WriteLine, WritePartOfLine, TimePasses, Rest, vars
  <2>2. ~tick.asked
    BY <1>2 DEF Settled, InTick, Before
  <2>3. QED
    BY <1>2, <2>1, <2>2 DEF Propose, MayAsk, Warned, SameState, Settled, InTick
<1>3. Inv /\ Settled /\ [Next]_vars
        => [pc = "decide" /\ pc' = "agent" =>
              IF tick.stale THEN settled.stale => tick.vpn ELSE tick.flaws # settled.flaws]_vars
  BY <1>2
<1>4. QED
  BY <1>1, <1>3, Invariant, NextSettled, PTL DEF Spec, AskedOnce

-----------------------------------------------------------------------------
(***************************************************************************)
(* Events.                                                                 *)
(***************************************************************************)
Passed(lines, classified, offset) ==
  \A n \in 1..Len(lines) :
    n <= offset /\ lines[n] # "junk" /\ n \notin classified =>
      Cardinality({i \in classified : i < n}) >= MaxEvents

\* Both offsets are in the log and have passed no event unseen.
OffsetsPassed ==
  \A c \in {cp, saved} : c.offset <= Len(log) /\ Passed(log, reviewed, c.offset)

\* A line that is appended is behind the offset; more events seen do no harm.
LEMMA PassedStays ==
  ASSUME NEW lines \in Seq(Line), NEW after \in Seq(Line),
         Len(after) >= Len(lines), \A n \in 1..Len(lines) : after[n] = lines[n],
         NEW classified \in SUBSET Nat, NEW more \in SUBSET Nat,
         classified \subseteq more, IsFiniteSet(more),
         NEW offset \in Nat, offset <= Len(lines), Passed(lines, classified, offset)
  PROVE  Passed(after, more, offset)
<1> SUFFICES ASSUME NEW n \in 1..Len(after), n <= offset, after[n] # "junk", n \notin more
             PROVE  Cardinality({i \in more : i < n}) >= MaxEvents
  BY DEF Passed
<1>1. Cardinality({i \in classified : i < n}) >= MaxEvents
  BY LenProperties DEF Passed
<1>2. /\ {i \in classified : i < n} \subseteq {i \in more : i < n}
      /\ IsFiniteSet({i \in more : i < n})
  BY FS_Subset
<1>3. /\ IsFiniteSet({i \in classified : i < n})
      /\ Cardinality({i \in classified : i < n}) <= Cardinality({i \in more : i < n})
  BY <1>2, FS_Subset
<1>4. QED
  BY <1>1, <1>2, <1>3, FS_CardinalityType, ReviewAssumption

\* What tailEvents() leaves out has MaxEvents events in front of it.
LEMMA TailPassed ==
  ASSUME Types, NEW offset \in Nat, offset <= Len(log), Passed(log, reviewed, offset)
  PROVE  Passed(log, reviewed \cup TailEvents(offset).events, Len(log))
<1> DEFINE E == EventsIn(Past(offset))
           F == First(MaxEvents, E)
           more == reviewed \cup F
<1>1. /\ Len(log) \in Nat /\ log \in Seq(Line) /\ reviewed \subseteq 1..Len(log)
      /\ MaxEvents \in Nat
  BY LenProperties, ReviewAssumption DEF Types, Campaign, Memory
<1>2. E \in SUBSET (1..Len(log)) /\ F \subseteq E
  BY DEF EventsIn, Past, First
<1>3. more \subseteq 1..Len(log) /\ IsFiniteSet(more)
  BY <1>1, <1>2, IntervalFinite, FS_Subset
<1>4. more \in SUBSET Nat /\ reviewed \in SUBSET Nat
  BY <1>1, <1>3
<1>5. Passed(log, more, offset)
  BY <1>1, <1>3, <1>4, PassedStays
<1>6. ASSUME NEW n \in 1..Len(log), log[n] # "junk", n \notin more
      PROVE  Cardinality({i \in more : i < n}) >= MaxEvents
  <2>1. CASE n <= offset
    BY <1>5, <1>6, <2>1 DEF Passed
  <2>2. CASE n > offset
    <3>1. n \in E /\ n \notin F
      BY <1>6, <2>2 DEF EventsIn, Past
    <3>2. Cardinality({i \in F : i < n}) >= MaxEvents
      <4> HIDE DEF E
      <4>1. QED
        BY <1>1, <1>2, <3>1, FirstReaches
    <3>3. /\ {i \in F : i < n} \subseteq {i \in more : i < n}
          /\ IsFiniteSet({i \in more : i < n})
      BY <1>3, FS_Subset
    <3>4. /\ IsFiniteSet({i \in F : i < n})
          /\ Cardinality({i \in F : i < n}) <= Cardinality({i \in more : i < n})
      BY <3>3, FS_Subset
    <3>5. QED
      BY <1>1, <3>2, <3>3, <3>4, FS_CardinalityType
  <2>3. QED
    BY <2>1, <2>2
<1>7. TailEvents(offset).events = F
  BY DEF TailEvents
<1> HIDE DEF E, F
<1>8. QED
  BY <1>6, <1>7 DEF Passed

LEMMA NextPassed == Inv /\ OffsetsPassed /\ [Next]_vars => OffsetsPassed'
<1> SUFFICES ASSUME Inv, Types, Types', OffsetsPassed, [Next]_vars PROVE OffsetsPassed'
  BY NextTypes DEF Inv
<1>1. /\ log \in Seq(Line) /\ Len(log) \in Nat /\ reviewed \in SUBSET Nat
      /\ log' \in Seq(Line) /\ Len(log') \in Nat /\ reviewed' \in SUBSET Nat
      /\ IsFiniteSet(reviewed')
      /\ cp.offset \in Nat /\ saved.offset \in Nat
  <2>1. /\ log \in Seq(Line) /\ Len(log) \in Nat /\ log' \in Seq(Line) /\ Len(log') \in Nat
        /\ reviewed \subseteq 1..Len(log) /\ reviewed' \subseteq 1..Len(log')
    BY LenProperties DEF Types, Campaign, Memory
  <2>2. cp.offset \in Nat /\ saved.offset \in Nat
    BY ReviewAssumption DEF Types, Checkpoints, Checkpoint
  <2>3. IsFiniteSet(reviewed')
    BY <2>1, IntervalFinite, FS_Subset
  <2>4. \A k \in Nat : 1..k \in SUBSET Nat
    OBVIOUS
  <2>5. QED
    BY <2>1, <2>2, <2>3, <2>4
<1>2. 0 <= Len(log') /\ Passed(log', reviewed', 0)
  BY <1>1 DEF Passed
\* Every step but a tick's look at the log moves no offset forward.
<1>3. ASSUME Len(log') >= Len(log), \A n \in 1..Len(log) : log'[n] = log[n],
             reviewed \subseteq reviewed',
             \A c \in {cp', saved'} : c.offset \in {0, cp.offset, saved.offset}
      PROVE  OffsetsPassed'
  <2>1. \A offset \in {cp.offset, saved.offset} :
          offset <= Len(log') /\ Passed(log', reviewed', offset)
    <3> SUFFICES ASSUME NEW offset \in {cp.offset, saved.offset}
                 PROVE  offset <= Len(log') /\ Passed(log', reviewed', offset)
      OBVIOUS
    <3>1. offset \in Nat /\ offset <= Len(log) /\ Passed(log, reviewed, offset)
      BY <1>1 DEF OffsetsPassed
    <3>2. Passed(log', reviewed', offset)
      BY <1>1, <1>3, <3>1, PassedStays
    <3>3. QED
      BY <1>1, <1>3, <3>1, <3>2
  <2>2. QED
    BY <1>2, <1>3, <2>1 DEF OffsetsPassed
<1>4. CASE UNCHANGED <<log, reviewed>>
           /\ \A c \in {cp', saved'} : c.offset \in {0, cp.offset, saved.offset}
  BY <1>1, <1>3, <1>4
<1>5. CASE \/ Begin \/ Persist \/ DoNotAsk \/ AgentStops \/ Wake \/ CallTool \/ Shutdown \/ Restart
           \/ (\E answer \in {"failure", "nothing", "text", "patches"} : AskModel(answer))
           \/ (\E calls \in 1..MaxToolCalls : AskForTools(calls))
           \/ (\E approved \in BOOLEAN : PollSlack(approved))
           \/ UNCHANGED vars
  BY <1>4, <1>5 DEF Begin, Persist, DoNotAsk, AgentStops, Wake, CallTool, Shutdown, Restart,
     AskModel, AskForTools, PollSlack, vars, campaign, history
<1>6. CASE Finish \/ Throw
  BY <1>4, <1>6 DEF Finish, Throw, Over, Blank, campaign, history
<1>7. CASE Crash \/ Exit
  BY <1>4, <1>7 DEF Crash, Exit, Gone, Over, Blank, campaign, history
<1>8. CASE Report \/ Propose
  <2>1. cp'.offset = cp.offset
    BY <1>8 DEF Report, Propose, Types, Checkpoints, Checkpoint
  <2>2. QED
    BY <1>4, <1>8, <2>1 DEF Report, Propose, campaign, history
<1>9. CASE Worker \/ TimePasses
  <2>1. UNCHANGED <<cp, saved, reviewed>>
    BY <1>9 DEF Worker, WriteLine, WritePartOfLine, TimePasses, Rest, history
  <2>2. \/ UNCHANGED log
        \/ \E line \in Line : log' = Append(log, line)
    BY <1>9 DEF Worker, WriteLine, WritePartOfLine, TimePasses
  <2>3. Len(log') >= Len(log) /\ \A n \in 1..Len(log) : log'[n] = log[n]
    BY <1>1, <2>2, AppendProperties
  <2>4. QED
    BY <1>3, <2>1, <2>3
<1>10. CASE Observe
  <2>1. UNCHANGED <<log, saved>>
    BY <1>10 DEF Observe, campaign
  <2>2. ASSUME NEW read, Classify(read)
        PROVE  cp'.offset = read.offset /\ reviewed' = reviewed \cup read.events
    BY <2>2 DEF Classify, Types, Checkpoints, Checkpoint
  <2>3. saved.offset <= Len(log') /\ Passed(log', reviewed', saved.offset)
    <3>1. reviewed \subseteq reviewed'
      BY <1>10, <2>2 DEF Observe
    <3>2. saved.offset <= Len(log) /\ Passed(log, reviewed, saved.offset)
      BY DEF OffsetsPassed
    <3>3. QED
      BY <1>1, <2>1, <3>1, <3>2, PassedStays
  <2>4. CASE Classify(TailEvents(cp.offset))
    <3>1. cp.offset <= Len(log) /\ Passed(log, reviewed, cp.offset)
      BY DEF OffsetsPassed
    <3>2. Passed(log, reviewed \cup TailEvents(cp.offset).events, Len(log))
      BY <1>1, <3>1, TailPassed
    <3>3. TailEvents(cp.offset).offset = Len(log)
      BY DEF TailEvents
    <3>4. cp'.offset = Len(log) /\ reviewed' = reviewed \cup TailEvents(cp.offset).events
      BY <2>2, <2>4, <3>3
    <3>5. QED
      BY <1>1, <2>1, <2>3, <3>2, <3>4 DEF OffsetsPassed
  <2>5. CASE Classify([events |-> {}, offset |-> cp.offset])
    <3>1. cp'.offset = cp.offset /\ reviewed' = reviewed
      BY <2>2, <2>5
    <3>2. QED
      BY <1>4, <2>1, <3>1
  <2>6. QED
    BY <1>10, <2>4, <2>5 DEF Observe
<1>11. QED
  BY <1>5, <1>6, <1>7, <1>8, <1>9, <1>10 DEF Next, Step

\* However long the log, whatever throws or dies, and wherever the worker stands in
\* a line: the saved offset passes an event only that was classified, or one
\* behind MaxEvents others (observe.ts tailEvents()).
THEOREM ReviewSafe == Spec => []ReviewInv
<1>1. Init => OffsetsPassed
  <2> SUFFICES ASSUME Init PROVE OffsetsPassed
    OBVIOUS
  <2>1. Len(log) = 0
    BY DEF Init
  <2>2. QED
    BY <2>1 DEF Init, Blank, OffsetsPassed, Passed
<1>2. ASSUME Inv, OffsetsPassed PROVE ReviewInv
  <2>1. log \in UNION {[1..n -> Line] : n \in 0..MaxLines}
    <3>1. log \in [1..Len(log) -> Line] /\ Len(log) \in 0..MaxLines
      BY <1>2, LenProperties DEF Inv, Types, Campaign
    <3>2. QED
      BY <3>1
  <2>2. reviewed \subseteq 1..MaxLines
    BY <1>2, ReviewAssumption DEF Inv, Types, Campaign, Memory
  <2>3. TypeOK
    BY <1>2, <2>1, <2>2
       DEF Inv, Types, Campaign, Control, Checkpoints, Locals, Local, Loop, World, Memory, TypeOK
  <2>4. NothingSkipped
    BY <1>2 DEF OffsetsPassed, Passed, NothingSkipped
  <2>5. QED
    BY <2>3, <2>4 DEF ReviewInv
<1>3. Inv /\ OffsetsPassed => ReviewInv
  BY <1>2
<1>4. QED
  BY <1>1, <1>3, Invariant, NextPassed, PTL DEF Spec
=============================================================================
