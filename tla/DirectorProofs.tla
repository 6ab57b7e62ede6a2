---------------------------- MODULE DirectorProofs ----------------------------
(***************************************************************************)
(* What the Director supervises.  The worker, for every threshold,         *)
(* interval and number of faults: types, one worker, one restart per tick  *)
(* and one recovery per saved stall.  The broker, for every number of      *)
(* shells and faults and any back-off: types, and no recovery before the   *)
(* outage is confirmed.                                                    *)
(***************************************************************************)
EXTENDS DirectorTick, KafkaSupervision, TLAPS

-----------------------------------------------------------------------------
(***************************************************************************)
(* Types.                                                                  *)
(***************************************************************************)
\* The type invariant in parts: what needs arithmetic, and what is Boolean.
Numbers ==
  /\ coming \in Nat /\ up \in Nat /\ restarts \in Nat
  /\ quiet \in 0..StaleThreshold /\ faults \in 0..MaxFaults
Flags ==
  /\ env \in [autostart : BOOLEAN, vpn : BOOLEAN]
  /\ tick \in [handled : BOOLEAN, seen : BOOLEAN, stale : BOOLEAN]
  /\ unread \in BOOLEAN /\ later \in BOOLEAN /\ orphan \in BOOLEAN /\ mcp \in BOOLEAN
  /\ lock \in BOOLEAN /\ complete \in BOOLEAN /\ recovered \in BOOLEAN
Places == pc \in Steps \cup {"idle", "down"} /\ caller \in Callers
Checkpoints == cp \in Checkpoint /\ saved \in Checkpoint

LEMMA TypeParts ==
  /\ TypeOK <=> Numbers /\ Flags /\ Places /\ Checkpoints
  /\ TypeOK' <=> Numbers' /\ Flags' /\ Places' /\ Checkpoints'
BY Zenon DEF TypeOK, Numbers, Flags, Places, Checkpoints

LEMMA Bounds ==
  /\ 0 \in 0..Due /\ Due \in 0..Due /\ \A age \in 0..Due : Older(age, Due) \in 0..Due
  /\ 0 \in 0..StaleThreshold
  /\ \A age \in 0..StaleThreshold : Older(age, StaleThreshold) \in 0..StaleThreshold
BY NumberAssumption DEF Due, Older

LEMMA BlankCheckpoint == Blank \in Checkpoint
BY Bounds DEF Blank, Checkpoint

LEMMA Counts == 0 \in Nat /\ 1 \in Nat /\ \A n \in Nat : n + 1 \in Nat /\ (n > 0 => n - 1 \in Nat)
OBVIOUS

LEMMA FaultBound == faults \in 0..MaxFaults /\ Fault => faults' \in 0..MaxFaults
BY NumberAssumption DEF Fault

LEMMA InitTypeOK == Init => TypeOK
<1>1. 0 \in 0..MaxFaults
  BY NumberAssumption
<1>2. ASSUME Init PROVE Numbers
  BY <1>1, <1>2, Bounds DEF Init, Numbers
<1>3. ASSUME Init PROVE Flags
  BY <1>3 DEF Init, Flags, NewTick
<1>4. ASSUME Init PROVE Places /\ Checkpoints
  BY <1>4, BlankCheckpoint DEF Init, Places, Checkpoints, Steps, Callers
<1>5. QED
  BY <1>2, <1>3, <1>4, TypeParts

LEMMA NextTypeOK == TypeOK /\ [Next]_vars => TypeOK'
<1> SUFFICES ASSUME TypeOK, Numbers, Flags, Places, Checkpoints, [Next]_vars PROVE TypeOK'
  BY TypeParts
<1>1. CASE UNCHANGED vars
  BY <1>1 DEF TypeOK, vars, campaign, history
<1>2. CASE Next
  <2>1. CASE Begin
    BY <2>1, Counts DEF Begin, NewTick, TypeOK, Checkpoint, Steps, Callers,
         campaign, history
  <2>2. CASE CheckInfrastructure
    BY <2>2 DEF CheckInfrastructure, TypeOK, Checkpoint, Steps, Callers,
         campaign, history
  <2>3. CASE VpnWaits
    BY <2>3 DEF VpnWaits, TypeOK, Checkpoint, Steps, Callers, campaign, history
  <2>4. ASSUME NEW ok \in BOOLEAN, Rotate(ok) PROVE TypeOK'
    <3>1. Numbers'
      BY <2>4, NumberAssumption DEF Rotate, Fault, Older, Numbers, campaign,
           history
    <3>2. Flags'
      <4> DEFINE restart == ok /\ env.autostart /\ quiet = StaleThreshold
      <4>1. restart \in BOOLEAN
        OBVIOUS
      <4>2. tick' = [tick EXCEPT !.handled = restart]
        BY <2>4 DEF Rotate
      <4> HIDE DEF restart
      <4>3. tick' \in [handled : BOOLEAN, seen : BOOLEAN, stale : BOOLEAN]
        BY <4>1, <4>2 DEF Flags
      <4>4. QED
        BY <2>4, <4>3 DEF Rotate, Flags, campaign, history
    <3>3. Checkpoints'
      BY <2>4, Bounds DEF Rotate, Checkpoints, Checkpoint, campaign, history
    <3>4. Places'
      BY <2>4 DEF Rotate, Places, Steps, Callers, campaign, history
    <3>5. QED
      BY <3>1, <3>2, <3>3, <3>4, TypeParts
  <2>5. CASE Stop
    <3>1. Numbers'
      BY <2>5, NumberAssumption DEF Stop, Killed, Running, Fault, Older,
           Numbers, campaign, history
    <3>2. Flags'
      BY <2>5 DEF Stop, Killed, Running, Flags, campaign, history
    <3>3. Checkpoints'
      BY <2>5, BlankCheckpoint DEF Stop, Killed, Running, Checkpoints, campaign,
           history
    <3>4. Places'
      BY <2>5 DEF Stop, Killed, Running, Places, Steps, Callers, campaign,
           history
    <3>5. QED
      BY <3>1, <3>2, <3>3, <3>4, TypeParts
  <2>6. CASE Launch
    <3>1. Numbers'
      BY <2>6, NumberAssumption DEF Launch, Spawn, Fault, Older, Numbers,
           campaign, history
    <3>2. Flags'
      BY <2>6, ZenonT(40) DEF Launch, Spawn, Flags, campaign, history
    <3>3. Checkpoints'
      BY <2>6, BlankCheckpoint DEF Launch, Spawn, Checkpoints, campaign, history
    <3>4. Places'
      BY <2>6 DEF Launch, Spawn, Places, Steps, Callers, campaign, history
    <3>5. QED
      BY <3>1, <3>2, <3>3, <3>4, TypeParts
  <2>7. CASE Await
    BY <2>7 DEF Await, TypeOK, Checkpoint, Steps, Callers, campaign, history
  <2>8. CASE CampaignRuns
    BY <2>8 DEF CampaignRuns, Running, Orphaned, TypeOK, Checkpoint, Steps,
         Callers, campaign, history
  <2>9. CASE CampaignOrphaned
    <3>1. Numbers'
      BY <2>9, NumberAssumption DEF CampaignOrphaned, Killed, Running, Orphaned,
           Fault, Older, Numbers, campaign, history
    <3>2. Flags'
      BY <2>9 DEF CampaignOrphaned, Killed, Running, Orphaned, Flags, campaign,
           history
    <3>3. Checkpoints'
      BY <2>9, BlankCheckpoint DEF CampaignOrphaned, Killed, Running, Orphaned,
           Checkpoints, campaign, history
    <3>4. Places'
      BY <2>9 DEF CampaignOrphaned, Killed, Running, Orphaned, Places, Steps,
           Callers, campaign, history
    <3>5. QED
      BY <3>1, <3>2, <3>3, <3>4, TypeParts
  <2>10. CASE CampaignStarts
    <3>1. Numbers'
      BY <2>10, NumberAssumption DEF CampaignStarts, Spawn, SpawnFails, Running,
           Fault, Older, Numbers, campaign, history
    <3>2. Flags'
      BY <2>10, ZenonT(40)
      DEF CampaignStarts, Spawn, SpawnFails, Running, Flags, campaign, history
    <3>3. Checkpoints'
      BY <2>10, BlankCheckpoint DEF CampaignStarts, Spawn, SpawnFails, Running,
           Checkpoints, campaign, history
    <3>4. Places'
      BY <2>10 DEF CampaignStarts, Spawn, SpawnFails, Running, Places, Steps,
           Callers, campaign, history
    <3>5. QED
      BY <3>1, <3>2, <3>3, <3>4, TypeParts
  <2>11. CASE Observe
    <3>1. Numbers'
      BY <2>11, NumberAssumption DEF Observe, Stale, Fault, Older, Numbers,
           campaign, history
    <3>2. Flags'
      BY <2>11 DEF Observe, Stale, Flags, campaign, history
    <3>3. Checkpoints'
      BY <2>11, BlankCheckpoint DEF Observe, Stale, Checkpoints, campaign,
           history
    <3>4. Places'
      BY <2>11 DEF Observe, Stale, Places, Steps, Callers, campaign, history
    <3>5. QED
      BY <3>1, <3>2, <3>3, <3>4, TypeParts
  <2>12. CASE Fire
    BY <2>12, Bounds, ZenonT(40) DEF Fire, TypeOK, Checkpoint, Steps, Callers, campaign,
         history
  <2>13. CASE Persist
    BY <2>13 DEF Persist, Save, TypeOK, Checkpoint, Steps, Callers, campaign,
         history
  <2>14. CASE Report
    BY <2>14 DEF Report, TypeOK, Checkpoint, Steps, Callers, campaign, history
  <2>15. CASE Finish
    BY <2>15 DEF Finish, Save, TypeOK, Checkpoint, Steps, Callers, campaign,
         history
  <2>16. CASE Restart
    BY <2>16 DEF Restart, TypeOK, Checkpoint, Steps, Callers, campaign, history
  <2>17. CASE LaunchFails
    BY <2>17, FaultBound DEF LaunchFails, SpawnFails, TypeOK, Checkpoint, Steps,
         Callers, campaign, history
  <2>18. CASE Throw
    BY <2>18, FaultBound DEF Throw, TypeOK, Checkpoint, Steps, Callers,
         campaign, history
  <2>19. CASE Crash
    <3>1. Numbers'
      BY <2>19, NumberAssumption DEF Crash, Torn, Fault, Older, Numbers,
           campaign, history
    <3>2. Flags'
      BY <2>19 DEF Crash, Torn, Flags, campaign, history
    <3>3. Checkpoints'
      BY <2>19, BlankCheckpoint DEF Crash, Torn, Checkpoints, campaign, history
    <3>4. Places'
      BY <2>19 DEF Crash, Torn, Places, Steps, Callers, campaign, history
    <3>5. QED
      BY <3>1, <3>2, <3>3, <3>4, TypeParts
  <2>20. CASE Register
    <3>1. Numbers'
      BY <2>20, NumberAssumption DEF Register, Rest, Fault, Older, Numbers,
           campaign, history
    <3>2. Flags'
      BY <2>20 DEF Register, Rest, Flags, campaign, history
    <3>3. Checkpoints'
      BY <2>20, BlankCheckpoint DEF Register, Rest, Checkpoints, campaign,
           history
    <3>4. Places'
      BY <2>20 DEF Register, Rest, Places, Steps, Callers, campaign, history
    <3>5. QED
      BY <3>1, <3>2, <3>3, <3>4, TypeParts
  <2>21. CASE UserStarts
    <3>1. Numbers'
      BY <2>21, NumberAssumption DEF UserStarts, Rest, Fault, Older, Numbers,
           campaign, history
    <3>2. Flags'
      BY <2>21 DEF UserStarts, Rest, Flags, campaign, history
    <3>3. Checkpoints'
      BY <2>21, BlankCheckpoint DEF UserStarts, Rest, Checkpoints, campaign,
           history
    <3>4. Places'
      BY <2>21 DEF UserStarts, Rest, Places, Steps, Callers, campaign, history
    <3>5. QED
      BY <3>1, <3>2, <3>3, <3>4, TypeParts
  <2>22. CASE WorkerEnds
    <3>1. Numbers'
      BY <2>22, NumberAssumption DEF WorkerEnds, Rest, Fault, Older, Numbers,
           campaign, history
    <3>2. Flags'
      BY <2>22 DEF WorkerEnds, Rest, Flags, campaign, history
    <3>3. Checkpoints'
      BY <2>22, BlankCheckpoint DEF WorkerEnds, Rest, Checkpoints, campaign,
           history
    <3>4. Places'
      BY <2>22 DEF WorkerEnds, Rest, Places, Steps, Callers, campaign, history
    <3>5. QED
      BY <3>1, <3>2, <3>3, <3>4, TypeParts
  <2>23. CASE TabCloses
    BY <2>23 DEF TabCloses, Rest, TypeOK, Checkpoint, Steps, Callers, campaign,
         history
  <2>24. CASE McpChanges
    BY <2>24 DEF McpChanges, Rest, TypeOK, Checkpoint, Steps, Callers, campaign,
         history
  <2>25. CASE Event
    <3>1. Numbers'
      BY <2>25, NumberAssumption DEF Event, Rest, Fault, Older, Numbers,
           campaign, history
    <3>2. Flags'
      BY <2>25 DEF Event, Rest, Flags, campaign, history
    <3>3. Checkpoints'
      BY <2>25, BlankCheckpoint DEF Event, Rest, Checkpoints, campaign, history
    <3>4. Places'
      BY <2>25 DEF Event, Rest, Places, Steps, Callers, campaign, history
    <3>5. QED
      BY <3>1, <3>2, <3>3, <3>4, TypeParts
  <2>26. CASE LockExpires
    <3>1. Numbers'
      BY <2>26, NumberAssumption DEF LockExpires, Rest, Fault, Older, Numbers,
           campaign, history
    <3>2. Flags'
      BY <2>26 DEF LockExpires, Rest, Flags, campaign, history
    <3>3. Checkpoints'
      BY <2>26, BlankCheckpoint DEF LockExpires, Rest, Checkpoints, campaign,
           history
    <3>4. Places'
      BY <2>26 DEF LockExpires, Rest, Places, Steps, Callers, campaign, history
    <3>5. QED
      BY <3>1, <3>2, <3>3, <3>4, TypeParts
  <2>27. CASE TimePasses
    BY <2>27, Bounds DEF TimePasses, TypeOK, Checkpoint, Steps, Callers,
         campaign, history
  <2>28. QED
    BY <1>2, <2>1, <2>2, <2>3, <2>4, <2>5, <2>6, <2>7, <2>8, <2>9, <2>10, <2>11,
         <2>12, <2>13, <2>14, <2>15, <2>16, <2>17, <2>18, <2>19, <2>20, <2>21,
         <2>22, <2>23, <2>24, <2>25, <2>26, <2>27 DEF Next, Step, Worker
<1>3. QED
  BY <1>1, <1>2

\* Every variable keeps its type (the checkpoint that loop.ts loads and saves, the
\* phases of runOnce(), the workers that process.ts counts).
THEOREM TypeCorrect == Spec => []TypeOK
<1>1. QED
  BY InitTypeOK, NextTypeOK, PTL DEF Spec

-----------------------------------------------------------------------------
(***************************************************************************)
(* One worker.  A launch is gated by the start lock alone, so the argument *)
(* is about who may hold it while a worker is on its way.                  *)
(***************************************************************************)
\* A worker that is not registered yet is covered by the lock or by a router that
\* is down; where a launch follows without asking pgrep again, a free lock means
\* that there is none; in observe-only mode the Director launches nothing.
Covered ==
  /\ coming > 0 => lock \/ pc = "down"
  /\ pc \in {"launch", "relaunch"} /\ ~lock => coming = 0 /\ up = 0
  /\ ~env.autostart => coming = 0 /\ pc \notin {"stop", "launch", "await", "relaunch"}

Supervised == TypeOK /\ AtMostOneWorker /\ Covered

LEMMA NextSupervised == Supervised /\ [Next]_vars => Supervised'
<1> SUFFICES ASSUME Supervised, [Next]_vars PROVE AtMostOneWorker' /\ Covered'
  BY NextTypeOK DEF Supervised
<1>1. CASE UNCHANGED vars
  BY <1>1 DEF Supervised, AtMostOneWorker, Covered, vars, campaign, history
<1>2. CASE Next
  <2>1. CASE Begin
    BY <2>1 DEF Begin, NewTick, Supervised, AtMostOneWorker, Covered, TypeOK,
         campaign, history
  <2>2. CASE CheckInfrastructure
    BY <2>2 DEF CheckInfrastructure, Supervised, AtMostOneWorker, Covered,
         TypeOK, campaign, history
  <2>3. CASE VpnWaits
    BY <2>3 DEF VpnWaits, Supervised, AtMostOneWorker, Covered, TypeOK,
         campaign, history
  <2>4. ASSUME NEW ok \in BOOLEAN, Rotate(ok) PROVE (AtMostOneWorker /\ Covered)'
    BY <2>4 DEF Rotate, Supervised, AtMostOneWorker, Covered, TypeOK, campaign,
         history
  <2>5. CASE Stop
    BY <2>5 DEF Stop, Killed, Running, Supervised, AtMostOneWorker, Covered,
         TypeOK, campaign, history
  <2>6. CASE Launch
    BY <2>6 DEF Launch, Spawn, Supervised, AtMostOneWorker, Covered, TypeOK,
         campaign, history
  <2>7. CASE Await
    <3>1. lock' <=> (lock /\ up = 0)
      BY <2>7 DEF Await, Supervised, TypeOK
    <3>2. /\ pc = "await" /\ UNCHANGED <<env, coming, up>>
          /\ pc' \in {"idle", "campaign", "persist"}
      BY <2>7 DEF Await, Supervised, TypeOK, Callers, campaign
    <3>3. QED
      BY <3>1, <3>2 DEF Supervised, AtMostOneWorker, Covered, TypeOK
  <2>8. CASE CampaignRuns
    BY <2>8 DEF CampaignRuns, Running, Orphaned, Supervised, AtMostOneWorker,
         Covered, TypeOK, campaign, history
  <2>9. CASE CampaignOrphaned
    BY <2>9 DEF CampaignOrphaned, Killed, Running, Orphaned, Supervised,
         AtMostOneWorker, Covered, TypeOK, campaign, history
  <2>10. CASE CampaignStarts
    BY <2>10 DEF CampaignStarts, Spawn, SpawnFails, Running, Fault, Supervised,
         AtMostOneWorker, Covered, TypeOK, campaign, history
  <2>11. CASE Observe
    BY <2>11 DEF Observe, Stale, Supervised, AtMostOneWorker, Covered, TypeOK,
         campaign, history
  <2>12. CASE Fire
    BY <2>12 DEF Fire, Supervised, AtMostOneWorker, Covered, TypeOK, campaign,
         history
  <2>13. CASE Persist
    BY <2>13 DEF Persist, Save, Supervised, AtMostOneWorker, Covered, TypeOK,
         campaign, history
  <2>14. CASE Report
    BY <2>14 DEF Report, Supervised, AtMostOneWorker, Covered, TypeOK, campaign,
         history
  <2>15. CASE Finish
    BY <2>15 DEF Finish, Save, Supervised, AtMostOneWorker, Covered, TypeOK,
         campaign, history
  <2>16. CASE Restart
    BY <2>16 DEF Restart, Supervised, AtMostOneWorker, Covered, TypeOK,
         campaign, history
  <2>17. CASE LaunchFails
    BY <2>17 DEF LaunchFails, SpawnFails, Fault, Supervised, AtMostOneWorker,
         Covered, TypeOK, campaign, history
  <2>18. CASE Throw
    BY <2>18 DEF Throw, Fault, Supervised, AtMostOneWorker, Covered, TypeOK,
         campaign, history
  <2>19. CASE Crash
    BY <2>19 DEF Crash, Torn, Fault, Blank, Due, Supervised, AtMostOneWorker,
         Covered, TypeOK, campaign, history
  <2>20. CASE Register
    BY <2>20 DEF Register, Rest, Supervised, AtMostOneWorker, Covered, TypeOK,
         campaign, history
  <2>21. CASE UserStarts
    BY <2>21 DEF UserStarts, Rest, Supervised, AtMostOneWorker, Covered, TypeOK,
         campaign, history
  <2>22. CASE WorkerEnds
    BY <2>22 DEF WorkerEnds, Rest, Supervised, AtMostOneWorker, Covered, TypeOK,
         campaign, history
  <2>23. CASE TabCloses
    BY <2>23 DEF TabCloses, Rest, Supervised, AtMostOneWorker, Covered, TypeOK,
         campaign, history
  <2>24. CASE McpChanges
    BY <2>24 DEF McpChanges, Rest, Supervised, AtMostOneWorker, Covered, TypeOK,
         campaign, history
  <2>25. CASE Event
    BY <2>25 DEF Event, Rest, Supervised, AtMostOneWorker, Covered, TypeOK,
         campaign, history
  <2>26. CASE LockExpires
    BY <2>26 DEF LockExpires, Rest, Supervised, AtMostOneWorker, Covered,
         TypeOK, campaign, history
  <2>27. CASE TimePasses
    BY <2>27 DEF TimePasses, Older, Due, Supervised, AtMostOneWorker, Covered,
         TypeOK, campaign, history
  <2>28. QED
    BY <1>2, <2>1, <2>2, <2>3, <2>4, <2>5, <2>6, <2>7, <2>8, <2>9, <2>10, <2>11,
         <2>12, <2>13, <2>14, <2>15, <2>16, <2>17, <2>18, <2>19, <2>20, <2>21,
         <2>22, <2>23, <2>24, <2>25, <2>26, <2>27 DEF Next, Step, Worker
<1>3. QED
  BY <1>1, <1>2

\* The Director never runs two workers (process.ts startWorkerInIterm() and its
\* start lock, restart.ts, loop.ts ensureCampaignRunning()).
THEOREM OneWorker == Spec => []AtMostOneWorker
<1>1. Init => Supervised
  BY InitTypeOK DEF Init, Supervised, AtMostOneWorker, Covered
<1>2. Supervised => AtMostOneWorker
  BY DEF Supervised
<1>3. QED
  BY <1>1, <1>2, NextSupervised, PTL DEF Spec

\* What the run checks as one invariant.
THEOREM DirectorSupervises == Spec => []DirectorInv
<1>1. QED
  BY TypeCorrect, OneWorker, PTL DEF DirectorInv

-----------------------------------------------------------------------------
(***************************************************************************)
(* One restart per tick.  The three callers of restartWorker() exclude     *)
(* each other: the first ends the tick, the second is marked as handled,   *)
(* the third asks for that mark.                                           *)
(***************************************************************************)
Restarting == {"stop", "launch", "await"}

RestartsCounted ==
  /\ pc \in {"infra", "vpn", "stop", "fire"} => restarts = 0
  /\ pc \in Restarting /\ caller = "vpn" => tick.handled
  /\ pc \in {"campaign", "relaunch", "observe"} => restarts = 0 \/ tick.handled

Counted == TypeOK /\ OneRestartPerTick /\ RestartsCounted

LEMMA NextCounted == Counted /\ [Next]_vars => Counted'
<1> SUFFICES ASSUME Counted, [Next]_vars PROVE OneRestartPerTick' /\ RestartsCounted'
  BY NextTypeOK DEF Counted
<1>1. CASE UNCHANGED vars
  BY <1>1 DEF Counted, OneRestartPerTick, RestartsCounted, vars, campaign, history
<1>2. CASE Next
  <2>1. CASE Begin
    BY <2>1 DEF Begin, NewTick, Counted, OneRestartPerTick, RestartsCounted,
         Restarting, TypeOK, Callers, campaign, history
  <2>2. CASE CheckInfrastructure
    BY <2>2 DEF CheckInfrastructure, Counted, OneRestartPerTick,
         RestartsCounted, Restarting, TypeOK, Callers, campaign, history
  <2>3. CASE VpnWaits
    BY <2>3 DEF VpnWaits, Counted, OneRestartPerTick, RestartsCounted,
         Restarting, TypeOK, Callers, campaign, history
  <2>4. ASSUME NEW ok \in BOOLEAN, Rotate(ok) PROVE (OneRestartPerTick /\ RestartsCounted)'
    BY <2>4 DEF Rotate, Counted, OneRestartPerTick, RestartsCounted, Restarting,
         TypeOK, Callers, campaign, history
  <2>5. CASE Stop
    BY <2>5 DEF Stop, Killed, Running, Counted, OneRestartPerTick,
         RestartsCounted, Restarting, TypeOK, Callers, campaign, history
  <2>6. CASE Launch
    BY <2>6 DEF Launch, Spawn, Counted, OneRestartPerTick, RestartsCounted,
         Restarting, TypeOK, Callers, campaign, history
  <2>7. CASE Await
    BY <2>7 DEF Await, Counted, OneRestartPerTick, RestartsCounted, Restarting,
         TypeOK, Callers, campaign, history
  <2>8. CASE CampaignRuns
    BY <2>8 DEF CampaignRuns, Running, Orphaned, Counted, OneRestartPerTick,
         RestartsCounted, Restarting, TypeOK, Callers, campaign, history
  <2>9. CASE CampaignOrphaned
    BY <2>9 DEF CampaignOrphaned, Killed, Running, Orphaned, Counted,
         OneRestartPerTick, RestartsCounted, Restarting, TypeOK, Callers,
         campaign, history
  <2>10. CASE CampaignStarts
    BY <2>10 DEF CampaignStarts, Spawn, SpawnFails, Running, Fault, Counted,
         OneRestartPerTick, RestartsCounted, Restarting, TypeOK, Callers,
         campaign, history
  <2>11. CASE Observe
    BY <2>11 DEF Observe, Stale, Counted, OneRestartPerTick, RestartsCounted,
         Restarting, TypeOK, Callers, campaign, history
  <2>12. CASE Fire
    BY <2>12 DEF Fire, Counted, OneRestartPerTick, RestartsCounted, Restarting,
         TypeOK, Callers, campaign, history
  <2>13. CASE Persist
    BY <2>13 DEF Persist, Save, Counted, OneRestartPerTick, RestartsCounted,
         Restarting, TypeOK, Callers, campaign, history
  <2>14. CASE Report
    BY <2>14 DEF Report, Counted, OneRestartPerTick, RestartsCounted,
         Restarting, TypeOK, Callers, campaign, history
  <2>15. CASE Finish
    BY <2>15 DEF Finish, Save, Counted, OneRestartPerTick, RestartsCounted,
         Restarting, TypeOK, Callers, campaign, history
  <2>16. CASE Restart
    BY <2>16 DEF Restart, Counted, OneRestartPerTick, RestartsCounted,
         Restarting, TypeOK, Callers, campaign, history
  <2>17. CASE LaunchFails
    BY <2>17 DEF LaunchFails, SpawnFails, Fault, Counted, OneRestartPerTick,
         RestartsCounted, Restarting, TypeOK, Callers, campaign, history
  <2>18. CASE Throw
    BY <2>18 DEF Throw, Fault, Counted, OneRestartPerTick, RestartsCounted,
         Restarting, TypeOK, Callers, campaign, history
  <2>19. CASE Crash
    BY <2>19 DEF Crash, Torn, Fault, Blank, Due, Counted, OneRestartPerTick,
         RestartsCounted, Restarting, TypeOK, Callers, campaign, history
  <2>20. CASE Register
    BY <2>20 DEF Register, Rest, Counted, OneRestartPerTick, RestartsCounted,
         Restarting, TypeOK, Callers, campaign, history
  <2>21. CASE UserStarts
    BY <2>21 DEF UserStarts, Rest, Counted, OneRestartPerTick, RestartsCounted,
         Restarting, TypeOK, Callers, campaign, history
  <2>22. CASE WorkerEnds
    BY <2>22 DEF WorkerEnds, Rest, Counted, OneRestartPerTick, RestartsCounted,
         Restarting, TypeOK, Callers, campaign, history
  <2>23. CASE TabCloses
    BY <2>23 DEF TabCloses, Rest, Counted, OneRestartPerTick, RestartsCounted,
         Restarting, TypeOK, Callers, campaign, history
  <2>24. CASE McpChanges
    BY <2>24 DEF McpChanges, Rest, Counted, OneRestartPerTick, RestartsCounted,
         Restarting, TypeOK, Callers, campaign, history
  <2>25. CASE Event
    BY <2>25 DEF Event, Rest, Counted, OneRestartPerTick, RestartsCounted,
         Restarting, TypeOK, Callers, campaign, history
  <2>26. CASE LockExpires
    BY <2>26 DEF LockExpires, Rest, Counted, OneRestartPerTick, RestartsCounted,
         Restarting, TypeOK, Callers, campaign, history
  <2>27. CASE TimePasses
    BY <2>27 DEF TimePasses, Older, Due, Counted, OneRestartPerTick,
         RestartsCounted, Restarting, TypeOK, Callers, campaign, history
  <2>28. QED
    BY <1>2, <2>1, <2>2, <2>3, <2>4, <2>5, <2>6, <2>7, <2>8, <2>9, <2>10, <2>11,
         <2>12, <2>13, <2>14, <2>15, <2>16, <2>17, <2>18, <2>19, <2>20, <2>21,
         <2>22, <2>23, <2>24, <2>25, <2>26, <2>27 DEF Next, Step, Worker
<1>3. QED
  BY <1>1, <1>2

\* A tick kills the worker at most once to restart it, whichever of its phases
\* find a reason (loop.ts runOnce(), staleHandledThisTick).
THEOREM RestartsOnce == Spec => []OneRestartPerTick
<1>1. Init => Counted
  BY InitTypeOK DEF Init, Counted, OneRestartPerTick, RestartsCounted, Restarting
<1>2. Counted => OneRestartPerTick
  BY DEF Counted
<1>3. QED
  BY <1>1, <1>2, NextCounted, PTL DEF Spec

-----------------------------------------------------------------------------
(***************************************************************************)
(* One recovery per saved stall.  The flag in the file is what outlives a  *)
(* throw and a crash; the argument carries it through the tick.            *)
(***************************************************************************)
\* The recovery of a stall is under way.
Recovering == pc \in {"fire", "persist"} \/ (pc \in Restarting /\ caller = "stall")

\* A recovered stall is flagged in the file, nothing has been written since, and
\* a tick that is under way has the flag too and does not begin a recovery.
FlagKept ==
  /\ recovered => saved.stale /\ ~unread /\ ~later /\ pc # "fire"
  /\ recovered /\ pc \notin {"idle", "down"} => cp.stale
  /\ recovered /\ pc = "report" => ~tick.seen
  /\ Recovering => ~tick.seen
  /\ Recovering /\ pc # "fire" => cp.stale

Flagged == TypeOK /\ FlagKept

LEMMA NextFlagged == Flagged /\ [Next]_vars => Flagged'
<1> SUFFICES ASSUME Flagged, [Next]_vars PROVE FlagKept'
  BY NextTypeOK DEF Flagged
<1>1. CASE UNCHANGED vars
  BY <1>1 DEF Flagged, FlagKept, Recovering, Restarting, vars, campaign, history
<1>2. CASE Next
  <2>1. CASE Begin
    BY <2>1 DEF Begin, NewTick, Flagged, FlagKept, Recovering, Restarting,
         TypeOK, Callers, Checkpoint, campaign, history
  <2>2. CASE CheckInfrastructure
    BY <2>2 DEF CheckInfrastructure, Flagged, FlagKept, Recovering, Restarting,
         TypeOK, Callers, Checkpoint, campaign, history
  <2>3. CASE VpnWaits
    BY <2>3 DEF VpnWaits, Flagged, FlagKept, Recovering, Restarting, TypeOK,
         Callers, Checkpoint, campaign, history
  <2>4. ASSUME NEW ok \in BOOLEAN, Rotate(ok) PROVE FlagKept'
    BY <2>4 DEF Rotate, Flagged, FlagKept, Recovering, Restarting, TypeOK,
         Callers, Checkpoint, campaign, history
  <2>5. CASE Stop
    BY <2>5 DEF Stop, Killed, Running, Flagged, FlagKept, Recovering,
         Restarting, TypeOK, Callers, Checkpoint, campaign, history
  <2>6. CASE Launch
    BY <2>6 DEF Launch, Spawn, Flagged, FlagKept, Recovering, Restarting,
         TypeOK, Callers, Checkpoint, campaign, history
  <2>7. CASE Await
    BY <2>7 DEF Await, Flagged, FlagKept, Recovering, Restarting, TypeOK,
         Callers, Checkpoint, campaign, history
  <2>8. CASE CampaignRuns
    BY <2>8 DEF CampaignRuns, Running, Orphaned, Flagged, FlagKept, Recovering,
         Restarting, TypeOK, Callers, Checkpoint, campaign, history
  <2>9. CASE CampaignOrphaned
    BY <2>9 DEF CampaignOrphaned, Killed, Running, Orphaned, Flagged, FlagKept,
         Recovering, Restarting, TypeOK, Callers, Checkpoint, campaign, history
  <2>10. CASE CampaignStarts
    BY <2>10 DEF CampaignStarts, Spawn, SpawnFails, Running, Fault, Flagged,
         FlagKept, Recovering, Restarting, TypeOK, Callers, Checkpoint,
         campaign, history
  <2>11. CASE Observe
    BY <2>11 DEF Observe, Stale, Flagged, FlagKept, Recovering, Restarting,
         TypeOK, Callers, Checkpoint, campaign, history
  <2>12. CASE Fire
    BY <2>12 DEF Fire, Flagged, FlagKept, Recovering, Restarting, TypeOK,
         Callers, Checkpoint, campaign, history
  <2>13. CASE Persist
    BY <2>13 DEF Persist, Save, Flagged, FlagKept, Recovering, Restarting,
         TypeOK, Callers, Checkpoint, campaign, history
  <2>14. CASE Report
    BY <2>14 DEF Report, Flagged, FlagKept, Recovering, Restarting, TypeOK,
         Callers, Checkpoint, campaign, history
  <2>15. CASE Finish
    BY <2>15 DEF Finish, Save, Flagged, FlagKept, Recovering, Restarting,
         TypeOK, Callers, Checkpoint, campaign, history
  <2>16. CASE Restart
    BY <2>16 DEF Restart, Flagged, FlagKept, Recovering, Restarting, TypeOK,
         Callers, Checkpoint, campaign, history
  <2>17. CASE LaunchFails
    BY <2>17 DEF LaunchFails, SpawnFails, Fault, Flagged, FlagKept, Recovering,
         Restarting, TypeOK, Callers, Checkpoint, campaign, history
  <2>18. CASE Throw
    BY <2>18 DEF Throw, Fault, Flagged, FlagKept, Recovering, Restarting,
         TypeOK, Callers, Checkpoint, campaign, history
  <2>19. CASE Crash
    BY <2>19 DEF Crash, Torn, Fault, Blank, Due, Flagged, FlagKept, Recovering,
         Restarting, TypeOK, Callers, Checkpoint, campaign, history
  <2>20. CASE Register
    BY <2>20 DEF Register, Rest, Flagged, FlagKept, Recovering, Restarting,
         TypeOK, Callers, Checkpoint, campaign, history
  <2>21. CASE UserStarts
    BY <2>21 DEF UserStarts, Rest, Flagged, FlagKept, Recovering, Restarting,
         TypeOK, Callers, Checkpoint, campaign, history
  <2>22. CASE WorkerEnds
    BY <2>22 DEF WorkerEnds, Rest, Flagged, FlagKept, Recovering, Restarting,
         TypeOK, Callers, Checkpoint, campaign, history
  <2>23. CASE TabCloses
    BY <2>23 DEF TabCloses, Rest, Flagged, FlagKept, Recovering, Restarting,
         TypeOK, Callers, Checkpoint, campaign, history
  <2>24. CASE McpChanges
    BY <2>24 DEF McpChanges, Rest, Flagged, FlagKept, Recovering, Restarting,
         TypeOK, Callers, Checkpoint, campaign, history
  <2>25. CASE Event
    BY <2>25 DEF Event, Rest, Flagged, FlagKept, Recovering, Restarting, TypeOK,
         Callers, Checkpoint, campaign, history
  <2>26. CASE LockExpires
    BY <2>26 DEF LockExpires, Rest, Flagged, FlagKept, Recovering, Restarting,
         TypeOK, Callers, Checkpoint, campaign, history
  <2>27. CASE TimePasses
    BY <2>27 DEF TimePasses, Older, Due, Flagged, FlagKept, Recovering,
         Restarting, TypeOK, Callers, Checkpoint, campaign, history
  <2>28. QED
    BY <1>2, <2>1, <2>2, <2>3, <2>4, <2>5, <2>6, <2>7, <2>8, <2>9, <2>10, <2>11,
         <2>12, <2>13, <2>14, <2>15, <2>16, <2>17, <2>18, <2>19, <2>20, <2>21,
         <2>22, <2>23, <2>24, <2>25, <2>26, <2>27 DEF Next, Step, Worker
<1>3. QED
  BY <1>1, <1>2

\* A stall that was recovered and saved is not recovered again before the campaign
\* shows new activity (loop.ts runOnce(), the one-shot recovery and the save that follows it).
THEOREM RecoveredOnce == Spec => OneShotOnceSaved
<1>1. Init => Flagged
  BY InitTypeOK DEF Init, Flagged, FlagKept, Recovering, Restarting, Blank
<1>2. Flagged => (pc = "fire" /\ pc' # "fire" /\ pc' # "down" => ~recovered)
  BY DEF Flagged, FlagKept
<1>3. QED
  BY <1>1, <1>2, NextFlagged, PTL DEF Spec, OneShotOnceSaved

-----------------------------------------------------------------------------
(***************************************************************************)
(* The broker.  Its module and DirectorTick are two specifications of one  *)
(* program: no variable and no operator of theirs is shared.               *)
(***************************************************************************)
\* The type invariant in parts: the counters of the probes, the place of the tick,
\* the shells and the broker.
Probes ==
  /\ misses \in 0 .. 2 /\ missAge \in {0, 1} /\ outage \in {0, 1, None}
  /\ failures \in Count /\ spawnAge \in Age
  /\ monitorMisses \in Count /\ monitorAge \in Age
Ticking ==
  /\ mode \in Modes /\ supervising \in BOOLEAN /\ phase \in {1, 2}
  /\ at \in {"idle", "status", "own", "between", "probe", "pids"}
Shells ==
  shell \in [Shell -> [step : ShellSteps, monitors : BOOLEAN]] /\ own \in Shell \cup {None}
BrokerTyped ==
  /\ broker \in {"down", "booting", "up", "ending"}
  /\ pidfile \in BOOLEAN /\ storage \in BOOLEAN /\ foreign \in BOOLEAN

LEMMA KafkaTypeParts ==
  /\ KafkaTypeOK <=> Probes /\ Ticking /\ Shells /\ BrokerTyped /\ mishaps \in 0 .. MaxMishaps
  /\ KafkaTypeOK' <=> Probes' /\ Ticking' /\ Shells' /\ BrokerTyped' /\ mishaps' \in 0 .. MaxMishaps
BY Zenon DEF KafkaTypeOK, Probes, Ticking, Shells, BrokerTyped

\* A series of misses is open just as long as they are counted, and once the gap
\* has passed since its first it is as old.
Series ==
  /\ misses = 0 <=> outage = None
  /\ misses # 0 /\ missAge = 1 => outage = 1

KafkaInv == KafkaTypeOK /\ Series

LEMMA KafkaBounds ==
  /\ 0 \in Age /\ BackoffMax \in Age /\ 0 \in Count
  /\ \A age \in Age : Aged(age) \in Age /\ Aged(age) # 0
  /\ \A n \in Count : More(n) \in Count
  /\ None \notin {0, 1}
<1>1. /\ 0 \in Age /\ BackoffMax \in Age /\ 0 \in Count
      /\ \A age \in Age : Aged(age) \in Age /\ Aged(age) # 0
  BY KafkaAssumption DEF Age, Count, Aged
<1>2. ASSUME NEW n \in Count
      PROVE  More(n) \in Count
  <2>1. n \in Nat /\ n + 1 \in Nat /\ (n + 1) - 1 = n
    BY DEF Count
  <2>2. CASE 2 ^ n < BackoffMax
    <3>1. 2 ^ ((n + 1) - 1) < BackoffMax
      BY <2>1, <2>2
    <3>2. QED
      BY <2>1, <2>2, <3>1 DEF Count, More
  <2>3. CASE ~(2 ^ n < BackoffMax)
    BY <2>3 DEF More
  <2>4. QED
    BY <2>2, <2>3
<1>3. QED
  BY <1>1, <1>2, KafkaAssumption

\* The tick opens a shell, or waits for its own.
LEMMA ShellOpens ==
  ASSUME Shells, NEW step \in ShellSteps, NEW monitors \in BOOLEAN, Open(step, monitors)
  PROVE  /\ shell' \in [Shell -> [step : ShellSteps, monitors : BOOLEAN]]
         /\ Fresh \in Shell
<1>1. Fresh \in Shell
  BY DEF Open, Fresh, Free
<1>2. QED
  BY <1>1 DEF Open, Shells

LEMMA ShellCloses ==
  ASSUME Shells, NEW s
  PROVE  [shell EXCEPT ![s] = Closed] \in [Shell -> [step : ShellSteps, monitors : BOOLEAN]]
BY DEF Shells, Closed, ShellSteps

LEMMA Mishaps ==
  ASSUME mishaps \in 0 .. MaxMishaps, Mishap \/ NoMishap
  PROVE  mishaps' \in 0 .. MaxMishaps
BY KafkaAssumption DEF Mishap, NoMishap

\* What the counters of the probes do not depend on.
Devices == Shells /\ BrokerTyped /\ mishaps \in 0 .. MaxMishaps
LEMMA KafkaParts ==
  /\ KafkaInv <=> Probes /\ Ticking /\ Series /\ Devices
  /\ KafkaInv' <=> Probes' /\ Ticking' /\ Series' /\ Devices'
BY KafkaTypeParts, Zenon DEF KafkaInv, Devices

LEMMA ProbesStay == ASSUME Probes, Series, UNCHANGED Counters PROVE Probes' /\ Series'
BY DEF Counters, Probes, Series

\* What the tick does.
LEMMA DirectorKafka ==
  ASSUME KafkaInv, Director
  PROVE  KafkaInv'
<1>1. Probes /\ Ticking /\ Series /\ Shells /\ BrokerTyped /\ mishaps \in 0 .. MaxMishaps
  BY KafkaParts DEF Devices
<1>2. ASSUME NEW p \in {"idle", "status", "own", "between", "probe", "pids"}, NEW n \in {1, 2},
             Tick(p, n), UNCHANGED setting
      PROVE  Ticking'
  BY <1>1, <1>2 DEF Tick, Ticking, setting
<1>3. ASSUME Done, UNCHANGED setting
      PROVE  Ticking'
  BY <1>1, <1>3 DEF Done, Tick, Ticking, setting
<1>4. UNCHANGED kafka => BrokerTyped'
  BY <1>1 DEF kafka, BrokerTyped
<1>5. UNCHANGED <<shell, own>> => Shells'
  BY <1>1 DEF Shells
<1>6. Mishap \/ NoMishap => mishaps' \in 0 .. MaxMishaps
  BY <1>1, Mishaps
<1>7. \A step \in ShellSteps, monitors \in BOOLEAN :
        Open(step, monitors) /\ (own' = own \/ own' = Fresh) => Shells'
  <2> SUFFICES ASSUME NEW step \in ShellSteps, NEW monitors \in BOOLEAN,
                      Open(step, monitors), own' = own \/ own' = Fresh
               PROVE  Shells'
    OBVIOUS
  <2>1. QED
    BY <1>1, ShellOpens DEF Shells
<1>8. UNCHANGED Counters => Probes' /\ Series'
  BY <1>1, ProbesStay
<1>9. "init" \in ShellSteps /\ "monitor" \in ShellSteps
  BY DEF ShellSteps
<1>10. CASE BeginTick
  BY <1>2, <1>4, <1>5, <1>6, <1>8, <1>10, KafkaParts DEF BeginTick, NoMishap, Devices
<1>11. CASE StatusOk
  BY <1>2, <1>4, <1>5, <1>6, <1>8, <1>11, KafkaParts DEF StatusOk, NoMishap, Devices
<1>12. CASE StatusFails
  <2>1. Ticking' /\ Shells'
    BY <1>2, <1>5, <1>7, <1>9, <1>12 DEF StatusFails
  <2>2. QED
    BY <1>4, <1>6, <1>8, <1>12, <2>1, KafkaParts DEF StatusFails, Devices
<1>13. CASE OwnEnds
  <2>1. Shells'
    BY <1>1, <1>13, ShellCloses DEF OwnEnds, Shells
  <2>2. mishaps' \in 0 .. MaxMishaps
    BY <1>6, <1>13 DEF OwnEnds, NoMishap
  <2>3. QED
    BY <1>2, <1>4, <1>8, <1>13, <2>1, <2>2, KafkaParts DEF OwnEnds, Devices
<1>14. CASE Supervise
  BY <1>2, <1>4, <1>5, <1>6, <1>8, <1>14, KafkaParts DEF Supervise, Devices
<1>15. CASE Hit
  <2>1. Probes' /\ Series'
    BY <1>1, <1>15, KafkaBounds DEF Hit, Probes, Series
  <2>2. QED
    BY <1>1, <1>2, <1>4, <1>5, <1>6, <1>15, <2>1, KafkaParts
    DEF Hit, NoMishap, Ticking, Devices
<1>16. CASE MissWaits
  <2>1. Probes' /\ Series'
    BY <1>1, <1>16, KafkaBounds DEF MissWaits, Confirmed, Probes, Series
  <2>2. QED
    BY <1>3, <1>4, <1>5, <1>6, <1>16, <2>1, KafkaParts
    DEF MissWaits, Probed, Devices
<1>17. CASE StartBroker
  <2>1. Probes' /\ Series'
    <3>1. /\ spawnAge' = 0 /\ misses' = 0 /\ missAge' = 1 /\ outage' = None
          /\ failures' \in {failures, More(failures)}
          /\ UNCHANGED <<monitorMisses, monitorAge>>
      BY <1>17 DEF StartBroker
    <3>2. QED
      BY <1>1, <3>1, KafkaBounds DEF Probes, Series
  <2>2. Shells'
    BY <1>7, <1>9, <1>17 DEF StartBroker
  <2>3. QED
    BY <1>3, <1>4, <1>6, <1>17, <2>1, <2>2, KafkaParts
    DEF StartBroker, Probed, Devices
<1>18. CASE StartFails
  <2>1. Probes' /\ Series'
    BY <1>1, <1>18, KafkaBounds DEF StartFails, Probes, Series
  <2>2. QED
    BY <1>3, <1>4, <1>5, <1>6, <1>18, <2>1, KafkaParts DEF StartFails, Devices
<1>19. CASE Watched
  <2>1. Probes' /\ Series'
    BY <1>1, <1>19, KafkaBounds DEF Watched, Probes, Series
  <2>2. QED
    BY <1>3, <1>4, <1>5, <1>6, <1>19, <2>1, KafkaParts
    DEF Watched, NoMishap, Devices
<1>20. CASE Unwatched
  BY <1>3, <1>4, <1>5, <1>6, <1>8, <1>20, KafkaParts DEF Unwatched, Devices
<1>21. CASE StartMonitor
  <2>1. Probes' /\ Series'
    BY <1>1, <1>21, KafkaBounds DEF StartMonitor, Probes, Series
  <2>2. Shells'
    BY <1>5, <1>7, <1>9, <1>21 DEF StartMonitor
  <2>3. QED
    BY <1>3, <1>4, <1>6, <1>21, <2>1, <2>2, KafkaParts
    DEF StartMonitor, NoMishap, Devices
<1>22. QED
  BY <1>10, <1>11, <1>12, <1>13, <1>14, <1>15, <1>16, <1>17, <1>18, <1>19, <1>20, <1>21
  DEF Director

\* What a shell, the broker or the world does leaves the probes alone.
LEMMA ShellKafka ==
  ASSUME KafkaInv, NEW s \in Shell, Kafka(s)
  PROVE  KafkaInv'
<1>1. Probes /\ Ticking /\ Series /\ Shells /\ BrokerTyped /\ mishaps \in 0 .. MaxMishaps
  BY KafkaParts DEF Devices
<1>2. UNCHANGED World => Probes' /\ Ticking' /\ Series' /\ own' = own
  BY <1>1, ProbesStay DEF World, setting, director, Counters, Ticking
<1>3. Mishap \/ NoMishap => mishaps' \in 0 .. MaxMishaps
  BY <1>1, Mishaps
<1>4. ASSUME NEW step \in ShellSteps, Go(s, step), own' = own
      PROVE  Shells'
  BY <1>1, <1>4 DEF Go, Shells
<1>5. Close(s) /\ own' = own => Shells'
  BY <1>1, ShellCloses DEF Close, Shells
<1>6. {"init", "start", "wait", "again", "rewait", "monitor", "await", "consume", "ended"}
        \subseteq ShellSteps
  BY DEF ShellSteps
<1>7. Continue(s) /\ own' = own => Shells'
  BY <1>4, <1>5, <1>6 DEF Continue
<1>8. UNCHANGED kafka => BrokerTyped'
  BY <1>1 DEF kafka, BrokerTyped
<1>9. CASE Reinit(s)
  <2>1. Shells'
    BY <1>2, <1>4, <1>6, <1>9 DEF Reinit
  <2>2. BrokerTyped'
    BY <1>1, <1>9 DEF Reinit, BrokerTyped
  <2>3. QED
    BY <1>2, <1>3, <1>9, <2>1, <2>2, KafkaParts DEF Reinit, Devices
<1>10. CASE Start(s)
  <2>1. Shells'
    BY <1>2, <1>4, <1>6, <1>7, <1>10 DEF Start
  <2>2. BrokerTyped'
    BY <1>1, <1>10 DEF Start, BrokerTyped
  <2>3. QED
    BY <1>2, <1>3, <1>10, <2>1, <2>2, KafkaParts DEF Start, NoMishap, Devices
<1>11. CASE Started(s)
  BY <1>2, <1>3, <1>7, <1>8, <1>11, KafkaParts DEF Started, NoMishap, Devices
<1>12. CASE StartGivesUp(s)
  BY <1>2, <1>3, <1>7, <1>8, <1>12, KafkaParts DEF StartGivesUp, Devices
<1>13. CASE Monitor(s)
  BY <1>2, <1>3, <1>4, <1>5, <1>6, <1>8, <1>13, KafkaParts
  DEF Monitor, NoMishap, Devices
<1>14. CASE Awaited(s)
  BY <1>2, <1>3, <1>4, <1>5, <1>6, <1>8, <1>14, KafkaParts DEF Awaited, Devices
<1>15. CASE Watch(s)
  BY <1>2, <1>3, <1>4, <1>6, <1>8, <1>15, KafkaParts DEF Watch, NoMishap, Devices
<1>16. CASE Ended(s)
  <2>1. Shells'
    <3>1. CASE Close(s)
      BY <1>2, <1>5, <1>16, <3>1 DEF Ended
    <3>2. CASE shell' = [t \in Shell |->
                 IF t = s THEN Closed
                 ELSE IF t \in Consumers THEN [shell[t] EXCEPT !.step = "ended"]
                 ELSE shell[t]]
      <4>1. Closed \in [step : ShellSteps, monitors : BOOLEAN]
        BY DEF Closed, ShellSteps
      <4>2. own' = own
        BY <1>2, <1>16 DEF Ended
      <4>3. \A t \in Shell : /\ shell[t] \in [step : ShellSteps, monitors : BOOLEAN]
                             /\ [shell[t] EXCEPT !.step = "ended"]
                                  \in [step : ShellSteps, monitors : BOOLEAN]
        BY <1>1, <1>6 DEF Shells
      <4>4. QED
        BY <1>1, <3>2, <4>1, <4>2, <4>3 DEF Shells
    <3>3. QED
      BY <1>16, <3>1, <3>2 DEF Ended
  <2>2. BrokerTyped'
    BY <1>1, <1>16 DEF Ended, BrokerTyped
  <2>3. QED
    BY <1>2, <1>3, <1>16, <2>1, <2>2, KafkaParts DEF Ended, NoMishap, Devices
<1>17. QED
  BY <1>9, <1>10, <1>11, <1>12, <1>13, <1>14, <1>15, <1>16 DEF Kafka

\* The broker, the port, the storage, a consumer; the router ends, time passes.
LEMMA OutsideKafka ==
  ASSUME KafkaInv,
         \/ RouterRestarts \/ UnitPasses \/ Broker \/ BrokerDies
         \/ StorageWiped \/ PortTaken \/ PortFreed \/ ConsumerEnds \/ CampaignTurns
  PROVE  KafkaInv'
<1>1. Probes /\ Ticking /\ Series /\ Shells /\ BrokerTyped /\ mishaps \in 0 .. MaxMishaps
  BY KafkaParts DEF Devices
<1>2. UNCHANGED World => Probes' /\ Ticking' /\ Series' /\ own' = own
  BY <1>1, ProbesStay DEF World, setting, director, Counters, Ticking
<1>3. Mishap \/ mishaps' = mishaps => mishaps' \in 0 .. MaxMishaps
  BY <1>1, Mishaps DEF NoMishap
<1>4. UNCHANGED <<shell, own>> => Shells'
  BY <1>1 DEF Shells
<1>5. UNCHANGED kafka => BrokerTyped'
  BY <1>1 DEF kafka, BrokerTyped
<1>6. CASE RouterRestarts
  <2>1. Probes' /\ Series'
    BY <1>1, <1>6, KafkaBounds DEF RouterRestarts, Probes, Series
  <2>2. Ticking' /\ Shells'
    BY <1>1, <1>6 DEF RouterRestarts, Tick, Ticking, setting, Shells
  <2>3. QED
    BY <1>3, <1>5, <1>6, <2>1, <2>2, KafkaParts DEF RouterRestarts, Devices
<1>7. CASE UnitPasses
  <2>1. Probes' /\ Series'
    <3>1. /\ missAge' = 1 /\ spawnAge' = Aged(spawnAge)
          /\ monitorAge' = Aged(monitorAge)
          /\ outage' = IF outage = None THEN None ELSE 1
          /\ UNCHANGED <<misses, failures, monitorMisses>>
      BY <1>7 DEF UnitPasses
    <3>2. QED
      BY <1>1, <3>1, KafkaBounds DEF Probes, Series
  <2>2. Ticking'
    BY <1>1, <1>7 DEF UnitPasses, Ticking, setting
  <2>3. QED
    BY <1>3, <1>4, <1>5, <1>7, <2>1, <2>2, KafkaParts DEF UnitPasses, Devices
<1>8. CASE ConsumerEnds
  <2>1. PICK s \in Consumers : Go(s, "ended")
    BY <1>8 DEF ConsumerEnds
  <2>2. Shells'
    BY <1>1, <1>2, <1>8, <2>1 DEF ConsumerEnds, Go, ShellSteps, Shells
  <2>3. QED
    BY <1>2, <1>3, <1>5, <1>8, <2>2, KafkaParts DEF ConsumerEnds, Devices
<1>9. CASE \/ Broker \/ BrokerDies \/ StorageWiped \/ PortTaken
           \/ PortFreed
  <2>1. BrokerTyped'
    BY <1>1, <1>9
    DEF BrokerTyped, Broker, BrokerDies, StorageWiped, PortTaken,
        PortFreed
  <2>2. UNCHANGED <<World, shell>> /\ (Mishap \/ mishaps' = mishaps)
    BY <1>9
    DEF Broker, BrokerDies, StorageWiped, PortTaken, PortFreed
  <2>3. QED
    BY <1>2, <1>3, <1>4, <2>1, <2>2, KafkaParts DEF Devices
<1>10. CASE CampaignTurns
  <2>1. Ticking'
    BY <1>1, <1>10 DEF CampaignTurns, director, Ticking
  <2>2. Probes' /\ Series' /\ Shells'
    BY <1>1, <1>4, <1>10, ProbesStay DEF CampaignTurns, director, Counters
  <2>3. QED
    BY <1>3, <1>5, <1>10, <2>1, <2>2, KafkaParts DEF CampaignTurns, Devices
<1>11. QED
  BY <1>6, <1>7, <1>8, <1>9, <1>10

LEMMA KafkaInvariant == KafkaSpec => []KafkaInv
<1>1. KafkaInit => KafkaInv
  <2> SUFFICES ASSUME KafkaInit PROVE KafkaInv
    OBVIOUS
  <2>1. Probes /\ Series
    BY KafkaBounds DEF KafkaInit, Probes, Series
  <2>2. Ticking /\ BrokerTyped
    BY DEF KafkaInit, Ticking, BrokerTyped
  <2>3. Shells /\ mishaps \in 0 .. MaxMishaps
    BY KafkaAssumption DEF KafkaInit, Closed, ShellSteps, Shells
  <2>4. QED
    BY <2>1, <2>2, <2>3, KafkaParts DEF Devices
<1>2. KafkaInv /\ [KafkaNext]_kafkaVars => KafkaInv'
  <2> SUFFICES ASSUME KafkaInv, [KafkaNext]_kafkaVars PROVE KafkaInv'
    OBVIOUS
  <2>1. CASE UNCHANGED kafkaVars
    BY <2>1, KafkaParts
    DEF kafkaVars, setting, director, kafka, Probes, Ticking, Series, Devices, Shells,
        BrokerTyped
  <2>2. CASE Director
    BY <2>2, DirectorKafka
  <2>3. CASE \E s \in Shell : Kafka(s)
    BY <2>3, ShellKafka
  <2>4. QED
    BY <2>1, <2>2, <2>3, OutsideKafka DEF KafkaNext
<1>3. QED
  BY <1>1, <1>2, PTL DEF KafkaSpec

\* However the tick, the shells, the broker and the world interleave, the counters
\* of the probes stay in their ranges, as far as a back-off depends on them, and a
\* shell of kafka.sh is always at one of its steps (iterm.ts, kafka.sh).
THEOREM KafkaTyped == KafkaSpec => []KafkaTypeOK
<1>1. KafkaInv => KafkaTypeOK
  BY DEF KafkaInv
<1>2. QED
  BY <1>1, KafkaInvariant, PTL

\* For any number of shells and faults and any back-off: the recovery of the
\* broker begins only after two misses, the debounce gap apart, with no hit in
\* between (iterm.ts, the probes of a tick).
THEOREM RecoveryConfirmed == KafkaSpec => OutageConfirmed
<1>1. KafkaInv /\ [KafkaNext]_kafkaVars =>
        [(spawnAge' = 0 /\ spawnAge # 0) => outage = 1]_kafkaVars
  <2> SUFFICES ASSUME KafkaInv, KafkaNext, spawnAge' = 0, spawnAge # 0
               PROVE  outage = 1
    OBVIOUS
  <2>1. Probes /\ Series
    BY KafkaParts
  <2>2. Confirmed => outage = 1
    BY <2>1 DEF Confirmed, Probes, Series
  <2>3. CASE Director
    BY <2>2, <2>3
    DEF Director, BeginTick, StatusOk, StatusFails, OwnEnds, Supervise, Hit, MissWaits,
        StartBroker, StartFails, Watched, Unwatched, StartMonitor, Counters
  <2>4. UNCHANGED World => FALSE
    BY DEF World, director
  <2>5. ~\E s \in Shell : Kafka(s)
    BY <2>4
    DEF Kafka, Reinit, Start, Started, StartGivesUp, Monitor, Awaited, Watch, Ended
  <2>6. ~UnitPasses
    BY <2>1, KafkaBounds DEF UnitPasses, Probes
  <2>7. ~RouterRestarts
    BY KafkaAssumption DEF RouterRestarts
  <2>8. QED
    BY <2>3, <2>4, <2>5, <2>6, <2>7
    DEF KafkaNext, Broker, BrokerDies, StorageWiped, PortTaken, PortFreed, ConsumerEnds,
        CampaignTurns, director
<1>2. QED
  BY <1>1, KafkaInvariant, PTL DEF KafkaSpec, OutageConfirmed
=============================================================================
