---------------------------- MODULE DirectorTick ----------------------------
(***************************************************************************)
(* The supervision the Director does in a tick (src/director/loop.ts       *)
(* runOnce(), phases 0 to 4, with restart.ts, process.ts, iterm.ts,        *)
(* observe.ts and classify.ts): restart the campaign worker when its       *)
(* infrastructure is gone, rotate the VPN, start a missing worker, observe *)
(* the campaign, recover a stalled one, and save the checkpoint.           *)
(*                                                                         *)
(* One tick runs at a time (orchestrator.ts).  A step of it is the code    *)
(* between two awaits; the worker, the user, the clock and a crash of the  *)
(* router act between them.  What is thrown ends the tick without saving.  *)
(* Times are ages with a ceiling: nothing tells two ages beyond it apart.  *)
(***************************************************************************)
EXTENDS Naturals

CONSTANTS
  StaleThreshold,   \* STALE_THRESHOLD_MINUTES, in ticks
  VpnInterval,      \* VPN_ROTATION_INTERVAL_MINUTES, in ticks
  MaxFaults         \* bound: thrown errors, failed launches and crashes

ASSUME NumberAssumption ==
  StaleThreshold \in Nat \ {0} /\ VpnInterval \in Nat \ {0} /\ MaxFaults \in Nat

VARIABLES
  env,         \* DIRECTOR_AUTOSTART, and whether VPN rotation is on
  pc,          \* where the tick stands; "idle" between ticks, "down" after a crash
  caller,      \* the phase that runs restartWorker()
  cp,          \* the checkpoint in memory
  saved,       \* the checkpoint file
  unread,      \* the event log goes on past the saved offset
  later,       \* the event log goes on past what the tick has observed
  tick,        \* locals of the tick: [handled, seen, stale]
  coming,      \* workers launched that pgrep does not show yet
  up,          \* workers that pgrep shows
  orphan,      \* their terminal tab is gone
  mcp,         \* a Playwright MCP process is running
  lock,        \* the start lock is younger than its minute and its owner alive
  quiet,       \* time since the campaign last wrote
  complete,    \* the campaign has reached its target
  faults,      \* how often something failed
  recovered,   \* history: a stall of this episode was recovered and saved
  restarts     \* history: how often this tick killed the worker to restart it

campaign == <<coming, up, orphan, mcp, quiet, complete>>
history == <<recovered, restarts>>
vars == <<env, pc, caller, cp, saved, unread, later, tick, campaign, lock, faults, history>>

\* An age that counts up to its ceiling.
Older(age, ceiling) == IF age < ceiling THEN age + 1 ELSE ceiling

\* lastVpnRotation is missing or longer ago than the interval.
Due == VpnInterval + 1
Blank == [stale |-> FALSE, rotated |-> Due]
NewTick == [handled |-> FALSE, seen |-> FALSE, stale |-> FALSE]
Callers == {"infra", "vpn", "stall"}
Steps == {"infra", "vpn", "campaign", "relaunch", "observe", "fire", "persist", "report",
          "finish", "stop", "launch", "await"}

Init ==
  /\ env \in [autostart : BOOLEAN, vpn : BOOLEAN]
  /\ pc = "idle" /\ caller = "infra"
  /\ cp = Blank /\ saved = Blank
  /\ unread = FALSE /\ later = FALSE /\ tick = NewTick
  /\ coming = 0 /\ up = 0 /\ orphan = FALSE /\ mcp = FALSE
  /\ lock = FALSE /\ quiet = 0 /\ complete = FALSE
  /\ faults = 0 /\ recovered = FALSE /\ restarts = 0

\* snapshot(): a worker is registered; the tab of every one is gone.
Running == up > 0
Orphaned == Running /\ orphan

\* classify(): no event since the last observation, and the last one is old.
Stale == ~complete /\ ~unread /\ quiet = StaleThreshold

Fault == faults < MaxFaults /\ faults' = faults + 1

\* The timer fires while no tick runs: loadCheckpoint().
Begin ==
  /\ pc = "idle"
  /\ pc' = "infra" /\ cp' = saved /\ tick' = NewTick
  /\ restarts' = 0
  /\ UNCHANGED <<env, caller, saved, unread, later, campaign, lock, faults, recovered>>

\* ensureInfrastructureHealthy(): without a Playwright MCP the worker is
\* restarted and the tick ends.
CheckInfrastructure ==
  /\ pc = "infra"
  /\ LET unhealthy == env.autostart /\ ~complete /\ ~mcp
     IN  /\ pc' = IF unhealthy THEN "stop" ELSE "vpn"
         /\ caller' = IF unhealthy THEN "infra" ELSE caller
  /\ UNCHANGED <<env, cp, saved, unread, later, tick, campaign, lock, faults, history>>

VpnWaits ==
  /\ pc = "vpn" /\ ~(env.vpn /\ cp.rotated = Due)
  /\ pc' = "campaign"
  /\ UNCHANGED <<env, caller, cp, saved, unread, later, tick, campaign, lock, faults, history>>

\* Fault: the rotation does not tell the stall path that it restarted.
RotateUnmarked(ok) ==
  /\ pc = "vpn" /\ env.vpn /\ cp.rotated = Due
  /\ cp' = [cp EXCEPT !.rotated = 0]
  /\ LET restart == ok /\ env.autostart /\ quiet = StaleThreshold
     IN  /\ pc' = IF restart THEN "stop" ELSE "campaign"
         /\ caller' = IF restart THEN "vpn" ELSE caller
  /\ UNCHANGED <<env, saved, unread, later, tick, campaign, lock, faults, history>>

\* rotateVpnIp(): a success restarts a worker that has been idle too long.
Rotate(ok) ==
  /\ pc = "vpn" /\ env.vpn /\ cp.rotated = Due
  /\ cp' = [cp EXCEPT !.rotated = 0]
  /\ LET restart == ok /\ env.autostart /\ quiet = StaleThreshold
     IN  /\ pc' = IF restart THEN "stop" ELSE "campaign"
         /\ caller' = IF restart THEN "vpn" ELSE caller
         /\ tick' = [tick EXCEPT !.handled = restart]
  /\ UNCHANGED <<env, saved, unread, later, campaign, lock, faults, history>>

(***************************************************************************)
(* restartWorker(): stop, launch, wait for the worker to register.         *)
(***************************************************************************)
\* stopWorker(): the process trees of the registered workers are killed, and
\* with them the MCP server when it is theirs.
Killed == up' = 0 /\ orphan' = FALSE /\ mcp' \in (IF Running THEN {mcp, FALSE} ELSE {mcp})

Stop ==
  /\ pc = "stop"
  /\ pc' = "launch" /\ Killed
  /\ restarts' = IF Running THEN restarts + 1 ELSE restarts
  /\ UNCHANGED <<env, caller, cp, saved, unread, later, tick, coming, quiet, complete, lock,
                 faults, recovered>>

\* Fault: the start lock is not asked.
SpawnUnlocked == lock' = TRUE /\ coming' = coming + 1

\* startWorkerInIterm(): nothing while the start lock is held.
Spawn ==
  \/ lock /\ UNCHANGED <<lock, coming>>
  \/ ~lock /\ lock' = TRUE /\ coming' = coming + 1

\* The launch fails, the lock is written already.
SpawnFails == ~lock /\ lock' = TRUE /\ UNCHANGED coming

Launch ==
  /\ pc = "launch" /\ pc' = "await" /\ Spawn
  /\ UNCHANGED <<env, caller, cp, saved, unread, later, tick, up, orphan, mcp, quiet, complete,
                 faults, history>>

LaunchFails ==
  /\ pc = "launch" /\ pc' = "idle" /\ SpawnFails /\ Fault
  /\ UNCHANGED <<env, caller, cp, saved, unread, later, tick, up, orphan, mcp, quiet, complete,
                 history>>

\* Fault: the wait for the worker has no deadline.
AwaitForever ==
  /\ pc = "await" /\ up > 0
  /\ lock' = FALSE
  /\ pc' = CASE caller = "infra" -> "idle"
             [] caller = "vpn" -> "campaign"
             [] caller = "stall" -> "persist"
  /\ UNCHANGED <<env, caller, cp, saved, unread, later, tick, campaign, faults, history>>

\* waitForStartup() ends with the worker, and clears the lock, or without it.
Await ==
  /\ pc = "await"
  /\ lock' = (lock /\ up = 0)
  /\ pc' = CASE caller = "infra" -> "idle"
             [] caller = "vpn" -> "campaign"
             [] caller = "stall" -> "persist"
  /\ UNCHANGED <<env, caller, cp, saved, unread, later, tick, campaign, faults, history>>

(***************************************************************************)
(* ensureCampaignRunning(): an orphan is killed first.                     *)
(***************************************************************************)
CampaignRuns ==
  /\ pc = "campaign"
  /\ ~env.autostart \/ complete \/ (Running /\ ~Orphaned)
  /\ pc' = "observe"
  /\ UNCHANGED <<env, caller, cp, saved, unread, later, tick, campaign, lock, faults, history>>

CampaignOrphaned ==
  /\ pc = "campaign"
  /\ env.autostart /\ ~complete /\ Orphaned
  /\ pc' = "relaunch" /\ Killed
  /\ UNCHANGED <<env, caller, cp, saved, unread, later, tick, coming, quiet, complete, lock,
                 faults, history>>

\* A failed launch is swallowed here.
CampaignStarts ==
  /\ \/ pc = "campaign" /\ env.autostart /\ ~complete /\ ~Running
     \/ pc = "relaunch"
  /\ pc' = "observe"
  /\ \/ Spawn /\ UNCHANGED faults
     \/ SpawnFails /\ Fault
  /\ UNCHANGED <<env, caller, cp, saved, unread, later, tick, up, orphan, mcp, quiet, complete,
                 history>>

(***************************************************************************)
(* observe(), classify() and the recovery of a stall.                      *)
(***************************************************************************)
\* Fault: observe() starts from a checkpoint without the flag.
ObserveForgetful ==
  /\ pc = "observe"
  /\ tick' = [tick EXCEPT !.seen = unread, !.stale = Stale]
  /\ pc' = IF Stale /\ ~tick.handled THEN "fire" ELSE "report"
  /\ later' = FALSE /\ cp' = [cp EXCEPT !.stale = FALSE]
  /\ UNCHANGED <<env, caller, saved, unread, campaign, lock, faults, history>>

\* The events past the offset are read; without any, an old campaign is stale.
\* The flags of the checkpoint are carried over.
Observe ==
  /\ pc = "observe"
  /\ tick' = [tick EXCEPT !.seen = unread, !.stale = Stale]
  /\ pc' = IF Stale /\ ~cp.stale /\ ~tick.handled THEN "fire" ELSE "report"
  /\ later' = FALSE
  /\ UNCHANGED <<env, caller, cp, saved, unread, campaign, lock, faults, history>>

\* The VPN is rotated if that is on, and the worker restarted with autostart.
Fire ==
  /\ pc = "fire"
  /\ cp' = [stale |-> TRUE, rotated |-> 0]
  /\ tick' = [tick EXCEPT !.handled = TRUE]
  /\ pc' = IF env.autostart THEN "stop" ELSE "persist"
  /\ caller' = IF env.autostart THEN "stall" ELSE caller
  /\ UNCHANGED <<env, saved, unread, later, campaign, lock, faults, history>>

\* saveCheckpoint(): flags, rotation time and the offset of what was observed.
Save == saved' = cp /\ unread' = later

\* The recovery is saved before anything else can throw.
Persist ==
  /\ pc = "persist"
  /\ pc' = "report" /\ Save
  /\ recovered' = ~later
  /\ UNCHANGED <<env, caller, cp, later, tick, campaign, lock, faults, restarts>>

\* The observation is published; new activity clears the stale flag, a stale
\* campaign that is proposed about sets it.
Report ==
  /\ pc = "report"
  /\ pc' = "finish"
  /\ cp' = [cp EXCEPT !.stale = (@ /\ ~tick.seen) \/ tick.stale]
  /\ UNCHANGED <<env, caller, saved, unread, later, tick, campaign, lock, faults, history>>

\* The decisions are through (module PatchLedger): the tick saves and ends.
Finish ==
  /\ pc = "finish"
  /\ pc' = "idle" /\ Save
  /\ UNCHANGED <<env, caller, cp, later, tick, campaign, lock, faults, history>>

\* A phase throws (an unreadable tracker, a ledger or checkpoint that cannot be
\* written, a chain without providers): the tick ends without saving.
Throw ==
  /\ pc \in {"infra", "observe", "persist", "report", "finish"}
  /\ pc' = "idle" /\ Fault
  /\ UNCHANGED <<env, caller, cp, saved, unread, later, tick, campaign, lock, history>>

(***************************************************************************)
(* The router crashes.  writeFile() truncates first: a crash in the middle *)
(* of a save leaves a file that loadCheckpoint() takes for none.           *)
(***************************************************************************)
Torn == saved' = Blank /\ unread' = TRUE /\ recovered' = FALSE

Crash ==
  /\ pc # "down" /\ pc' = "down" /\ Fault
  /\ \/ UNCHANGED <<saved, unread, recovered>>
     \/ pc \in {"persist", "finish"} /\ Torn
  /\ lock' = FALSE
  /\ UNCHANGED <<env, caller, cp, later, tick, campaign, restarts>>

\* By the time the router runs again a launched worker has registered.
Restart ==
  /\ pc = "down" /\ coming = 0
  /\ pc' = "idle"
  /\ UNCHANGED <<env, caller, cp, saved, unread, later, tick, campaign, lock, faults, history>>

(***************************************************************************)
(* The campaign worker, its user and the clock.                            *)
(***************************************************************************)
Rest == <<env, pc, caller, cp, saved, tick, faults, restarts>>

Register ==
  /\ coming > 0
  /\ coming' = coming - 1 /\ up' = up + 1 /\ orphan' = FALSE
  /\ UNCHANGED <<Rest, unread, later, mcp, quiet, complete, lock, recovered>>

\* In observe-only mode the user starts the worker.
UserStarts ==
  /\ ~env.autostart /\ up = 0
  /\ up' = 1 /\ orphan' = FALSE
  /\ UNCHANGED <<Rest, unread, later, coming, mcp, quiet, complete, lock, recovered>>

\* A worker ends or dies; its MCP server may outlive it.
WorkerEnds ==
  /\ up > 0
  /\ up' = up - 1 /\ mcp' \in {mcp, FALSE} /\ orphan' = FALSE
  /\ UNCHANGED <<Rest, unread, later, coming, quiet, complete, lock, recovered>>

TabCloses ==
  /\ up > 0 /\ orphan' = TRUE
  /\ UNCHANGED <<Rest, unread, later, coming, up, mcp, quiet, complete, lock, recovered>>

McpChanges ==
  /\ up > 0 \/ mcp
  /\ mcp' = ~mcp
  /\ UNCHANGED <<Rest, unread, later, coming, up, orphan, quiet, complete, lock, recovered>>

\* The worker records an event, its last one perhaps.
Event ==
  /\ up > 0 /\ ~complete
  /\ unread' = TRUE /\ later' = TRUE /\ quiet' = 0
  /\ complete' \in BOOLEAN
  /\ recovered' = FALSE
  /\ UNCHANGED <<Rest, coming, up, orphan, mcp, lock>>

\* A worker registers well within the minute the start lock lasts: the lock
\* outlives the registration by the seconds stopWorker() may take.
LockExpires ==
  /\ lock /\ coming = 0 /\ pc \notin {"launch", "relaunch"}
  /\ lock' = FALSE
  /\ UNCHANGED <<Rest, unread, later, campaign, recovered>>

TimePasses ==
  /\ quiet' = Older(quiet, StaleThreshold)
  /\ saved' = [saved EXCEPT !.rotated = Older(@, Due)]
  /\ cp' = [cp EXCEPT !.rotated = Older(@, Due)]
  /\ UNCHANGED <<env, pc, caller, unread, later, tick, coming, up, orphan, mcp, complete, lock,
                 faults, history>>

Step ==
  \/ Begin \/ CheckInfrastructure \/ VpnWaits \/ (\E ok \in BOOLEAN : Rotate(ok))
  \/ Stop \/ Launch \/ Await
  \/ CampaignRuns \/ CampaignOrphaned \/ CampaignStarts
  \/ Observe \/ Fire \/ Persist \/ Report \/ Finish \/ Restart

Worker == Register \/ UserStarts \/ WorkerEnds \/ TabCloses \/ McpChanges \/ Event

Next == Step \/ LaunchFails \/ Throw \/ Crash \/ Worker \/ LockExpires \/ TimePasses

Spec == Init /\ [][Next]_vars

(***************************************************************************)
(* The timer keeps firing and every step of a tick ends: its commands and  *)
(* requests have timeouts.  A launched worker registers, and somebody      *)
(* starts the router again.  A lock is over when its minute is: strongly   *)
(* fair, because the model does not let it end while a worker is stopped.  *)
(***************************************************************************)
Fairness == WF_vars(Step) /\ WF_vars(Register) /\ SF_vars(LockExpires)
FairSpec == Spec /\ Fairness
-----------------------------------------------------------------------------
(***************************************************************************)
(* Properties.                                                             *)
(***************************************************************************)
Checkpoint == [stale : BOOLEAN, rotated : 0..Due]

\* Types.
TypeOK ==
  /\ env \in [autostart : BOOLEAN, vpn : BOOLEAN]
  /\ pc \in Steps \cup {"idle", "down"} /\ caller \in Callers
  /\ cp \in Checkpoint /\ saved \in Checkpoint
  /\ tick \in [handled : BOOLEAN, seen : BOOLEAN, stale : BOOLEAN]
  /\ unread \in BOOLEAN /\ later \in BOOLEAN
  /\ coming \in Nat /\ up \in Nat
  /\ orphan \in BOOLEAN /\ mcp \in BOOLEAN /\ lock \in BOOLEAN
  /\ quiet \in 0..StaleThreshold /\ complete \in BOOLEAN
  /\ faults \in 0..MaxFaults /\ recovered \in BOOLEAN /\ restarts \in Nat

\* Whatever dies, fails or comes late, the Director never runs two workers:
\* "Prevents startWorkerInIterm from spawning a second agent" (process.ts).
AtMostOneWorker == coming + up <= 1

\* The invariant of supervision: types, and one worker.
DirectorInv == TypeOK /\ AtMostOneWorker

\* One tick kills the worker at most once to restart it (loop.ts: "must not
\* double-rotate/double-restart the minutes-old worker within the same tick").
OneRestartPerTick == restarts <= 1

\* A stall that was recovered and saved is not recovered again before the
\* campaign shows new activity, whatever later phases throw and whenever the
\* router crashes (loop.ts: "One-shot per episode").
OneShotOnceSaved == [][pc = "fire" /\ pc' # "fire" /\ pc' # "down" => ~recovered]_vars

\* With autostart an unfinished campaign gets its worker back.
WorkerComesBack ==
  env.autostart /\ ~complete /\ up = 0 ~> up > 0 \/ complete
=============================================================================
