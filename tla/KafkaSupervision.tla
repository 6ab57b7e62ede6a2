--------------------------- MODULE KafkaSupervision ---------------------------
(***************************************************************************)
(* The Director keeps a Kafka broker and its monitor alive: the two probes *)
(* of a tick (src/director/loop.ts, iterm.ts) with their debounce and      *)
(* back-off, and the shells they open (scripts/kafka.sh), which start,     *)
(* reinitialise, watch and stop the broker.                                *)
(*                                                                         *)
(* Time is in units of the cooldown of 60 s, which is also the debounce    *)
(* gap.  An age counts no further than something depends on it.            *)
(***************************************************************************)
EXTENDS Naturals, FiniteSets, FiniteSetsExt

CONSTANTS
  Modes,       \* of "iterm", "detached" and "headless"
  Shell,       \* bound: shells that run kafka.sh at a time
  BackoffMax,  \* the longest back-off: 30 units
  MaxMishaps,   \* bound: faults
  None         \* not a number

ASSUME KafkaAssumption == BackoffMax \in Nat \ {0} /\ MaxMishaps \in Nat /\ None \notin Nat

VARIABLES
  mode,           \* "iterm"; "detached": tabs, but not started from one; "headless": no tabs
  supervising,    \* the tick supervises the campaign, and with it comes to its second probe
  at,             \* where the tick is
  phase,          \* its first or second probe
  misses, missAge,             \* kafkaProbeMisses, lastProbeMissAt
  failures, spawnAge,          \* kafkaConsecutiveFailures, lastKafkaSpawnAt
  monitorMisses, monitorAge,   \* monitorSpawnMisses, lastMonitorSpawnAt
  shell,          \* where each shell is, and whether it monitors afterwards
  own,            \* the shell the tick itself runs and waits for, if any
  broker,         \* "down", "booting", "up", "ending"
  pidfile,        \* it names the broker
  storage,        \* the KRaft directory is formatted
  foreign,        \* another program holds the port
  outage,         \* history: the age of the first of the misses not followed by a hit or a start
  mishaps

setting == <<mode, supervising>>
director == <<at, phase, misses, missAge, failures, spawnAge, monitorMisses, monitorAge, outage>>
kafka == <<broker, pidfile, storage, foreign>>
kafkaVars == <<setting, director, shell, own, kafka, mishaps>>

ShellSteps == {"closed", "init", "start", "wait", "again", "rewait", "monitor",
          "await", "consume", "ended"}
Closed == [step |-> "closed", monitors |-> FALSE]
Answers == broker = "up" /\ ~foreign
PortOpen == broker \in {"up", "ending"} \/ foreign
IsRunning == pidfile /\ broker # "down"
Consumers == {s \in Shell : shell[s].step = "consume"}

\* getKafkaBackoffMs(), getMonitorBackoffMs(); a count that has reached the cap stays.
Backoff(n) == Min({2 ^ n, BackoffMax})
More(n) == IF 2 ^ n < BackoffMax THEN n + 1 ELSE n
Aged(age) == IF age < BackoffMax THEN age + 1 ELSE age
Mishap == mishaps < MaxMishaps /\ mishaps' = mishaps + 1
NoMishap == UNCHANGED mishaps

KafkaInit ==
  /\ mode \in Modes /\ supervising \in BOOLEAN
  /\ at = "idle" /\ phase = 1
  /\ misses = 0 /\ missAge = 1 /\ failures = 0 /\ spawnAge = BackoffMax
  /\ monitorMisses = 0 /\ monitorAge = BackoffMax /\ outage = None
  /\ shell = [s \in Shell |-> Closed] /\ own = None
  /\ broker \in {"down", "up"} /\ pidfile \in {FALSE, broker = "up"}
  /\ storage \in BOOLEAN /\ foreign = FALSE /\ mishaps = 0

-----------------------------------------------------------------------------
(***************************************************************************)
(* The tick.                                                               *)
(***************************************************************************)
Tick(p, n) == at' = p /\ phase' = n
Counters == <<misses, missAge, failures, spawnAge, monitorMisses, monitorAge, outage>>
Free == {s \in Shell : shell[s] = Closed}
Fresh == CHOOSE s \in Free : TRUE
Open(step, monitors) ==
  /\ Free # {}
  /\ shell' = [shell EXCEPT ![Fresh] = [step |-> step, monitors |-> monitors]]

BeginTick ==
  /\ at = "idle" /\ Tick("status", 1)
  /\ UNCHANGED <<setting, Counters, shell, own, kafka, mishaps>>

\* `kafka.sh status`: over a dead broker it runs into its time limit, or ends
\* without an error all the same; over a live one it may be slow.
StatusOk ==
  /\ at = "status" /\ Tick("between", 1)
  /\ UNCHANGED <<setting, Counters, shell, own, kafka, mishaps>>

StatusFails ==
  /\ at = "status" /\ (IF broker = "up" THEN Mishap ELSE NoMishap)
  /\ IF mode = "iterm"
     THEN Tick("probe", 1) /\ UNCHANGED <<shell, own>>
     ELSE Open("init", FALSE) /\ own' = Fresh /\ Tick("own", 1)
  /\ UNCHANGED <<setting, Counters, kafka>>

\* start-or-init of the tick itself ends, or is stopped after 150 s.
OwnEnds ==
  /\ at = "own" /\ Tick("between", 1) /\ own' = None
  /\ \/ shell[own] = Closed /\ UNCHANGED <<shell, mishaps>>
     \/ Mishap /\ shell' = [shell EXCEPT ![own] = Closed]
  /\ UNCHANGED <<setting, Counters, kafka>>

\* The rest of the tick: the second probe comes at the end of the supervision of
\* the campaign, if there is any, unless a phase before it throws.
Supervise ==
  /\ at = "between"
  /\ \/ supervising /\ Tick("probe", 2) /\ NoMishap
     \/ ~supervising /\ Tick("idle", 1) /\ NoMishap
     \/ Tick("idle", 1) /\ Mishap
  /\ UNCHANGED <<setting, Counters, shell, own, kafka>>

\* The campaign gets complete, or goes on; a tick restarts its worker for a missing
\* Playwright MCP and ends with that.  With DIRECTOR_AUTOSTART=false it never turns.
CampaignTurns ==
  /\ supervising' = ~supervising
  /\ UNCHANGED <<mode, director, shell, own, kafka, mishaps>>

Done == IF phase = 1 THEN Tick("between", 1) ELSE Tick("idle", 1)

\* Fault: a hit does not end a series of misses.
HitForgetful ==
  /\ at = "probe" /\ broker \in {"up", "ending"} /\ ~foreign
  /\ failures' = 0 /\ outage' = None
  /\ Tick("pids", phase)
  /\ UNCHANGED <<setting, misses, missAge, spawnAge, monitorMisses, monitorAge, shell, own, kafka,
                 mishaps>>

\* The topics were listed.
Hit ==
  /\ at = "probe" /\ broker \in {"up", "ending"} /\ ~foreign
  /\ misses' = 0 /\ missAge' = 1 /\ failures' = 0 /\ outage' = None
  /\ Tick("pids", phase)
  /\ UNCHANGED <<setting, spawnAge, monitorMisses, monitorAge, shell, own, kafka, mishaps>>

\* The probe does not confirm the broker; a miss after a miss counts when it comes late enough.
Probed ==
  /\ at = "probe" /\ IF broker = "up" /\ ~foreign THEN Mishap ELSE NoMishap
Confirmed == misses >= 1 /\ missAge >= 1

\* Fault: two misses that come too soon count as two.
MissCountsOn ==
  /\ Probed /\ Done
  /\ \/ misses = 0 /\ misses' = 1 /\ missAge' = 0
     \/ misses >= 1 /\ ~Confirmed /\ misses' = misses + 1 /\ UNCHANGED missAge
     \/ Confirmed /\ spawnAge < Backoff(failures) /\ misses' = 2 /\ UNCHANGED missAge
  /\ outage' = IF outage = None THEN 0 ELSE outage
  /\ UNCHANGED <<setting, failures, spawnAge, monitorMisses, monitorAge, shell, own, kafka>>

MissWaits ==
  /\ Probed /\ Done
  /\ \/ misses = 0 /\ misses' = 1 /\ missAge' = 0
     \/ misses >= 1 /\ ~Confirmed /\ misses' = 1 /\ UNCHANGED missAge
     \/ Confirmed /\ spawnAge < Backoff(failures) /\ misses' = 2 /\ UNCHANGED missAge
  /\ outage' = IF outage = None THEN 0 ELSE outage
  /\ UNCHANGED <<setting, failures, spawnAge, monitorMisses, monitorAge, shell, own, kafka>>

\* A tab for the broker and its monitor, or just start-or-init without tabs.
\* A tab that fails to open counts as well.
StartBroker ==
  /\ Probed /\ Confirmed /\ spawnAge >= Backoff(failures) /\ Done
  /\ spawnAge' = 0 /\ misses' = 0 /\ missAge' = 1 /\ outage' = None
  /\ IF mode = "headless"
     THEN Open("init", FALSE) /\ UNCHANGED failures
     ELSE Open("init", TRUE) /\ failures' = More(failures)
  /\ UNCHANGED <<setting, monitorMisses, monitorAge, own, kafka>>

StartFails ==
  /\ at = "probe" /\ ~Answers /\ mode # "headless" /\ Mishap
  /\ Confirmed /\ spawnAge >= Backoff(failures) /\ Done
  /\ spawnAge' = 0 /\ misses' = 0 /\ missAge' = 1 /\ outage' = None
  /\ failures' = More(failures)
  /\ UNCHANGED <<setting, monitorMisses, monitorAge, shell, own, kafka>>

\* The broker answers; `kafka.sh monitor-pids` tells whether anybody watches it.
Watched ==
  /\ at = "pids" /\ Consumers # {} /\ Done
  /\ monitorMisses' = 0
  /\ UNCHANGED <<setting, misses, missAge, failures, spawnAge, monitorAge, outage, shell, own, kafka,
                 mishaps>>

Unwatched ==
  /\ at = "pids" /\ Done
  /\ \/ Consumers = {} /\ monitorAge < Backoff(monitorMisses) /\ NoMishap
     \/ Mishap
  /\ UNCHANGED <<setting, Counters, shell, own, kafka>>

\* Headless there is no tab to open.
StartMonitor ==
  /\ at = "pids" /\ Consumers = {} /\ monitorAge >= Backoff(monitorMisses) /\ Done
  /\ monitorAge' = 0 /\ monitorMisses' = More(monitorMisses)
  /\ IF mode = "headless" THEN UNCHANGED shell ELSE Open("monitor", TRUE)
  /\ UNCHANGED <<setting, misses, missAge, failures, spawnAge, outage, own, kafka, mishaps>>

\* The router ends and starts again: its counters are in memory only, and what
\* it waited for ends with it.
RouterRestarts ==
  /\ Mishap /\ Tick("idle", 1)
  /\ misses' = 0 /\ missAge' = 1 /\ failures' = 0 /\ spawnAge' = BackoffMax
  /\ monitorMisses' = 0 /\ monitorAge' = BackoffMax /\ outage' = None /\ own' = None
  /\ UNCHANGED <<setting, shell, kafka>>

\* A step of a probe takes less than a unit.
UnitPasses ==
  /\ at \in {"idle", "own", "between"}
  /\ missAge' = 1 /\ spawnAge' = Aged(spawnAge) /\ monitorAge' = Aged(monitorAge)
  /\ outage' = IF outage = None THEN None ELSE 1
  /\ <<missAge, spawnAge, monitorAge, outage>>' # <<missAge, spawnAge, monitorAge, outage>>
  /\ UNCHANGED <<setting, at, phase, misses, failures, monitorMisses, shell, own, kafka, mishaps>>

Director ==
  \/ BeginTick \/ StatusOk \/ StatusFails \/ OwnEnds \/ Supervise
  \/ Hit \/ MissWaits \/ StartBroker \/ StartFails \/ Watched \/ Unwatched \/ StartMonitor

-----------------------------------------------------------------------------
(***************************************************************************)
(* kafka.sh.                                                               *)
(***************************************************************************)
Go(s, step) == shell' = [shell EXCEPT ![s].step = step]
Close(s) == shell' = [shell EXCEPT ![s] = Closed]
\* The command typed next, also when the first one has failed.
Continue(s) == IF shell[s].monitors THEN Go(s, "monitor") ELSE Close(s)
World == <<setting, director, own>>

\* Fault: the storage is not formatted.
ReinitUnformatted(s) ==
  /\ \/ shell[s].step = "init" /\ ~storage /\ Go(s, "start") /\ NoMishap
     \/ /\ shell[s].step = "wait" /\ Go(s, "again")
        /\ IF broker = "down" \/ foreign THEN NoMishap ELSE Mishap
  /\ broker' = IF IsRunning THEN "ending" ELSE broker
  /\ pidfile' = FALSE
  /\ UNCHANGED <<World, storage, foreign>>

\* reinit_kraft(), before the start when the storage is gone and after one that
\* failed: the broker of the pidfile is killed, the storage formatted.
Reinit(s) ==
  /\ \/ shell[s].step = "init" /\ ~storage /\ Go(s, "start") /\ NoMishap
     \/ /\ shell[s].step = "wait" /\ Go(s, "again")
        /\ IF broker = "down" \/ foreign THEN NoMishap ELSE Mishap
  /\ broker' = IF IsRunning THEN "ending" ELSE broker
  /\ pidfile' = FALSE /\ storage' = TRUE
  /\ UNCHANGED <<World, foreign>>

\* start(): a broker that runs is refused or adopted, a port that is held refused.
Start(s) ==
  /\ \/ shell[s].step \in {"start", "again"}
     \/ shell[s].step = "init" /\ storage
  /\ IF IsRunning \/ (PortOpen /\ ~Answers)
     THEN Continue(s) /\ UNCHANGED <<broker, pidfile>>
     ELSE IF Answers THEN Continue(s) /\ pidfile' = TRUE /\ UNCHANGED broker
     ELSE /\ Go(s, IF shell[s].step = "again" THEN "rewait" ELSE "wait")
          /\ broker' = "booting" /\ pidfile' = TRUE
  /\ UNCHANGED <<World, storage, foreign, mishaps>>

\* It waits until the topics can be listed, or until its tries are used up.
Started(s) ==
  /\ shell[s].step \in {"wait", "rewait"} /\ Answers
  /\ Continue(s)
  /\ UNCHANGED <<World, kafka, mishaps>>
StartGivesUp(s) ==
  /\ shell[s].step = "rewait" /\ (IF broker = "down" \/ foreign THEN NoMishap ELSE Mishap)
  /\ Continue(s)
  /\ UNCHANGED <<World, kafka>>

Monitor(s) ==
  /\ shell[s].step = "monitor"
  /\ IF PortOpen /\ Consumers = {} THEN Go(s, "await") ELSE Close(s)
  /\ UNCHANGED <<World, kafka, mishaps>>
Awaited(s) ==
  /\ shell[s].step = "await"
  /\ \/ Answers /\ Go(s, "consume") /\ NoMishap
     \/ Close(s) /\ IF broker \in {"down", "ending"} \/ foreign THEN NoMishap ELSE Mishap
  /\ UNCHANGED <<World, kafka>>
\* watch_broker() ends the consumer when the port stays closed or the storage is
\* gone.
Watch(s) ==
  /\ shell[s].step = "consume" /\ (~PortOpen \/ ~storage)
  /\ Go(s, "ended")
  /\ UNCHANGED <<World, kafka, mishaps>>

\* The consumer has ended: what is left of the broker is stopped, and with it
\* every other consumer.
Ended(s) ==
  /\ shell[s].step = "ended"
  /\ IF PortOpen /\ storage
     THEN Close(s) /\ UNCHANGED <<broker, pidfile>>
     ELSE /\ shell' = [t \in Shell |-> IF t = s THEN Closed
                                       ELSE IF t \in Consumers
                                       THEN [shell[t] EXCEPT !.step = "ended"]
                                       ELSE shell[t]]
          /\ broker' = IF IsRunning THEN "ending" ELSE broker
          /\ pidfile' = FALSE
  /\ UNCHANGED <<World, storage, foreign, mishaps>>

Kafka(s) ==
  \/ Reinit(s) \/ Start(s) \/ Started(s) \/ StartGivesUp(s)
  \/ Monitor(s) \/ Awaited(s) \/ Watch(s) \/ Ended(s)

-----------------------------------------------------------------------------
(***************************************************************************)
(* The broker and what happens to it.                                      *)
(***************************************************************************)
Broker ==
  /\ \/ broker = "booting" /\ broker' = (IF storage /\ ~foreign THEN "up" ELSE "down")
     \/ broker = "ending" /\ broker' = "down"
  /\ pidfile' = (pidfile /\ broker' # "down")
  /\ UNCHANGED <<World, shell, storage, foreign, mishaps>>

BrokerDies ==
  /\ broker = "up" /\ Mishap /\ broker' = "down" /\ pidfile' = FALSE
  /\ UNCHANGED <<World, shell, storage, foreign>>
StorageWiped ==
  /\ storage /\ Mishap /\ storage' = FALSE
  /\ UNCHANGED <<World, shell, broker, pidfile, foreign>>
PortTaken ==
  /\ ~PortOpen /\ Mishap /\ foreign' = TRUE
  /\ UNCHANGED <<World, shell, broker, pidfile, storage>>
PortFreed ==
  /\ foreign /\ foreign' = FALSE
  /\ UNCHANGED <<World, shell, broker, pidfile, storage, mishaps>>
ConsumerEnds ==
  /\ Mishap /\ \E s \in Consumers : Go(s, "ended")
  /\ UNCHANGED <<World, kafka>>

KafkaNext ==
  \/ Director \/ RouterRestarts \/ UnitPasses
  \/ \E s \in Shell : Kafka(s)
  \/ Broker \/ BrokerDies \/ StorageWiped \/ PortTaken \/ PortFreed \/ ConsumerEnds
  \/ CampaignTurns

\* Ticks go on, time passes, a shell runs its script, and a program that holds
\* the port leaves it.
KafkaFairness ==
  /\ WF_kafkaVars(Director) /\ SF_kafkaVars(UnitPasses)
  /\ WF_kafkaVars(Broker) /\ WF_kafkaVars(PortFreed)
  /\ \A s \in Shell : WF_kafkaVars(Kafka(s))

KafkaSpec == KafkaInit /\ [][KafkaNext]_kafkaVars /\ KafkaFairness

-----------------------------------------------------------------------------
Age == 0 .. BackoffMax
Count == {n \in Nat : n = 0 \/ 2 ^ (n - 1) < BackoffMax}
KafkaTypeOK ==
  /\ mode \in Modes /\ supervising \in BOOLEAN
  /\ at \in {"idle", "status", "own", "between", "probe", "pids"} /\ phase \in {1, 2}
  /\ misses \in 0 .. 2 /\ missAge \in {0, 1} /\ failures \in Count /\ spawnAge \in Age
  /\ monitorMisses \in Count /\ monitorAge \in Age /\ outage \in {0, 1, None}
  /\ shell \in [Shell -> [step : ShellSteps, monitors : BOOLEAN]] /\ own \in Shell \cup {None}
  /\ broker \in {"down", "booting", "up", "ending"}
  /\ pidfile \in BOOLEAN /\ storage \in BOOLEAN /\ foreign \in BOOLEAN
  /\ mishaps \in 0 .. MaxMishaps

\* The recovery of the broker begins only when two probes, at least the debounce
\* gap apart, have missed it and none in between has seen it: one flake, however
\* often the two probes of a tick repeat it, opens no tab.
OutageConfirmed == [][(spawnAge' = 0 /\ spawnAge # 0) => outage = 1]_kafkaVars

\* Once faults end, and the Director goes on supervising a campaign, the broker is
\* up for good and, where there are tabs to run it, its monitor consumes: only a
\* broker that was started elsewhere, and lost its storage, is watched by nobody
\* for long.  With DIRECTOR_AUTOSTART=false, or the campaign complete, nothing is
\* claimed: the first probe may take a dead broker for a live one, and no probe
\* looks at the monitor of a live one.
KafkaComesBack ==
  <>[]supervising =>
    /\ <>[](broker = "up")
    /\ mode # "headless" => <>[](Consumers # {} \/ (~storage /\ ~pidfile))
=============================================================================
