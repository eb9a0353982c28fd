---------------------------- MODULE CrawlerService ---------------------------
(***************************************************************************)
(* The loop of run_crawlers in service mode: it keeps daemon crawlers      *)
(* running and spawns scheduled crawlers when their time has come          *)
(* (src/crawlers/management/commands/run_crawlers.py).                     *)
(*                                                                         *)
(* Time is counted in ticks.  A pass of the loop begins at most MaxLag     *)
(* ticks after the pass before.                                            *)
(***************************************************************************)
EXTENDS Integers, FiniteSets

CONSTANTS
  Daemons,      \* enabled instances of type daemon
  Jobs,         \* enabled instances of type scheduled
  Broken,       \* instances whose plugin class cannot be loaded
  RestartLimit, \* max_restarts of each daemon: 0 for False, Forever for True
  HasSchedule,  \* the jobs with a cron expression; the others have an interval
  Period,       \* ticks between the slots of a job, or its interval
  MaxLag,       \* less than every period: a pass takes 10 s, a cron slot 60 s
  MaxDeaths,    \* bound: how often the daemons die
  EndOfTime     \* bound: the clock stops here

Forever == 99
ASSUME CrawlerAssumption ==
  /\ RestartLimit \in [Daemons -> Nat]
  /\ HasSchedule \subseteq Jobs
  /\ Period \in [Jobs -> Nat \ {0}]
  /\ MaxLag \in Nat \ {0} /\ (\A j \in HasSchedule : MaxLag < Period[j])
  /\ MaxDeaths \in Nat /\ EndOfTime \in Nat \ {0}

VARIABLES
  service,   \* "loading", "daemons", "jobs", "sleeping", "stopped", "crashed"
  now,
  instances, \* the instances that were loaded
  process,   \* the process of each daemon: "none", "alive", "dead"
  count,     \* restart_count of the daemons in daemon_processes, else Untracked
  nextRun,   \* scheduled_next_runs
  started,   \* history: when each job was spawned
  starts,    \* history: how often each daemon was started
  deaths, since \* history: deaths so far; when the service came up

crawlerVars ==
  <<service, now, instances, process, count, nextRun, started, starts, deaths, since>>

Untracked == -1

\* croniter(schedule, t).get_next(): the first slot after t.
NextSlot(j, t) == (t \div Period[j] + 1) * Period[j]

CrawlerInit ==
  /\ service = "loading"
  /\ now \in 0..1
  /\ instances = {}
  /\ process = [d \in Daemons |-> "none"]
  /\ count = [d \in Daemons |-> Untracked]
  /\ nextRun = [j \in Jobs |-> 0]
  /\ started = [j \in Jobs |-> {}]
  /\ starts = [d \in Daemons |-> 0]
  /\ deaths = 0
  /\ since = now

\* An instance whose class cannot be loaded is skipped; a job without a cron
\* expression is due at once.
Load ==
  /\ service = "loading"
  /\ instances' = (Daemons \cup Jobs) \ Broken
  /\ nextRun' = [j \in Jobs |-> IF j \in HasSchedule THEN NextSlot(j, now) ELSE now]
  /\ service' = "daemons"
  /\ UNCHANGED <<now, process, count, started, starts, deaths, since>>

Runs(d) == d \in instances
\* What one pass does about a daemon: start it, start it again, or forget it.
Starts(d) == Runs(d) /\ count[d] = Untracked
Restarts(d) == Runs(d) /\ count[d] # Untracked /\ process[d] = "dead" /\ count[d] < RestartLimit[d]
Forgets(d) == Runs(d) /\ count[d] # Untracked /\ process[d] = "dead" /\ count[d] >= RestartLimit[d]

\* The first half of a pass.  What is forgotten now is untracked in the next
\* pass, which starts it with a count of zero.
MonitorDaemons ==
  /\ service = "daemons"
  /\ process' = [d \in Daemons |-> IF Starts(d) \/ Restarts(d) THEN "alive" ELSE process[d]]
  /\ count' = [d \in Daemons |->
       IF Starts(d) THEN 0
       ELSE IF Restarts(d) THEN IF RestartLimit[d] = Forever THEN 0 ELSE count[d] + 1
       ELSE IF Forgets(d) THEN Untracked
       ELSE count[d]]
  /\ service' = "jobs"
  /\ starts' = [d \in Daemons |-> IF Starts(d) \/ Restarts(d) THEN starts[d] + 1 ELSE starts[d]]
  /\ UNCHANGED <<now, instances, nextRun, started, deaths, since>>

Due(j) == j \in instances /\ now >= nextRun[j]

\* Slip: the next slot is counted from the one that was due.
NextAfter_FromSlot(j) == nextRun[j] + Period[j]

\* When a job that is spawned now is due again.
NextAfter(j) == IF j \in HasSchedule THEN NextSlot(j, now) ELSE now + Period[j]

\* The second half: spawn what is due.
RunJobs ==
  /\ service = "jobs"
  /\ started' = [j \in Jobs |-> IF Due(j) THEN started[j] \cup {now} ELSE started[j]]
  /\ nextRun' = [j \in Jobs |-> IF Due(j) THEN NextAfter(j) ELSE nextRun[j]]
  /\ service' = "sleeping"
  /\ UNCHANGED <<now, instances, process, count, starts, deaths, since>>

\* time.sleep(10), and whatever the machine adds to it.
Sleep ==
  /\ service = "sleeping"
  /\ \E lag \in 1..MaxLag : now' = IF now + lag <= EndOfTime THEN now + lag ELSE EndOfTime
  /\ service' = "daemons"
  /\ UNCHANGED <<instances, process, count, nextRun, started, starts, deaths, since>>

DaemonDies(d) ==
  /\ process[d] = "alive" /\ deaths < MaxDeaths
  /\ process' = [process EXCEPT ![d] = "dead"]
  /\ deaths' = deaths + 1
  /\ UNCHANGED <<service, now, instances, count, nextRun, started, starts, since>>

\* proc.start() raises: nothing catches it, and nothing is terminated.
StartFails ==
  /\ \/ service = "jobs" /\ (\E j \in Jobs : Due(j)) /\ UNCHANGED process
     \/ /\ service = "daemons"
        /\ \E S \in SUBSET {d \in Daemons : Starts(d) \/ Restarts(d)} :
             /\ \E d \in Daemons \ S : Starts(d) \/ Restarts(d)
             /\ process' = [d \in Daemons |-> IF d \in S THEN "alive" ELSE process[d]]
  /\ deaths < MaxDeaths
  /\ deaths' = deaths + 1
  /\ service' = "crashed"
  /\ UNCHANGED <<now, instances, count, nextRun, started, starts, since>>

\* KeyboardInterrupt inside the loop: the daemons in the table are terminated
\* and joined; scheduled runs are left to themselves.
InterruptService ==
  /\ service \in {"daemons", "jobs", "sleeping"}
  /\ service' = "stopped"
  /\ process' = [d \in Daemons |->
       IF count[d] # Untracked /\ process[d] = "alive" THEN "dead" ELSE process[d]]
  /\ UNCHANGED <<now, instances, count, nextRun, started, starts, deaths, since>>

CrawlerLoop == Load \/ MonitorDaemons \/ RunJobs \/ Sleep

CrawlerNext ==
  \/ CrawlerLoop
  \/ \E d \in Daemons : DaemonDies(d)
  \/ StartFails
  \/ InterruptService

CrawlerSpec == CrawlerInit /\ [][CrawlerNext]_crawlerVars

-----------------------------------------------------------------------------

Spawns(j, slot) == Cardinality({t \in started[j] : slot <= t /\ t < slot + Period[j]})

\* While the service runs, a job with a cron expression is spawned once for
\* every slot that has passed, however late its passes come; a job with an
\* interval is never spawned again before the interval is over.
JobsOnTime ==
  \A j \in Jobs \cap instances :
    IF j \in HasSchedule
    THEN service = "sleeping" =>
           \A slot \in {k * Period[j] : k \in 1..now} :
             (since < slot /\ slot <= now) => Spawns(j, slot) = 1
    ELSE \A t, u \in started[j] : t < u => u - t >= Period[j]

\* A daemon whose restart is a number is started again at most that often: "a
\* maximum count" (docs/operations/crawler-configuration.md:42), "int (max
\* attempts)" (SIEMatic/settings/crawler.py:20).  A daemon over its limit is
\* forgotten instead, and started as new one pass later (run_crawlers.py:138).
RestartsLimited ==
  \A d \in Daemons : RestartLimit[d] # Forever => starts[d] <= RestartLimit[d] + 1
=============================================================================
