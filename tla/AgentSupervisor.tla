--------------------------- MODULE AgentSupervisor ---------------------------
(***************************************************************************)
(* The agent process (src/agent/management/commands/agent.py) and the      *)
(* plugin and sender processes its managers own                            *)
(* (PluginProcessManager in src/agent/plugins/plugin_process_manager.py).  *)
(*                                                                         *)
(* The agent is one loop.  A pass visits the managers in order: it looks   *)
(* after the manager's processes (check_and_restart, which never waits)    *)
(* and then puts a heartbeat on that manager's event queue, which does     *)
(* wait, without a limit, while the queue is full.  After a pass it sleeps *)
(* for a period.  A plugin fills its queue and its sender empties it, but  *)
(* only over a connection, and a sender that cannot log in gives up.       *)
(*                                                                         *)
(* Time is counted in periods of the loop.  It passes while the agent      *)
(* sleeps or waits for room; a plugin's lifetime and the time to its next  *)
(* restart are counters that move with it.                                 *)
(***************************************************************************)
EXTENDS Integers

CONSTANTS
  NumManagers,      \* managers, in the order of the configuration
  QueueSize,        \* capacity of each event queue
  Unlimited,        \* the limit of restart=True
  RestartLimit,     \* of each manager: consecutive restarts allowed
  PromptSenders,    \* TRUE: a connected sender empties its queue within a period
  Backoff, BackoffMax, ResetAfter, \* restart_backoff, .._max and restart_reset_after
  MaxExits,         \* bound: how often plugins exit
  MaxEvents,        \* bound: events plugins put on their queues
  MaxOutage,        \* bound: periods the indexer is away, in all
  MaxStartFailures, \* bound: process starts the operating system refuses
  MaxInterrupts     \* bound: SIGINTs

ASSUME SupervisorAssumption ==
  /\ NumManagers \in Nat \ {0} /\ QueueSize \in Nat \ {0}
  /\ RestartLimit \in [1..NumManagers -> Nat \cup {Unlimited}] /\ Unlimited \notin Nat
  /\ PromptSenders \in BOOLEAN
  /\ Backoff \in Nat /\ BackoffMax \in Nat /\ ResetAfter \in Nat
  /\ MaxExits \in Nat /\ MaxEvents \in Nat /\ MaxOutage \in Nat
  /\ MaxStartFailures \in Nat /\ MaxInterrupts \in Nat

Managers == 1..NumManagers
Idle == -1    \* no restart is scheduled: next_restart_at is None

VARIABLES
  pc,        \* the agent: "check", "put", "sleep" or "exited"
  turn,      \* the manager the pass is at
  plugin,    \* "alive"; "exited", still in child_processes; "none", removed
  age,       \* periods since the plugin was started, as far as ResetAfter tells
  attempts,  \* restart_attempts
  wait,      \* periods to next_restart_at, or Idle
  sender,    \* "alive" or "dead"
  queue,     \* items on event_queue
  indexerUp,
  \* history
  waited,    \* periods since the exit of the plugin was noticed
  starts,    \* starts of the plugin since one of its processes stayed up
  spent      \* uses of the bounds

vars == <<pc, turn, plugin, age, attempts, wait, sender, queue, indexerUp, waited, starts, spent>>
pluginVars == <<plugin, age, attempts, wait, waited, starts>>

Bounds == {"exit", "event", "outage", "startFailure", "interrupt"}

\* Every enabled plugin has been started, with its sender.
Init ==
  /\ pc = "check" /\ turn = 1
  /\ plugin = [m \in Managers |-> "alive"]
  /\ age = [m \in Managers |-> 0]
  /\ attempts = [m \in Managers |-> 0]
  /\ wait = [m \in Managers |-> Idle]
  /\ sender = [m \in Managers |-> "alive"]
  /\ queue = [m \in Managers |-> 0]
  /\ indexerUp = TRUE
  /\ waited = [m \in Managers |-> 0]
  /\ starts = [m \in Managers |-> 1]
  /\ spent = [b \in Bounds |-> 0]

Spend(b, limit) ==
  /\ spent[b] < limit
  /\ spent' = [spent EXCEPT ![b] = @ + 1]

MinOf(a, b) == IF a <= b THEN a ELSE b

-----------------------------------------------------------------------------
\* check_and_restart.

\* Slip: the wait has no upper limit.
Delay_Unbounded(n) == Backoff * 2 ^ MinOf(n, 32)

\* The wait before the restart after n consecutive ones.
Delay(n) == MinOf(Backoff * 2 ^ MinOf(n, 32), BackoffMax)

\* A process counts as long-lived by the time at which its exit is noticed.
Noticed(m) == plugin[m] = "exited"
StayedUp(m) == Noticed(m) /\ age[m] >= ResetAfter
Attempts(m) == IF StayedUp(m) THEN 0 ELSE attempts[m]
\* Slip: one restart too many.
LimitReached_OneMore(m) == RestartLimit[m] # Unlimited /\ Attempts(m) > RestartLimit[m]

LimitReached(m) == RestartLimit[m] # Unlimited /\ Attempts(m) >= RestartLimit[m]

\* Slip: the wait does not grow with the restarts.
Due_Constant(m) == IF Noticed(m) /\ ~LimitReached(m) THEN Delay(0) ELSE wait[m]

\* Periods to the restart of m after its exit, if any, has been looked at.
Due(m) == IF Noticed(m) /\ ~LimitReached(m) THEN Delay(Attempts(m)) ELSE wait[m]

Clear(m) == starts' = [starts EXCEPT ![m] = IF StayedUp(m) THEN 0 ELSE @]

\* Slip: a sender that has given up stays dead.
CheckSender_LeavesDead(m) == pc' = "put" /\ UNCHANGED <<sender, spent>>

\* A sender that is not alive is started again.  If that raises, the agent
\* sleeps and starts the pass anew.
CheckSender(m) ==
  \/ /\ sender' = [sender EXCEPT ![m] = "alive"]
     /\ pc' = "put"
     /\ UNCHANGED spent
  \/ /\ sender[m] = "dead"
     /\ Spend("startFailure", MaxStartFailures)
     /\ pc' = "sleep"
     /\ UNCHANGED sender

\* Slip: a pending restart is dropped by the next pass.
CheckLeaves_DropsSchedule ==
  /\ pc = "check"
  /\ Due(turn) # 0
  /\ plugin' = [plugin EXCEPT ![turn] = IF Noticed(turn) THEN "none" ELSE @]
  /\ attempts' = [attempts EXCEPT ![turn] = Attempts(turn)]
  /\ wait' = [wait EXCEPT ![turn] = IF Noticed(turn) THEN Due(turn) ELSE Idle]
  /\ waited' = [waited EXCEPT ![turn] = IF Noticed(turn) THEN 0 ELSE @]
  /\ Clear(turn)
  /\ CheckSender(turn)
  /\ UNCHANGED <<turn, age, queue, indexerUp>>

\* Slip: a pending restart is scheduled anew by every pass.
CheckLeaves_Postpones ==
  /\ pc = "check"
  /\ Due(turn) # 0
  /\ plugin' = [plugin EXCEPT ![turn] = IF Noticed(turn) THEN "none" ELSE @]
  /\ attempts' = [attempts EXCEPT ![turn] = Attempts(turn)]
  /\ wait' = [wait EXCEPT ![turn] = IF Due(turn) = Idle THEN Idle ELSE Delay(Attempts(turn))]
  /\ waited' = [waited EXCEPT ![turn] = IF Noticed(turn) THEN 0 ELSE @]
  /\ Clear(turn)
  /\ CheckSender(turn)
  /\ UNCHANGED <<turn, age, queue, indexerUp>>

\* No restart of the plugin is due.
CheckLeaves ==
  /\ pc = "check"
  /\ Due(turn) # 0
  /\ plugin' = [plugin EXCEPT ![turn] = IF Noticed(turn) THEN "none" ELSE @]
  /\ attempts' = [attempts EXCEPT ![turn] = Attempts(turn)]
  /\ wait' = [wait EXCEPT ![turn] = Due(turn)]
  /\ waited' = [waited EXCEPT ![turn] = IF Noticed(turn) THEN 0 ELSE @]
  /\ Clear(turn)
  /\ CheckSender(turn)
  /\ UNCHANGED <<turn, age, queue, indexerUp>>

\* The plugin is started again.
CheckRestarts ==
  /\ pc = "check"
  /\ Due(turn) = 0
  /\ plugin' = [plugin EXCEPT ![turn] = "alive"]
  /\ age' = [age EXCEPT ![turn] = 0]
  /\ attempts' = [attempts EXCEPT ![turn] = Attempts(turn) + 1]
  /\ wait' = [wait EXCEPT ![turn] = Idle]
  /\ starts' = [starts EXCEPT ![turn] = IF StayedUp(turn) THEN 1 ELSE @ + 1]
  /\ CheckSender(turn)
  /\ UNCHANGED <<turn, queue, indexerUp, waited>>

\* The start raises, with next_restart_at already cleared.  The pass is
\* abandoned, the other managers and this sender included.
CheckFails ==
  /\ pc = "check"
  /\ Due(turn) = 0
  /\ Spend("startFailure", MaxStartFailures)
  /\ plugin' = [plugin EXCEPT ![turn] = "none"]
  /\ attempts' = [attempts EXCEPT ![turn] = Attempts(turn)]
  /\ wait' = [wait EXCEPT ![turn] = Idle]
  /\ Clear(turn)
  /\ pc' = "sleep"
  /\ UNCHANGED <<turn, age, sender, queue, indexerUp, waited>>

-----------------------------------------------------------------------------
\* The rest of the loop.

\* event_queue.put(heartbeat), which waits for room, then the next manager.
PutHeartbeat ==
  /\ pc = "put"
  /\ queue[turn] < QueueSize
  /\ queue' = [queue EXCEPT ![turn] = @ + 1]
  /\ IF turn < NumManagers THEN pc' = "check" /\ turn' = turn + 1
                           ELSE pc' = "sleep" /\ UNCHANGED turn
  /\ UNCHANGED <<pluginVars, sender, indexerUp, spent>>

Busy(m) == sender[m] = "alive" /\ indexerUp /\ queue[m] > 0

\* A period passes; the agent that sleeps wakes up to its next pass.
Tick ==
  /\ pc \in {"sleep", "put"}
  /\ pc = "put" => queue[turn] = QueueSize
  /\ PromptSenders => \A m \in Managers : ~Busy(m)
  /\ age' = [m \in Managers |-> MinOf(age[m] + 1, ResetAfter)]
  /\ wait' = [m \in Managers |-> IF wait[m] > 0 THEN wait[m] - 1 ELSE wait[m]]
  /\ waited' = [m \in Managers |-> MinOf(waited[m] + 1, BackoffMax)]
  /\ IF indexerUp THEN UNCHANGED <<indexerUp, spent>>
                  ELSE \/ indexerUp' = TRUE /\ UNCHANGED spent
                       \/ Spend("outage", MaxOutage) /\ UNCHANGED indexerUp
  /\ IF pc = "sleep" THEN pc' = "check" /\ turn' = 1 ELSE UNCHANGED <<pc, turn>>
  /\ UNCHANGED <<plugin, attempts, starts, sender, queue>>

\* SIGINT.  While the agent sleeps the handler's exception surfaces in the
\* event loop, not in the coroutine, whose except clause never sees it; at any
\* other point the managers are stopped.
Interrupt ==
  /\ pc # "exited"
  /\ Spend("interrupt", MaxInterrupts)
  /\ pc' = "exited"
  /\ IF pc = "sleep"
     THEN UNCHANGED <<plugin, sender>>
     ELSE /\ plugin' = [m \in Managers |-> "none"]
          /\ sender' = [m \in Managers |-> "dead"]
  /\ UNCHANGED <<turn, age, attempts, wait, waited, starts, queue, indexerUp>>

-----------------------------------------------------------------------------
\* The other processes.

PluginExits(m) ==
  /\ plugin[m] = "alive"
  /\ Spend("exit", MaxExits)
  /\ plugin' = [plugin EXCEPT ![m] = "exited"]
  /\ UNCHANGED <<pc, turn, age, attempts, wait, waited, starts, sender, queue, indexerUp>>

PluginPuts(m) ==
  /\ plugin[m] = "alive"
  /\ queue[m] < QueueSize
  /\ Spend("event", MaxEvents)
  /\ queue' = [queue EXCEPT ![m] = @ + 1]
  /\ UNCHANGED <<pc, turn, pluginVars, sender, indexerUp>>

\* A connected sender takes one or more items.
SenderTakes(m) ==
  /\ Busy(m)
  /\ \E n \in 1..queue[m] : queue' = [queue EXCEPT ![m] = @ - n]
  /\ UNCHANGED <<pc, turn, pluginVars, sender, indexerUp, spent>>

\* authenticate has run out of retries.
SenderGivesUp(m) ==
  /\ sender[m] = "alive" /\ ~indexerUp
  /\ sender' = [sender EXCEPT ![m] = "dead"]
  /\ UNCHANGED <<pc, turn, pluginVars, queue, indexerUp, spent>>

IndexerGoes ==
  /\ indexerUp
  /\ Spend("outage", MaxOutage)
  /\ indexerUp' = FALSE
  /\ UNCHANGED <<pc, turn, pluginVars, sender, queue>>

AgentStep == CheckLeaves \/ CheckRestarts \/ CheckFails \/ PutHeartbeat

Next ==
  \/ AgentStep \/ Tick \/ Interrupt \/ IndexerGoes
  \/ \E m \in Managers : PluginExits(m) \/ PluginPuts(m) \/ SenderTakes(m) \/ SenderGivesUp(m)

Spec == Init /\ [][Next]_vars

\* The agent runs, time passes, and a sender with a connection empties its
\* queue.  Nothing is assumed of plugins, and the indexer comes back because
\* MaxOutage periods of absence have passed.
Fairness ==
  /\ WF_vars(AgentStep)
  /\ WF_vars(Tick)
  /\ \A m \in Managers : WF_vars(SenderTakes(m))

FairSpec == Spec /\ Fairness

-----------------------------------------------------------------------------

\* Every counter stays in its range.
TypeOK ==
  /\ pc \in {"check", "put", "sleep", "exited"}
  /\ turn \in Managers
  /\ plugin \in [Managers -> {"alive", "exited", "none"}]
  /\ age \in [Managers -> 0..ResetAfter]
  /\ attempts \in [Managers -> Nat]
  /\ wait \in [Managers -> Idle..BackoffMax]
  /\ sender \in [Managers -> {"alive", "dead"}]
  /\ queue \in [Managers -> 0..QueueSize]
  /\ indexerUp \in BOOLEAN
  /\ waited \in [Managers -> 0..BackoffMax]
  /\ starts \in [Managers -> Nat]
  /\ spent \in [Bounds -> Nat]

\* Between two processes that stay up, a plugin is started at most as often as
\* its limit allows restarts, and one that never stayed up once more.
StartsLimited ==
  \A m \in Managers : RestartLimit[m] # Unlimited => starts[m] <= RestartLimit[m] + 1

\* However passes are delayed, a plugin comes back only after its backoff.
BackoffRespected ==
  [][\A m \in Managers :
       plugin[m] # "alive" /\ plugin'[m] = "alive" =>
         (IF plugin[m] = "exited" THEN 0 ELSE waited[m]) >= Delay(attempts'[m] - 1)]_vars

\* A refused start loses the plugin: its schedule is cleared before the start.
StartRefused == spent["startFailure"] > 0

\* A plugin that is down is about to be noticed, waits for its restart, or has
\* used up its restarts: unless a start was refused, the agent never loses
\* track of one.
NeverForgotten ==
  \A m \in Managers : plugin[m] = "none" /\ wait[m] = Idle /\ pc # "exited" =>
    StartRefused \/ (RestartLimit[m] # Unlimited /\ attempts[m] >= RestartLimit[m])

\* The loop goes on: heartbeats and restarts never stop for good.
HeartbeatsGoOn == []<>(pc \in {"sleep", "exited"})

\* restart=True: a plugin that exits is started again, sooner or later, whatever
\* becomes of the other managers' plugins.
PluginRestarts ==
  \A m \in Managers :
    (RestartLimit[m] = Unlimited /\ plugin[m] = "exited")
      ~> (plugin[m] = "alive" \/ pc = "exited" \/ StartRefused)

\* An agent that was interrupted has stopped its plugins and senders.
ExitStopsPlugins ==
  pc = "exited" => \A m \in Managers : plugin[m] # "alive" /\ sender[m] = "dead"
=============================================================================
