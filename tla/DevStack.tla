------------------------------- MODULE DevStack ------------------------------
(***************************************************************************)
(* rundev: it prepares the local database, starts the indexer, the web     *)
(* server and the agent, watches them and stops the process tree           *)
(* (src/project/management/commands/rundev.py).  The children have         *)
(* children of their own, called wards here: Daphne under the indexer      *)
(* command (src/indexer/management/commands/indexer.py), the plugins under *)
(* the agent.                                                              *)
(***************************************************************************)
EXTENDS Integers, Sequences, FiniteSets, Functions

CONSTANTS
  Order,        \* the services in the order in which they are started
  HasWards,     \* the services that start processes of their own
  Checked,      \* the services whose port is asked before the next one starts
  MaxInterrupts,\* bound: how often Ctrl-C is pressed
  MaxSpawns     \* bound: how many wards there are in all

Services == Range(Order)

ASSUME DevStackAssumption ==
  /\ Order \in Seq(Services)
  /\ HasWards \subseteq Services /\ Checked \subseteq Services
  /\ MaxInterrupts \in Nat /\ MaxSpawns \in Nat

VARIABLES
  windows,    \* is there a job object, which ends what it holds with rundev
  phase,      \* "certificate", "superuser", "credentials", "agent user",
              \* "start", "spawned", "await", "supervise", "stop", "kill", "gone"
  files,      \* which of "crt" and "key" exist
  password,   \* the password of the superuser: in the table and in the file
  next,       \* which service is started next
  listed,     \* `processes`, in the order in which they were started
  child,      \* of each service: "none", "up", "down"
  job,        \* the services assigned to the job object
  wards,      \* the living wards of each service
  targets,    \* the wards _stop_process_tree has enumerated
  spawned,    \* history: wards so far
  late,       \* history: wards started after the enumeration
  early,      \* history: services that had ended before they were to be stopped
  missed,     \* history: services that never came into `processes`, or were
              \* still there when Ctrl-C ended the stopping
  interrupts  \* history: how often Ctrl-C was pressed

stackVars == <<windows, phase, files, password, next, listed, child, job, wards, targets, spawned,
               late, early, missed, interrupts>>
tree == <<child, wards, spawned, late>>
ghosts == <<early, missed, interrupts>>

DevStackInit ==
  /\ windows \in BOOLEAN
  /\ phase = "certificate"
  /\ files \in SUBSET {"crt", "key"}
  /\ password \in {[table |-> "none", file |-> "none"], [table |-> "old", file |-> "old"],
                   [table |-> "old", file |-> "older"]}
  /\ next = 1 /\ listed = <<>>
  /\ child = [s \in Services |-> "none"]
  /\ job = {} /\ targets = {}
  /\ wards = [s \in Services |-> {}]
  /\ spawned = 0 /\ late = {} /\ early = {} /\ missed = {} /\ interrupts = 0

-----------------------------------------------------------------------------
\* Preparation.  A failure ends rundev: nothing runs yet.

Unstarted == <<next, listed, job, targets>>

\* _ensure_certificate: half a pair is refused.
EnsureCertificate ==
  /\ phase = "certificate"
  /\ IF Cardinality(files) = 1
     THEN phase' = "gone" /\ UNCHANGED files
     ELSE phase' = "superuser" /\ files' = {"crt", "key"}
  /\ UNCHANGED <<windows, password, Unstarted, tree, ghosts>>

\* _configure_superuser: an existing user gets the new password as well.
ConfigureSuperuser ==
  /\ phase = "superuser"
  /\ password' = [password EXCEPT !.table = "new"]
  /\ phase' = "credentials"
  /\ UNCHANGED <<windows, files, Unstarted, tree, ghosts>>

\* _write_superuser_credentials: an error ends rundev, the password stays changed.
WriteCredentials ==
  /\ phase = "credentials"
  /\ \/ password' = [password EXCEPT !.file = "new"] /\ phase' = "agent user"
     \/ phase' = "gone" /\ UNCHANGED password
  /\ UNCHANGED <<windows, files, Unstarted, tree, ghosts>>

\* _configure_agent_user; the group may be missing.
ConfigureAgentUser ==
  /\ phase = "agent user"
  /\ phase' \in {"start", "gone"}
  /\ UNCHANGED <<windows, files, password, Unstarted, tree, ghosts>>

-----------------------------------------------------------------------------
\* Starting.

Current == Order[next]

\* Popen in _start, in a session of its own.
Spawn ==
  /\ phase = "start" /\ next <= Len(Order)
  /\ child' = [child EXCEPT ![Current] = "up"]
  /\ phase' = "spawned"
  /\ UNCHANGED <<windows, files, password, Unstarted, wards, spawned, late, ghosts>>

\* The rest of _start and the append to `processes`.  A process the job does
\* not take is killed.
Enlist ==
  /\ phase = "spawned"
  /\ \/ /\ job' = IF windows THEN job \cup {Current} ELSE job
        /\ listed' = Append(listed, Current)
        /\ phase' = IF Current \in Checked THEN "await" ELSE "start"
        /\ next' = IF Current \in Checked THEN next ELSE next + 1
        /\ UNCHANGED <<child, missed>>
     \/ /\ windows
        /\ child' = [child EXCEPT ![Current] = "down"]
        /\ phase' = "stop"
        /\ missed' = missed \cup {Current}
        /\ UNCHANGED <<job, listed, next>>
  /\ UNCHANGED <<windows, files, password, targets, wards, spawned, late, early, interrupts>>

\* _wait_for_https: the port answers, or the child has ended, or time is up.
Await ==
  /\ phase = "await"
  /\ \/ child[Current] = "up" /\ phase' = "start" /\ next' = next + 1
     \/ phase' = "stop" /\ UNCHANGED next
  /\ UNCHANGED <<windows, files, password, listed, job, targets, tree, ghosts>>

Supervised ==
  /\ phase = "start" /\ next > Len(Order)
  /\ phase' = "supervise"
  /\ UNCHANGED <<windows, files, password, Unstarted, tree, ghosts>>

\* Slip: only the service started last is polled.
Supervise_Last ==
  /\ phase = "supervise"
  /\ child[listed[Len(listed)]] = "down"
  /\ phase' = "stop"
  /\ UNCHANGED <<windows, files, password, Unstarted, tree, ghosts>>

\* _supervise: one service that has ended ends them all.
Supervise ==
  /\ phase = "supervise"
  /\ \E i \in 1..Len(listed) : child[listed[i]] = "down"
  /\ phase' = "stop"
  /\ UNCHANGED <<windows, files, password, Unstarted, tree, ghosts>>

\* Ctrl-C reaches rundev alone.  While it stops the tree, it interrupts that:
\* the other processes are left as they are.
Interrupt ==
  /\ interrupts < MaxInterrupts
  /\ phase \in {"start", "spawned", "await", "supervise", "stop", "kill"}
  /\ interrupts' = interrupts + 1
  /\ missed' = missed \cup (IF phase = "spawned" THEN {Current}
                           ELSE IF phase \in {"stop", "kill"} THEN Range(listed) ELSE {})
  /\ IF phase \in {"stop", "kill"}
     THEN phase' = "gone" /\ wards' = [s \in Services |-> IF s \in job THEN {} ELSE wards[s]]
          /\ child' = [s \in Services |-> IF s \in job THEN "down" ELSE child[s]]
     ELSE phase' = "stop" /\ UNCHANGED <<wards, child>>
  /\ UNCHANGED <<windows, files, password, Unstarted, spawned, late, early>>

-----------------------------------------------------------------------------
\* Stopping, from the end of `processes`.

Last == listed[Len(listed)]
Popped == SubSeq(listed, 1, Len(listed) - 1)

\* _stop_process_tree, first half: a child that has ended is passed over, with
\* the wards it left; of another the wards are enumerated, which psutil may not
\* refuse here.
Enumerate ==
  /\ phase = "stop" /\ listed # <<>>
  /\ IF child[Last] = "down"
     THEN /\ listed' = Popped /\ early' = early \cup {Last}
          /\ UNCHANGED <<phase, targets>>
     ELSE targets' = wards[Last] /\ phase' = "kill" /\ UNCHANGED <<listed, early>>
  /\ UNCHANGED <<windows, files, password, next, job, tree, missed, interrupts>>

\* Slip: the child is ended and its wards are left.
Terminate_ChildOnly ==
  /\ phase = "kill"
  /\ child' = [child EXCEPT ![Last] = "down"]
  /\ listed' = Popped /\ targets' = {} /\ phase' = "stop"
  /\ UNCHANGED <<windows, files, password, next, job, wards, spawned, late, ghosts>>

\* Second half: terminate, wait, kill what is left.
Terminate ==
  /\ phase = "kill"
  /\ wards' = [wards EXCEPT ![Last] = @ \ targets]
  /\ child' = [child EXCEPT ![Last] = "down"]
  /\ listed' = Popped /\ targets' = {} /\ phase' = "stop"
  /\ UNCHANGED <<windows, files, password, next, job, spawned, late, ghosts>>

\* The end of rundev closes the job: Windows ends what it holds.
Leave ==
  /\ phase = "stop" /\ listed = <<>>
  /\ phase' = "gone"
  /\ child' = [s \in Services |-> IF s \in job THEN "down" ELSE child[s]]
  /\ wards' = [s \in Services |-> IF s \in job THEN {} ELSE wards[s]]
  /\ UNCHANGED <<windows, files, password, Unstarted, spawned, late, ghosts>>

-----------------------------------------------------------------------------
\* The processes themselves.

SpawnWard(s) ==
  /\ s \in HasWards /\ child[s] = "up" /\ spawned < MaxSpawns
  /\ spawned' = spawned + 1
  /\ wards' = [wards EXCEPT ![s] = @ \cup {spawned'}]
  /\ late' = IF phase = "kill" /\ Last = s THEN late \cup {spawned'} ELSE late
  /\ UNCHANGED <<windows, phase, files, password, Unstarted, child, ghosts>>

WardDies(s) ==
  /\ \E w \in wards[s] : wards' = [wards EXCEPT ![s] = @ \ {w}]
  /\ UNCHANGED <<windows, phase, files, password, Unstarted, child, spawned, late, ghosts>>

\* The indexer command ends with its Daphne; any of them may be killed.
ServiceDies(s) ==
  /\ child[s] = "up"
  /\ child' = [child EXCEPT ![s] = "down"]
  /\ UNCHANGED <<windows, phase, files, password, Unstarted, wards, spawned, late, ghosts>>

Prepare == EnsureCertificate \/ ConfigureSuperuser \/ WriteCredentials \/ ConfigureAgentUser
Launch == Spawn \/ Enlist \/ Await \/ Supervised
Stop == Supervise \/ Enumerate \/ Terminate \/ Leave

DevStackNext ==
  \/ Prepare \/ Launch \/ Stop \/ Interrupt
  \/ \E s \in Services : SpawnWard(s) \/ WardDies(s) \/ ServiceDies(s)

DevStackSpec == DevStackInit /\ [][DevStackNext]_stackVars

-----------------------------------------------------------------------------

\* However rundev ends, no service that came into `processes` is left, unless
\* Ctrl-C interrupted the stopping itself; and on Windows no ward of theirs at
\* all.  Wards that are left elsewhere had lost their parent before they were
\* enumerated, or were started afterwards.
NothingLeft ==
  phase = "gone" =>
    \A s \in Services :
      /\ child[s] = "up" => s \in missed \ job
      /\ wards[s] # {} => s \notin job /\ (s \in early \cup missed \/ wards[s] \subseteq late)

\* Once a supervised service has ended, rundev ends and takes the rest along.
OneDownAllDown ==
  \A s \in Services :
    (phase = "supervise" /\ child[s] = "down")
      ~> (phase = "gone" /\ (missed = {} => \A t \in Services : child[t] # "up"))
=============================================================================
