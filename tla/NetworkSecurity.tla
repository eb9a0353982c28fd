--------------------------- MODULE NetworkSecurity ---------------------------
(***************************************************************************)
(* The plugin that reports listeners and connections: it compares each     *)
(* snapshot of the socket table with the one before and queues what        *)
(* differs (src/agent/plugins/network_security_plugin.py).  Whoever        *)
(* replays its events has a view of the sockets.  The table and what the   *)
(* agent may learn about a process change between two polls.               *)
(***************************************************************************)
EXTENDS Integers, FiniteSets

CONSTANTS
  Sockets,       \* rows the socket table may have: protocol, local and remote
                 \* end ("none" without), status, pid ("none" if not told)
  MaxSocketChanges, MaxSocketPolls, MaxFailures, MaxSocketRestarts   \* bounds

ASSUME NetworkAssumption == {MaxSocketChanges, MaxSocketPolls, MaxFailures, MaxSocketRestarts} \subseteq Nat

Pids == {s.pid : s \in Sockets} \ {"none"}

VARIABLES
  open,       \* the socket table
  access,     \* what the agent learns about each process: "all", "denied", "none"
  snapshot,   \* _last_listeners and _last_connections; identity to record
  reported,   \* _last_health, in a set
  netView,    \* what replaying the events gives
  netHealth,  \* the status told last, in a set
  polled,     \* history: the health the last poll had to tell
  listed,     \* history: the sockets the last poll that succeeded should report
  forgotten,  \* history: what was in the view when the plugin was restarted
  netCounts   \* history: changes, polls, failures and restarts so far

networkVars == <<open, access, snapshot, reported, netView, netHealth, polled, listed, forgotten,
                 netCounts>>

NoSockets == [k \in {} |-> {}]

NetworkInit ==
  /\ open = {}
  /\ access = [p \in Pids |-> "all"]
  /\ snapshot = NoSockets /\ netView = NoSockets
  /\ reported = {} /\ netHealth = {} /\ polled = {} /\ listed = {} /\ forgotten = {}
  /\ netCounts = [changes |-> 0, polls |-> 0, failures |-> 0, restarts |-> 0]

Counts(what, bound) ==
  netCounts[what] < bound /\ netCounts' = [netCounts EXCEPT ![what] = @ + 1]

\* A connection is in the table once, in one status.
SocketTables == {S \in SUBSET Sockets :
                   \A s, t \in S : (s # t /\ s.remote # "none") => <<s.local, s.remote>> # <<t.local, t.remote>>}

SocketsChange ==
  /\ Counts("changes", MaxSocketChanges)
  /\ \/ open' \in SocketTables /\ UNCHANGED access
     \/ access' \in [Pids -> {"all", "denied", "none"}] /\ UNCHANGED open
  /\ UNCHANGED <<snapshot, reported, netView, netHealth, polled, listed, forgotten>>

-----------------------------------------------------------------------------

IsListener(s) == s.status = "LISTEN" \/ (s.protocol = "udp" /\ s.remote = "none")

\* _process_details: without a pid there is nothing to learn.
Details(s) == IF s.pid = "none" THEN "none" ELSE access[s.pid]
Record(s) == [socket |-> s, details |-> IF Details(s) = "all" THEN "known" ELSE "none"]

\* Slip: the process is no part of the identity.
Identity_NoPid(s) ==
  [listener |-> IsListener(s), protocol |-> s.protocol, local |-> s.local,
   remote |-> IF IsListener(s) THEN "none" ELSE s.remote]

Identity(s) ==
  [listener |-> IsListener(s), protocol |-> s.protocol, local |-> s.local, pid |-> s.pid,
   remote |-> IF IsListener(s) THEN "none" ELSE s.remote]

\* A row that neither listens nor has a remote end is passed over.
Listed == {s \in open : IsListener(s) \/ s.remote # "none"}

\* _snapshot: rows of the same identity replace one another; they have the same
\* record.
Snapshot ==
  [k \in {Identity(s) : s \in Listed} |-> Record(CHOOSE s \in Listed : Identity(s) = k)]

Failed == [state |-> "error", denied |-> FALSE, unavailable |-> FALSE]
Health ==
  LET denied == \E s \in open : Details(s) = "denied"
      unavailable == \E s \in open : s.pid # "none" /\ Details(s) = "none"
  IN [state |-> IF denied \/ unavailable THEN "partial" ELSE "ok",
      denied |-> denied, unavailable |-> unavailable]

\* The events of _emit_changes, replayed: what was added, what was removed, what
\* has another record.  What is not told of stays.
Replayed(view, is, was) ==
  LET told == {k \in DOMAIN is : k \in DOMAIN was => is[k] # was[k]}
      closed == DOMAIN was \ DOMAIN is
  IN [k \in (DOMAIN view \ closed) \cup told |-> IF k \in told THEN is[k] ELSE view[k]]

\* _emit_status: another health is told, and the same one again when it is due.
EmitStatus(health) ==
  /\ reported' = {health}
  /\ netHealth' = IF reported = {health} THEN netHealth ELSE {health}
  /\ polled' = {health}

\* collect_once
CollectSockets ==
  /\ Counts("polls", MaxSocketPolls)
  /\ snapshot' = Snapshot /\ netView' = Replayed(netView, Snapshot, snapshot)
  /\ EmitStatus(Health)
  /\ listed' = Listed
  /\ UNCHANGED <<open, access, forgotten>>

\* net_connections raises: the error is told, the last snapshot is kept.
SocketsFail ==
  /\ Counts("failures", MaxFailures)
  /\ EmitStatus(Failed)
  /\ UNCHANGED <<open, access, snapshot, netView, listed, forgotten>>

\* The process is stopped and started again: it remembers nothing.
RestartNetwork ==
  /\ Counts("restarts", MaxSocketRestarts)
  /\ snapshot' = NoSockets /\ reported' = {} /\ polled' = {} /\ listed' = {}
  /\ forgotten' = forgotten \cup DOMAIN netView
  /\ UNCHANGED <<open, access, netView, netHealth>>

NetworkNext == SocketsChange \/ CollectSockets \/ SocketsFail \/ RestartNetwork

NetworkSpec == NetworkInit /\ [][NetworkNext]_networkVars

-----------------------------------------------------------------------------

\* Replaying the events gives what the plugin last saw, through failed polls and
\* restarts, and the latest health; every process that listens or is connected
\* at an address is in it, also when several share the address.  Only what was
\* known before a restart may be shown although it is gone.
SocketsShown ==
  /\ DOMAIN snapshot \subseteq DOMAIN netView /\ DOMAIN netView \subseteq DOMAIN snapshot \cup forgotten
  /\ \A k \in DOMAIN snapshot : netView[k] = snapshot[k]
  /\ polled # {} => netHealth = polled
  /\ \A s \in listed : \E k \in DOMAIN netView :
       k.listener = IsListener(s) /\ netView[k].socket.local = s.local /\ netView[k].socket.pid = s.pid
=============================================================================
