----------------------------- MODULE HostPosture -----------------------------
(***************************************************************************)
(* The plugin that reports what protects a host and who is on it: it       *)
(* collects a snapshot component by component, queues the components that  *)
(* differ from the snapshot before, and tells its own health               *)
(* (src/agent/plugins/host_security_posture_plugin.py).  Two components    *)
(* stand for the six: the security controls, whose probes run tools, and   *)
(* the sessions, a sorted list as the interfaces, file systems and         *)
(* accounts are.                                                           *)
(***************************************************************************)
EXTENDS Integers, Sequences, FiniteSets, SequencesExt

CONSTANTS
  Systems,       \* among "Windows", "Linux", "Darwin" and others
  Sessions,      \* sessions there may be, each with the key it is sorted by
  MaxHostChanges, MaxHostPolls, MaxHostRestarts   \* bounds

ASSUME PostureAssumption ==
  IsFiniteSet(Sessions) /\ {MaxHostChanges, MaxHostPolls, MaxHostRestarts} \subseteq Nat

\* The programs and files the probes look for.
Probes(system) ==
  CASE system = "Linux" -> {"ufw", "firewall-cmd", "nft", "efivars", "lsblk"}
    [] system = "Darwin" -> {"socketfilterfw", "fdesetup", "spctl"}
    [] system = "Windows" -> {"powershell", "firewall", "defender", "secure boot", "bitlocker"}
    [] OTHER -> {}
Components == {"user_sessions", "security_controls"}

VARIABLES
  system,      \* platform.system()
  finds,       \* what each probe finds: "absent", "fails", "yes" or "no"
  sessions,    \* who is on the host
  last,        \* _last_snapshot: of each component the value, in a set
  lastHealth,  \* _last_health, in a set
  told,        \* what the events told of each component and of the health
  trouble,     \* history: the components that failed in the last poll, in a set
  behind,      \* history: the sessions behind last["user_sessions"], in a set
  noisy,       \* history: the last poll told a change of the same sessions
  postureCounts

postureVars == <<system, finds, sessions, last, lastHealth, told, trouble, behind, noisy,
                 postureCounts>>

Unsaid == {}

PostureInit ==
  /\ system \in Systems
  /\ finds = [p \in Probes(system) |-> "absent"] /\ sessions = {}
  /\ last = [c \in Components |-> Unsaid] /\ lastHealth = Unsaid
  /\ told = [c \in Components \cup {"health"} |-> Unsaid]
  /\ trouble = Unsaid /\ behind = Unsaid /\ noisy = FALSE
  /\ postureCounts = [changes |-> 0, polls |-> 0, restarts |-> 0]

Within(what, bound) ==
  postureCounts[what] < bound /\ postureCounts' = [postureCounts EXCEPT ![what] = @ + 1]

\* A session begins or ends; a tool is installed, switched, or begins to fail.
HostChanges ==
  /\ Within("changes", MaxHostChanges)
  /\ \/ sessions' \in SUBSET Sessions /\ UNCHANGED finds
     \/ /\ \E p \in Probes(system), d \in {"absent", "fails", "yes", "no"} : finds' = [finds EXCEPT ![p] = d]
        /\ UNCHANGED sessions
  /\ UNCHANGED <<system, last, lastHealth, told, trouble, behind, noisy>>

-----------------------------------------------------------------------------
\* The controls.  A probe that fails is "unknown", one whose tool is missing
\* "unsupported": neither raises.

State(p, absent, yes, no) ==
  CASE finds[p] = "absent" -> absent [] finds[p] = "fails" -> "unknown"
    [] finds[p] = "yes" -> yes [] finds[p] = "no" -> no

\* _linux_firewall: the first tool that is there decides, even if it fails.
LinuxFirewall ==
  LET there == SelectSeq(<<"ufw", "firewall-cmd", "nft">>, LAMBDA p : finds[p] # "absent")
  IN IF there = <<>> THEN <<"none", "unsupported">>
     ELSE <<there[1], CASE there[1] = "ufw" -> State("ufw", "", "enabled", "disabled")
                        [] there[1] = "firewall-cmd" -> State("firewall-cmd", "", "enabled", "not running")
                        [] there[1] = "nft" -> State("nft", "", "configured", "empty")>>

LinuxControls ==
  [firewall |-> LinuxFirewall,
   secure_boot |-> State("efivars", "unsupported", "on", "off"),
   disk_encryption |-> State("lsblk", "unsupported", "detected", "not_detected")]

MacosCheck(p) == State(p, "unsupported", "on", "off")
MacosControls ==
  [firewall |-> MacosCheck("socketfilterfw"), disk_encryption |-> MacosCheck("fdesetup"),
   gatekeeper |-> MacosCheck("spctl"), secure_boot |-> "not_assessed"]

\* One script asks for all; a part of it that throws is "unknown".  Two parts
\* ask first whether there is a command for them.
WindowsControls ==
  [firewall |-> State("firewall", "unknown", "on", "off"),
   endpoint_protection |-> State("defender", "unsupported", "on", "off"),
   secure_boot |-> State("secure boot", "unknown", "on", "off"),
   disk_encryption |-> State("bitlocker", "unsupported", "on", "off")]

SecurityControls ==
  CASE system = "Linux" -> LinuxControls [] system = "Darwin" -> MacosControls
    [] system = "Windows" -> WindowsControls [] OTHER -> "unsupported"

\* Without PowerShell, or when the script fails, the component raises.
ControlsRaise == system = "Windows" /\ finds["powershell"] \in {"absent", "fails"}

\* Slip: the sessions as they are listed.
Sorted_AsListed(listed) == listed

\* By name, terminal and start; what agrees in them stays as it is listed.
Orders(listed) ==
  LET listedBefore(d, e) == \E k, l \in DOMAIN listed : k < l /\ listed[k] = d /\ listed[l] = e
  IN {s \in [DOMAIN listed -> ToSet(listed)] :
        /\ ToSet(s) = ToSet(listed)
        /\ \A i, j \in DOMAIN listed : i < j =>
             s[i].key < s[j].key \/ (s[i].key = s[j].key /\ listedBefore(s[i], s[j]))}
Sorted(listed) == CHOOSE s \in Orders(listed) : TRUE

\* psutil.users() lists them in any order.
Listings == {q \in [1..Cardinality(sessions) -> sessions] : ToSet(q) = sessions}

-----------------------------------------------------------------------------

\* _emit_status: the same health is told again only when it is due.
SameHealth(failing) == lastHealth = {failing}

\* collect_once: what raises is left out of the snapshot and is an issue.
CollectPosture ==
  /\ Within("polls", MaxHostPolls)
  /\ \E q \in Listings, unlisted \in SUBSET {"user_sessions"} :
       LET failing == unlisted \cup (IF ControlsRaise THEN {"security_controls"} ELSE {})
           value(c) == IF c = "user_sessions" THEN Sorted(q) ELSE SecurityControls
           tells(c) == c \notin failing /\ last[c] # {value(c)}
       IN /\ last' = [c \in Components |-> IF c \in failing THEN last[c] ELSE {value(c)}]
          /\ told' = [c \in Components \cup {"health"} |->
                        IF c = "health" THEN IF SameHealth(failing) THEN told[c] ELSE {failing}
                        ELSE IF tells(c) THEN {value(c)} ELSE told[c]]
          /\ lastHealth' = {failing}
          /\ trouble' = {failing}
          /\ noisy' = (tells("user_sessions") /\ last["user_sessions"] # Unsaid /\ behind = {sessions})
          /\ behind' = IF "user_sessions" \in failing THEN behind ELSE {sessions}
  /\ UNCHANGED <<system, finds, sessions>>

RestartPosture ==
  /\ Within("restarts", MaxHostRestarts)
  /\ last' = [c \in Components |-> Unsaid] /\ lastHealth' = Unsaid
  /\ trouble' = Unsaid /\ noisy' = FALSE
  /\ UNCHANGED <<system, finds, sessions, told, behind>>

PostureNext == HostChanges \/ CollectPosture \/ RestartPosture

PostureSpec == PostureInit /\ [][PostureNext]_postureVars

-----------------------------------------------------------------------------

\* Whoever follows the events knows of every component what the plugin last
\* collected, and which components failed in its last poll, through failures
\* and restarts.  The same sessions are not told as a change because they were
\* listed in another order, unless two of them agree in everything they are
\* sorted by.
PostureShown ==
  /\ \A c \in Components : last[c] # Unsaid => told[c] = last[c]
  /\ trouble # Unsaid => told["health"] = trouble
  /\ noisy => \E d, e \in UNION behind : d # e /\ d.key = e.key
=============================================================================
