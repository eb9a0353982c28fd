------------------------------- MODULE Findings ------------------------------
(***************************************************************************)
(* Crawlers at work on the event table: scans that turn events into        *)
(* findings under a cooldown, retention that deletes old events, and       *)
(* analysts who triage findings                                            *)
(* (src/crawlers/plugins/*.py, models.py, views.py).                       *)
(*                                                                         *)
(* A scan reads its events once and then checks and creates one finding    *)
(* after the other; every query is a step of its own, because nothing puts *)
(* two of them into one transaction.                                       *)
(***************************************************************************)
EXTENDS Integers, FiniteSets

CONSTANTS
  Events,       \* slots of the event table, numbered in the order of insertion
  Logins,       \* the events whose data contains 'failed login'
  IndexOf,      \* the index of each event
  Rules,        \* the retention rules: split by index or not, allow and deny list
  Retention,    \* retention_days, in ticks
  Scanners,     \* processes that run the failed-login crawler
  Interval,     \* of the scanners, in ticks
  Slack,        \* how late a scan may begin, by its own length, a late wake-up
                \* or the restart of the process
  Cooldown,     \* realert_cooldown
  MaxDeaths,    \* bound: how often a scanner dies
  MaxEdits,     \* bound: what analysts do
  EndOfTime     \* bound: the clock stops here

Statuses == {"new", "in_progress", "resolved"}  \* acknowledged is as in_progress,
Actionable == {"new", "in_progress"}            \* false_positive as resolved

ASSUME FindingsAssumption ==
  /\ Events \subseteq Nat \ {0} /\ Logins \subseteq Events
  /\ Interval \in Nat \ {0} /\ Slack \in Nat /\ Cooldown \in Nat /\ Retention \in Nat
  /\ 2 * Slack <= Interval   \* what a window of 1.5 intervals leaves room for

Nowhere == -1

VARIABLES
  clock,
  created,    \* Event.created, Nowhere before it arrives
  gone,       \* events that retention deleted
  findings,   \* the rows of Finding
  todo,       \* the events a scan has still to look at
  checked,    \* the event that passed the cooldown check, or 0
  lastScan,   \* when the latest scan of each scanner began
  resting,    \* the scanners that sleep out their interval
  marked,     \* the events retention is about to delete
  dirty,      \* history: those with a finding changed since they were marked
  editing,    \* the finding an analyst has open, in a set
  found,      \* history: events a finding was created for
  erased,     \* history: events a finding was deleted of, or written back
  dropped,    \* history: events on the list of a scan that failed
  dead, edits

findingVars == <<clock, created, gone, findings, todo, checked, lastScan, resting, marked,
                 dirty, editing, found, erased, dropped, dead, edits>>
scanVars == <<todo, checked, lastScan, resting, dead>>

FindingsInit ==
  /\ clock = 0
  /\ created = [e \in Events |-> Nowhere]
  /\ gone = {} /\ findings = {}
  /\ todo = [p \in Scanners |-> {}]
  /\ checked = [p \in Scanners |-> 0]
  /\ lastScan = [p \in Scanners |-> 0]
  /\ resting = {}
  /\ marked = {} /\ dirty = {} /\ editing = {}
  /\ found = {} /\ erased = {} /\ dropped = {} /\ dead = 0 /\ edits = 0

Present(e) == created[e] # Nowhere /\ e \notin gone
Touch(e) == dirty' = dirty \cup ({e} \cap marked)

\* An event is dated when its row is there for others to read: the time between
\* auto_now_add and the commit is not followed.
Arrive(e) ==
  /\ created[e] = Nowhere
  /\ \A d \in Events : d < e => created[d] # Nowhere
  /\ created' = [created EXCEPT ![e] = clock]
  /\ UNCHANGED <<clock, gone, findings, scanVars, marked, dirty, editing, found, erased, dropped, edits>>

\* Time passes as long as every scan begins in time.
Tick ==
  /\ clock < EndOfTime
  /\ \A p \in Scanners : clock < lastScan[p] + Interval + Slack
  /\ clock' = clock + 1
  /\ UNCHANGED <<created, gone, findings, scanVars, marked, dirty, editing, found, erased, dropped, edits>>

-----------------------------------------------------------------------------
\* The failed-login crawler.

\* Slip: the window is as long as the interval.
Window_Interval(e) == created[e] >= clock - Interval

\* created__gte = now - 1.5 * interval, in half ticks.
Window(e) == 2 * created[e] >= 2 * clock - 3 * Interval

\* _scan: a daemon scans, works through what it found and sleeps.
Scan(p) ==
  /\ todo[p] = {} /\ checked[p] = 0
  /\ p \in resting => clock >= lastScan[p] + Interval
  /\ todo' = [todo EXCEPT ![p] = {e \in Logins : Present(e) /\ Window(e)}]
  /\ lastScan' = [lastScan EXCEPT ![p] = clock]
  /\ resting' = resting \cup {p}
  /\ UNCHANGED <<clock, created, gone, findings, checked, marked, dirty, editing, found,
                 erased, dropped, dead, edits>>

\* Slip: the comparison with the cooldown the wrong way round.
CanCreate_Swapped(e) == ~ \E f \in findings : f.event = e /\ f.at < clock - Cooldown

\* Finding.can_create_finding; there is one rule.
CanCreate(e) == ~ \E f \in findings : f.event = e /\ f.at >= clock - Cooldown

Check(p) ==
  /\ checked[p] = 0 /\ todo[p] # {}
  /\ LET e == CHOOSE x \in todo[p] : \A y \in todo[p] : x <= y
     IN /\ todo' = [todo EXCEPT ![p] = @ \ {e}]
        /\ checked' = [checked EXCEPT ![p] = IF CanCreate(e) THEN e ELSE 0]
  /\ UNCHANGED <<clock, created, gone, findings, lastScan, resting, marked, dirty, editing,
                 found, erased, dropped, dead, edits>>

\* Finding.objects.create.  When the event is gone the insert fails, the scan
\* ends with it and the process is started again.
Create(p) ==
  /\ checked[p] # 0
  /\ LET e == checked[p] IN
       IF Present(e)
       THEN /\ findings' = findings \cup {[event |-> e, by |-> p, at |-> clock, status |-> "new"]}
            /\ found' = found \cup {e}
            /\ Touch(e)
            /\ UNCHANGED <<todo, resting, dropped>>
       ELSE /\ todo' = [todo EXCEPT ![p] = {}]
            /\ dropped' = dropped \cup todo[p]
            /\ resting' = resting \ {p}
            /\ UNCHANGED <<findings, found, dirty>>
  /\ checked' = [checked EXCEPT ![p] = 0]
  /\ UNCHANGED <<clock, created, gone, lastScan, marked, editing, erased, dead, edits>>

\* The process dies and is started again: it scans at once.
ScannerDies(p) ==
  /\ dead < MaxDeaths
  /\ dead' = dead + 1
  /\ todo' = [todo EXCEPT ![p] = {}]
  /\ checked' = [checked EXCEPT ![p] = 0]
  /\ dropped' = dropped \cup todo[p] \cup ({checked[p]} \ {0})
  /\ resting' = resting \ {p}
  /\ UNCHANGED <<clock, created, gone, findings, lastScan, marked, dirty, editing, found,
                 erased, edits>>

-----------------------------------------------------------------------------
\* Retention.

\* The parts a rule deletes one after the other: the events of one index, or all.
Parts(r) ==
  IF r.split
  THEN {{e \in Events : IndexOf[e] = v} :
          v \in {u \in {IndexOf[e] : e \in {d \in Events : Present(d)}} :
                   (r.allow # {} => u \in r.allow) /\ u \notin r.deny}}
  ELSE {Events}

\* Slip: only new findings keep their event.
Deletable_NewOnly(e) ==
  created[e] < clock - Retention /\ ~ \E f \in findings : f.event = e /\ f.status = "new"

\* get_deletable_queryset
Deletable(e) ==
  created[e] < clock - Retention
  /\ ~ \E f \in findings : f.event = e /\ f.status \in Actionable

\* delete() first reads the events it is going to delete ...
Mark(r) ==
  /\ marked = {}
  /\ \E S \in Parts(r) : marked' = {e \in S : Present(e) /\ Deletable(e)}
  /\ marked' # {}
  /\ dirty' = {}
  /\ UNCHANGED <<clock, created, gone, findings, scanVars, editing, found, erased, dropped, edits>>

\* ... and then deletes them by key, whatever findings they have by then.
Sweep ==
  /\ marked # {}
  /\ gone' = gone \cup marked
  /\ findings' = {f \in findings : f.event \notin marked}
  /\ marked' = {}
  /\ UNCHANGED <<clock, created, scanVars, dirty, editing, found, erased, dropped, edits>>

-----------------------------------------------------------------------------
\* Analysts.

Edit == edits < MaxEdits /\ edits' = edits + 1

\* finding_update reads the row ...
OpenFinding(f) ==
  /\ Edit /\ editing = {}
  /\ editing' = {f}
  /\ UNCHANGED <<clock, created, gone, findings, scanVars, marked, dirty, found, erased, dropped>>

\* ... and saves the whole of it with the status of the form.  A row deleted
\* in the meantime is inserted again, unless its event is gone too.
SaveFinding(s) ==
  /\ editing # {}
  /\ editing' = {}
  /\ \E f \in editing :
       LET row(g) == g.event = f.event /\ g.by = f.by /\ g.at = f.at
           saved == [f EXCEPT !.status = s]
       IN IF \E g \in findings : row(g)
          THEN /\ findings' = {g \in findings : ~row(g)} \cup {saved}
               /\ Touch(f.event) /\ UNCHANGED erased
          ELSE IF Present(f.event)
          THEN /\ findings' = findings \cup {[saved EXCEPT !.at = clock]}
               /\ Touch(f.event) /\ erased' = erased \cup {f.event}
          ELSE UNCHANGED <<findings, dirty, erased>>
  /\ UNCHANGED <<clock, created, gone, scanVars, marked, found, dropped, edits>>

\* finding_bulk_update
BulkUpdate(S, s) ==
  /\ Edit
  /\ findings' = (findings \ S) \cup {[f EXCEPT !.status = s] : f \in S}
  /\ dirty' = dirty \cup ({f.event : f \in S} \cap marked)
  /\ UNCHANGED <<clock, created, gone, scanVars, marked, editing, found, erased, dropped>>

\* finding_delete
DeleteFinding(f) ==
  /\ Edit
  /\ findings' = findings \ {f}
  /\ Touch(f.event) /\ erased' = erased \cup {f.event}
  /\ UNCHANGED <<clock, created, gone, scanVars, marked, editing, found, dropped>>

FindingsNext ==
  \/ Tick
  \/ \E e \in Events : Arrive(e)
  \/ \E p \in Scanners : Scan(p) \/ Check(p) \/ Create(p) \/ ScannerDies(p)
  \/ (\E r \in Rules : Mark(r)) \/ Sweep
  \/ \E f \in findings : OpenFinding(f) \/ DeleteFinding(f)
  \/ \E s \in Statuses : SaveFinding(s) \/ \E S \in (SUBSET findings) \ {{}} : BulkUpdate(S, s)

FindingsSpec == FindingsInit /\ [][FindingsNext]_findingVars

-----------------------------------------------------------------------------

\* Whatever failed login was in the table when the latest scan of a process
\* began has been found once that scan is over, although scans drift and their
\* processes die; unless it was on the list of a scan that died, for a scan
\* keeps no record of how far it came.
EveryLoginFound ==
  \A e \in Logins, p \in Scanners :
    (Present(e) /\ created[e] < lastScan[p] /\ todo[p] = {} /\ checked[p] = 0)
      => e \in found \cup dropped

\* No process creates two findings for one event within the cooldown; what the
\* unprotected check lets through is at most one for each process.  (A finding
\* that staff deletes no longer counts, and one written back counts anew.)
CooldownPerProcess ==
  \A f, g \in findings : (f # g /\ f.event = g.event /\ f.by = g.by /\ f.at <= g.at /\ f.event \notin erased)
                           => g.at - f.at > Cooldown

\* Retention takes no event with a finding somebody still has to act on, except
\* one that changed after the events to delete were read.
OpenFindingsKept ==
  [][\A f \in findings : (f.event \in gone' \ gone /\ f.status \in Actionable)
                           => f.event \in dirty]_findingVars
=============================================================================
