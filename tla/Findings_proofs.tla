---------------------------- MODULE Findings_proofs ---------------------------
(***************************************************************************)
(* Proofs about the crawlers at work on the event table (Findings).        *)
(***************************************************************************)
EXTENDS Findings, WellFoundedInduction, TLAPS

Row == [event : Events, by : Scanners, at : Nat, status : Statuses]

Types ==
  /\ clock \in Nat
  /\ created \in [Events -> Nat \cup {Nowhere}]
  /\ findings \subseteq Row /\ editing \subseteq Row
  /\ todo \in [Scanners -> SUBSET Events]
  /\ checked \in [Scanners -> Events \cup {0}]
  /\ lastScan \in [Scanners -> Nat]

\* No scan is late, and no finding is of a later time.
InTime ==
  /\ \A p \in Scanners : lastScan[p] <= clock /\ clock <= lastScan[p] + Interval + Slack
  /\ \A f \in findings : f.at <= clock

\* What has a finding, or had one when somebody opened it, has been found.
Recorded == \A f \in findings \cup editing : f.event \in found

\* What the latest scan of p had in view is found, was given up, or is still on
\* the list.
Covered ==
  \A e \in Logins, p \in Scanners :
    Present(e) /\ created[e] < lastScan[p] => e \in found \cup dropped \cup todo[p] \cup {checked[p]}

\* An event that has passed the cooldown check has no recent finding by the
\* process that checked it.
Rested ==
  \A p \in Scanners, f \in findings :
    (checked[p] # 0 /\ f.event = checked[p] /\ f.by = p /\ f.event \notin erased)
      => clock - f.at > Cooldown

\* An event that retention is about to delete has no open finding, but for
\* those it got since.
Closed == \A f \in findings : f.event \in marked \ dirty => f.status \notin Actionable

-----------------------------------------------------------------------------
(* Types *)

\* A nonempty set of events has a first one.
LEMMA FirstEvent ==
  ASSUME NEW T \in SUBSET Events, T # {}
  PROVE  (CHOOSE x \in T : \A y \in T : x <= y) \in T
<1>1. T \subseteq Nat
  BY FindingsAssumption
<1> DEFINE Less == {ss \in Nat \X Nat : ss[1] < ss[2]}
<1>w. IsWellFoundedOn(Less, Nat)
  BY NatLessThanWellFounded DEF OpToRel
<1> HIDE DEF Less
<1>2. PICK x \in T : \A y \in T : ~ (<<y, x>> \in Less)
  BY <1>1, <1>w, WFMin, Zenon
<1>3. ASSUME NEW y \in T PROVE x <= y
  <2>1. x \in Nat /\ y \in Nat
    BY <1>1
  <2>2. ~ (<<y, x>> \in Nat \X Nat /\ y < x)
    BY <1>2 DEF Less
  <2> QED
    BY <2>1, <2>2
<1> QED
  BY <1>3

LEMMA InitTypes == FindingsInit => Types
BY DEF FindingsInit, Types

LEMMA StepTypes == Types /\ [FindingsNext]_findingVars => Types'
<1> SUFFICES ASSUME Types, [FindingsNext]_findingVars PROVE Types'
  OBVIOUS
<1> USE DEF Types, scanVars
<1>1. CASE Tick
  BY <1>1 DEF Tick
<1>2. ASSUME NEW e \in Events, Arrive(e) PROVE Types'
  BY <1>2 DEF Arrive
<1>3. ASSUME NEW p \in Scanners, Scan(p) PROVE Types'
  <2>1. {e \in Logins : Present(e) /\ Window(e)} \in SUBSET Events
    BY FindingsAssumption
  <2> QED
    BY <1>3, <2>1 DEF Scan
<1>4. ASSUME NEW p \in Scanners, Check(p) PROVE Types'
  <2> DEFINE e == CHOOSE x \in todo[p] : \A y \in todo[p] : x <= y
  <2>1. e \in Events
    BY <1>4, FirstEvent DEF Check
  <2>2. /\ todo' = [todo EXCEPT ![p] = @ \ {e}]
        /\ checked' = [checked EXCEPT ![p] = IF CanCreate(e) THEN e ELSE 0]
    BY <1>4 DEF Check
  <2> HIDE DEF e
  <2> QED
    BY <1>4, <2>1, <2>2 DEF Check
<1>5. ASSUME NEW p \in Scanners, Create(p) PROVE Types'
  <2>1. checked[p] \in Events
    BY <1>5 DEF Create
  <2>2. [event |-> checked[p], by |-> p, at |-> clock, status |-> "new"] \in Row
    BY <2>1 DEF Row, Statuses
  <2>3. findings' \subseteq Row /\ todo' \in [Scanners -> SUBSET Events]
    BY <1>5, <2>2 DEF Create
  <2> QED
    BY <1>5, <2>3 DEF Create
<1>6. ASSUME NEW p \in Scanners, ScannerDies(p) PROVE Types'
  BY <1>6 DEF ScannerDies
<1>7. ASSUME NEW r \in Rules, Mark(r) PROVE Types'
  BY <1>7 DEF Mark
<1>8. CASE Sweep
  BY <1>8 DEF Sweep
<1>9. ASSUME NEW f \in findings, OpenFinding(f) \/ DeleteFinding(f) PROVE Types'
  BY <1>9 DEF OpenFinding, DeleteFinding
<1>10. ASSUME NEW s \in Statuses, SaveFinding(s) PROVE Types'
  <2>1. PICK f \in editing :
          \/ findings' = findings
          \/ findings' \subseteq findings \cup {[f EXCEPT !.status = s]}
          \/ findings' = findings \cup {[[f EXCEPT !.status = s] EXCEPT !.at = clock]}
    BY <1>10 DEF SaveFinding
  <2>2. [f EXCEPT !.status = s] \in Row /\ [[f EXCEPT !.status = s] EXCEPT !.at = clock] \in Row
    BY DEF Row
  <2>3. findings' \subseteq Row
    BY <2>1, <2>2
  <2> QED
    BY <1>10, <2>3 DEF SaveFinding
<1>11. ASSUME NEW s \in Statuses, NEW S \in SUBSET findings, BulkUpdate(S, s) PROVE Types'
  <2>1. \A f \in S : [f EXCEPT !.status = s] \in Row
    BY DEF Row
  <2>2. findings' \subseteq Row
    BY <1>11, <2>1 DEF BulkUpdate
  <2> QED
    BY <1>11, <2>2 DEF BulkUpdate
<1>12. CASE UNCHANGED findingVars
  BY <1>12 DEF findingVars
<1> QED
  BY <1>1, <1>2, <1>3, <1>4, <1>5, <1>6, <1>7, <1>8, <1>9, <1>10, <1>11, <1>12 DEF FindingsNext

-----------------------------------------------------------------------------
(* Scans *)

LEMMA InTimeStep == Types /\ InTime /\ [FindingsNext]_findingVars => InTime'
<1> SUFFICES ASSUME Types, InTime, [FindingsNext]_findingVars PROVE InTime'
  OBVIOUS
<1>t. clock \in Nat /\ lastScan \in [Scanners -> Nat] /\ Interval \in Nat /\ Slack \in Nat
  BY FindingsAssumption DEF Types
<1>n. \A f \in findings : f.at \in Nat
  BY DEF Types, Row
<1>1. CASE Tick
  <2>1. clock' = clock + 1 /\ lastScan' = lastScan /\ findings' = findings
        /\ \A p \in Scanners : clock < lastScan[p] + Interval + Slack
    BY <1>1 DEF Tick, scanVars
  <2>2. ASSUME NEW p \in Scanners PROVE lastScan'[p] <= clock' /\ clock' <= lastScan'[p] + Interval + Slack
    <3>1. lastScan[p] \in Nat /\ lastScan[p] <= clock
      BY <1>t DEF InTime
    <3> QED
      BY <2>1, <3>1, <1>t
  <2>3. \A f \in findings' : f.at <= clock'
    BY <2>1, <1>t, <1>n DEF InTime
  <2> QED
    BY <2>2, <2>3 DEF InTime
<1>2. ASSUME NEW p \in Scanners, Scan(p) PROVE InTime'
  <2>1. clock' = clock /\ lastScan' = [lastScan EXCEPT ![p] = clock] /\ findings' = findings
    BY <1>2 DEF Scan
  <2>2. ASSUME NEW q \in Scanners PROVE lastScan'[q] <= clock' /\ clock' <= lastScan'[q] + Interval + Slack
    <3>1. lastScan'[q] = lastScan[q] \/ lastScan'[q] = clock
      BY <2>1, <1>t
    <3>2. lastScan[q] <= clock /\ clock <= lastScan[q] + Interval + Slack
      BY DEF InTime
    <3> QED
      BY <2>1, <3>1, <3>2, <1>t
  <2> QED
    BY <2>1, <2>2 DEF InTime
<1> DEFINE Same == clock' = clock /\ lastScan' = lastScan
<1>s. ASSUME Same, \A f \in findings' : f.at = clock \/ \E g \in findings : f.at = g.at PROVE InTime'
  BY <1>s, <1>t DEF InTime
<1>3. ASSUME Same, findings' \subseteq findings PROVE InTime'
  BY <1>3, <1>s
<1>4. ASSUME NEW e \in Events, Arrive(e) PROVE InTime'
  BY <1>4, <1>3 DEF Arrive, scanVars
<1>5. ASSUME NEW p \in Scanners, Check(p) \/ ScannerDies(p) PROVE InTime'
  BY <1>5, <1>3 DEF Check, ScannerDies
<1>6. ASSUME NEW p \in Scanners, Create(p) PROVE InTime'
  <2>1. Same /\ \/ findings' = findings
                \/ findings' = findings \cup
                     {[event |-> checked[p], by |-> p, at |-> clock, status |-> "new"]}
    BY <1>6 DEF Create
  <2> QED
    BY <2>1, <1>s
<1>7. ASSUME NEW r \in Rules, Mark(r) PROVE InTime'
  BY <1>7, <1>3 DEF Mark, scanVars
<1>8. CASE Sweep
  BY <1>8, <1>3 DEF Sweep, scanVars
<1>9. ASSUME NEW f \in findings, OpenFinding(f) \/ DeleteFinding(f) PROVE InTime'
  BY <1>9, <1>3 DEF OpenFinding, DeleteFinding, scanVars
<1>10. ASSUME NEW s \in Statuses, SaveFinding(s) PROVE InTime'
  <2>1. PICK f \in editing :
          LET row(g) == g.event = f.event /\ g.by = f.by /\ g.at = f.at
              saved == [f EXCEPT !.status = s]
          IN IF \E g \in findings : row(g) THEN findings' = {g \in findings : ~row(g)} \cup {saved}
             ELSE IF Present(f.event) THEN findings' = findings \cup {[saved EXCEPT !.at = clock]}
             ELSE findings' = findings
    BY <1>10 DEF SaveFinding
  <2>2. f \in Row
    BY DEF Types
  <2>3. [f EXCEPT !.status = s].at = f.at /\ [[f EXCEPT !.status = s] EXCEPT !.at = clock].at = clock
    BY <2>2 DEF Row
  <2>4. \A g \in findings' : g.at = clock \/ \E h \in findings : g.at = h.at
    <3>1. CASE \E g \in findings : g.event = f.event /\ g.by = f.by /\ g.at = f.at
      BY <2>1, <2>3, <3>1
    <3>2. CASE ~ \E g \in findings : g.event = f.event /\ g.by = f.by /\ g.at = f.at
      BY <2>1, <2>3, <3>2
    <3> QED
      BY <3>1, <3>2
  <2> QED
    BY <1>10, <2>4, <1>s DEF SaveFinding, scanVars
<1>11. ASSUME NEW s \in Statuses, NEW S \in SUBSET findings, BulkUpdate(S, s) PROVE InTime'
  <2>1. \A f \in S : [f EXCEPT !.status = s].at = f.at
    BY DEF Types, Row
  <2>2. findings' = (findings \ S) \cup {[f EXCEPT !.status = s] : f \in S}
    BY <1>11 DEF BulkUpdate
  <2> QED
    BY <1>11, <2>1, <2>2, <1>s DEF BulkUpdate, scanVars
<1>12. CASE UNCHANGED findingVars
  BY <1>12, <1>3 DEF findingVars
<1> QED
  BY <1>1, <1>2, <1>4, <1>5, <1>6, <1>7, <1>8, <1>9, <1>10, <1>11, <1>12 DEF FindingsNext

-----------------------------------------------------------------------------
(* What analysts and retention do to the findings *)

SameKey(a, f) == a.event = f.event /\ a.by = f.by /\ a.at = f.at

\* Two findings of an event come of two, or one of them was written back; one
\* that is not as it was marks its event as changed.
Rewrites ==
  /\ UNCHANGED <<clock, created, scanVars, found, dropped>>
  /\ gone \subseteq gone' /\ erased \subseteq erased' /\ dirty \subseteq dirty' /\ marked' \in {marked, {}}
  /\ editing' \subseteq findings \cup editing
  /\ \A f \in findings' :
       /\ \E a \in findings \cup editing : a.event = f.event
       /\ f.event \in erased' \/ \E a \in findings : SameKey(a, f)
       /\ f \in findings \/ f.event \in dirty' \/ f.event \notin marked
  /\ \A f, g \in findings' :
       (f # g /\ f.event = g.event) =>
         f.event \in erased' \/ \E a, b \in findings : a # b /\ SameKey(a, f) /\ SameKey(b, g)

LEMMA FewerRewrites ==
  ASSUME findings' \subseteq findings, UNCHANGED <<clock, created, scanVars, found, dropped>>,
         gone \subseteq gone', erased \subseteq erased', dirty \subseteq dirty', marked' \in {marked, {}},
         editing' \subseteq findings \cup editing
  PROVE  Rewrites
BY DEF Rewrites, SameKey

LEMMA SaveRewrites == ASSUME Types, NEW s \in Statuses, SaveFinding(s) PROVE Rewrites
<1>1. PICK f \in editing :
        LET row(g) == g.event = f.event /\ g.by = f.by /\ g.at = f.at
            saved == [f EXCEPT !.status = s]
        IN IF \E g \in findings : row(g)
           THEN findings' = {g \in findings : ~row(g)} \cup {saved} /\ Touch(f.event) /\ UNCHANGED erased
           ELSE IF Present(f.event)
           THEN findings' = findings \cup {[saved EXCEPT !.at = clock]} /\ Touch(f.event)
                /\ erased' = erased \cup {f.event}
           ELSE UNCHANGED <<findings, dirty, erased>>
  BY DEF SaveFinding
<1>2. /\ UNCHANGED <<clock, created, scanVars, found, dropped>>
      /\ gone' = gone /\ marked' = marked /\ editing' = {}
  BY DEF SaveFinding
<1> DEFINE saved == [f EXCEPT !.status = s]
           back == [saved EXCEPT !.at = clock]
<1>3. SameKey(f, saved) /\ back.event = f.event
  BY DEF Types, Row, SameKey
<1>4. ASSUME Touch(f.event) PROVE dirty \subseteq dirty' /\ (f.event \in dirty' \/ f.event \notin marked)
  BY <1>4 DEF Touch
<1> HIDE DEF saved, back
<1>5. CASE \E g \in findings : SameKey(g, f)
  <2>1. PICK h \in findings : SameKey(h, f)
    BY <1>5
  <2>2. findings' = {g \in findings : ~SameKey(g, f)} \cup {saved} /\ Touch(f.event) /\ erased' = erased
    BY <1>1, <1>5 DEF SameKey, saved
  <2>3. SameKey(h, saved) /\ saved.event = f.event
    BY <2>1, <1>3 DEF SameKey
  <2>4. \A g \in findings' : /\ \E a \in findings \cup editing : a.event = g.event
                             /\ \E a \in findings : SameKey(a, g)
                             /\ g \in findings \/ g.event \in dirty' \/ g.event \notin marked
    BY <2>2, <2>3, <1>4 DEF SameKey
  <2>5. ASSUME NEW g \in findings', NEW k \in findings', g # k
        PROVE  \E a, b \in findings : a # b /\ SameKey(a, g) /\ SameKey(b, k)
    <3>1. CASE g = saved
      <4>1. k \in findings /\ ~SameKey(k, f) /\ SameKey(k, k)
        BY <2>2, <2>5, <3>1 DEF SameKey
      <4> QED
        BY <4>1, <3>1, <2>1, <2>3
    <3>2. CASE k = saved
      <4>1. g \in findings /\ ~SameKey(g, f) /\ SameKey(g, g)
        BY <2>2, <2>5, <3>2 DEF SameKey
      <4> QED
        BY <4>1, <3>2, <2>1, <2>3
    <3>3. CASE g # saved /\ k # saved
      BY <2>2, <2>5, <3>3 DEF SameKey
    <3> QED
      BY <3>1, <3>2, <3>3
  <2> QED
    BY <1>2, <1>4, <2>2, <2>4, <2>5 DEF Rewrites
<1>6. CASE Present(f.event) /\ ~ \E g \in findings : SameKey(g, f)
  <2>1. findings' = findings \cup {back} /\ Touch(f.event) /\ erased' = erased \cup {f.event}
    BY <1>1, <1>6 DEF SameKey, saved, back
  <2>2. back.event \in erased' /\ (back.event \in dirty' \/ back.event \notin marked)
    BY <2>1, <1>3, <1>4
  <2>3. \A g \in findings' : /\ \E a \in findings \cup editing : a.event = g.event
                             /\ g.event \in erased' \/ \E a \in findings : SameKey(a, g)
                             /\ g \in findings \/ g.event \in dirty' \/ g.event \notin marked
    BY <2>1, <2>2, <1>3 DEF SameKey
  <2>4. \A g, k \in findings' : (g # k /\ g.event = k.event) =>
          g.event \in erased' \/ \E a, b \in findings : a # b /\ SameKey(a, g) /\ SameKey(b, k)
    BY <2>1, <2>2 DEF SameKey
  <2> QED
    BY <1>2, <1>4, <2>1, <2>3, <2>4 DEF Rewrites
<1>7. CASE ~Present(f.event) /\ ~ \E g \in findings : SameKey(g, f)
  <2>1. findings' = findings /\ dirty' = dirty /\ erased' = erased
    BY <1>1, <1>7 DEF SameKey
  <2> QED
    BY <1>2, <2>1, FewerRewrites
<1> QED
  BY <1>5, <1>6, <1>7

LEMMA BulkRewrites ==
  ASSUME Types, NEW s \in Statuses, NEW S \in SUBSET findings, BulkUpdate(S, s)
  PROVE  Rewrites
<1> DEFINE new(f) == [f EXCEPT !.status = s]
<1>1. /\ findings' = (findings \ S) \cup {new(f) : f \in S}
      /\ dirty' = dirty \cup ({f.event : f \in S} \cap marked)
      /\ UNCHANGED <<clock, created, scanVars, found, dropped, gone, marked, editing, erased>>
  BY DEF BulkUpdate
<1>2. \A f \in S : SameKey(f, new(f))
  BY DEF Types, Row, SameKey
<1> HIDE DEF new
<1>3. \A f \in S : f.event \in dirty' \/ f.event \notin marked
  BY <1>1
<1>4. ASSUME NEW g \in findings'
      PROVE  /\ \E a \in findings : SameKey(a, g) /\ (g \in findings \/ a \in S)
             /\ g \in findings \/ g.event \in dirty' \/ g.event \notin marked
  BY <1>1, <1>2, <1>3 DEF SameKey
<1>5. ASSUME NEW g \in findings', NEW k \in findings', g # k
      PROVE  \E a, b \in findings : a # b /\ SameKey(a, g) /\ SameKey(b, k)
  <2>1. PICK a \in findings : SameKey(a, g) /\ ((g = a /\ a \notin S) \/ (a \in S /\ g = new(a)))
    BY <1>1, <1>2 DEF SameKey
  <2>2. PICK b \in findings : SameKey(b, k) /\ ((k = b /\ b \notin S) \/ (b \in S /\ k = new(b)))
    BY <1>1, <1>2 DEF SameKey
  <2> QED
    BY <1>5, <2>1, <2>2
<1> QED
  BY <1>1, <1>4, <1>5 DEF Rewrites, SameKey

LEMMA OthersRewrite ==
  ASSUME Types, Sweep \/ (\E f \in findings : OpenFinding(f) \/ DeleteFinding(f))
  PROVE  Rewrites
<1>1. CASE Sweep
  <2>1. dirty' = dirty /\ marked' = {} /\ gone' = gone \cup marked /\ erased' = erased /\ editing' = editing
        /\ findings' \subseteq findings /\ UNCHANGED <<clock, created, scanVars, found, dropped>>
    BY <1>1 DEF Sweep
  <2> QED
    BY <2>1, FewerRewrites
<1>2. ASSUME NEW f \in findings, OpenFinding(f) PROVE Rewrites
  <2>1. dirty' = dirty /\ marked' = marked /\ gone' = gone /\ erased' = erased /\ editing' = {f}
        /\ findings' = findings /\ UNCHANGED <<clock, created, scanVars, found, dropped>>
    BY <1>2 DEF OpenFinding
  <2> QED
    BY <2>1, FewerRewrites
<1>3. ASSUME NEW f \in findings, DeleteFinding(f) PROVE Rewrites
  <2>1. dirty \subseteq dirty' /\ marked' = marked /\ gone' = gone /\ erased \subseteq erased'
        /\ editing' = editing /\ findings' \subseteq findings
        /\ UNCHANGED <<clock, created, scanVars, found, dropped>>
    BY <1>3 DEF DeleteFinding, Touch
  <2> QED
    BY <2>1, FewerRewrites
<1> QED
  BY <1>1, <1>2, <1>3

LEMMA StepKinds ==
  ASSUME Types, [FindingsNext]_findingVars
  PROVE  \/ Rewrites \/ Tick
         \/ \E e \in Events : Arrive(e)
         \/ \E p \in Scanners : Scan(p) \/ Check(p) \/ Create(p) \/ ScannerDies(p)
         \/ \E r \in Rules : Mark(r)
<1>1. CASE UNCHANGED findingVars
  BY <1>1, FewerRewrites DEF findingVars, scanVars
<1>2. CASE Sweep \/ (\E f \in findings : OpenFinding(f) \/ DeleteFinding(f))
  BY <1>2, OthersRewrite
<1>3. CASE \E s \in Statuses : SaveFinding(s) \/ \E S \in (SUBSET findings) \ {{}} : BulkUpdate(S, s)
  BY <1>3, SaveRewrites, BulkRewrites
<1> QED
  BY <1>1, <1>2, <1>3, Zenon DEF FindingsNext

-----------------------------------------------------------------------------
(* Every login is found *)

LEMMA RecordedStep == Types /\ Recorded /\ [FindingsNext]_findingVars => Recorded'
<1> SUFFICES ASSUME Types, Recorded, [FindingsNext]_findingVars PROVE Recorded'
  OBVIOUS
<1>1. CASE Rewrites
  BY <1>1 DEF Rewrites, Recorded
<1>2. ASSUME NEW p \in Scanners, Create(p) PROVE Recorded'
  <2>1. \/ findings' = findings /\ found' = found
        \/ /\ findings' = findings \cup {[event |-> checked[p], by |-> p, at |-> clock, status |-> "new"]}
           /\ found' = found \cup {checked[p]}
    BY <1>2 DEF Create
  <2>2. editing' = editing
    BY <1>2 DEF Create
  <2> QED
    BY <2>1, <2>2 DEF Recorded
<1>3. CASE findings' = findings /\ editing' = editing /\ found' = found
  BY <1>3 DEF Recorded
<1>4. (\E p \in Scanners : Scan(p) \/ Check(p) \/ ScannerDies(p)) \/ Tick \/ (\E e \in Events : Arrive(e))
        \/ (\E r \in Rules : Mark(r)) => findings' = findings /\ editing' = editing /\ found' = found
  BY DEF Scan, Check, ScannerDies, Tick, Arrive, Mark
<1> QED
  BY <1>1, <1>2, <1>3, <1>4, StepKinds

\* A step that touches neither the lists nor what has been found.
LEMMA CoveredStays ==
  ASSUME Covered, UNCHANGED <<created, lastScan, todo, checked>>, gone \subseteq gone',
         found \subseteq found', dropped \subseteq dropped'
  PROVE  Covered'
BY DEF Covered, Present

LEMMA CoveredStep ==
  Types /\ InTime /\ Recorded /\ Covered /\ [FindingsNext]_findingVars => Covered'
<1> SUFFICES ASSUME Types, InTime, Recorded, Covered, [FindingsNext]_findingVars PROVE Covered'
  OBVIOUS
<1>t. /\ clock \in Nat /\ created \in [Events -> Nat \cup {Nowhere}] /\ lastScan \in [Scanners -> Nat]
      /\ todo \in [Scanners -> SUBSET Events] /\ checked \in [Scanners -> Events \cup {0}]
      /\ Logins \subseteq Events /\ Events \subseteq Nat \ {0}
  BY FindingsAssumption DEF Types
<1>1. CASE Rewrites
  BY <1>1, CoveredStays DEF Rewrites, scanVars
<1>2. CASE Tick
  BY <1>2, CoveredStays DEF Tick, scanVars
<1>3. ASSUME NEW d \in Events, Arrive(d) PROVE Covered'
  <2>1. created' = [created EXCEPT ![d] = clock] /\ gone' = gone /\ found' = found /\ dropped' = dropped
        /\ UNCHANGED <<todo, checked, lastScan>>
    BY <1>3 DEF Arrive, scanVars
  <2> SUFFICES ASSUME NEW e \in Logins, NEW p \in Scanners, Present(e)', created'[e] < lastScan[p]
               PROVE  e \in found \cup dropped \cup todo[p] \cup {checked[p]}
    BY <2>1 DEF Covered
  <2>2. e # d
    <3>1. lastScan[p] <= clock /\ lastScan[p] \in Nat
      BY <1>t DEF InTime
    <3> QED
      BY <2>1, <3>1, <1>t
  <2> QED
    BY <2>1, <2>2, <1>t DEF Covered, Present
<1>4. ASSUME NEW p \in Scanners, Scan(p) PROVE Covered'
  <2>1. /\ todo' = [todo EXCEPT ![p] = {e \in Logins : Present(e) /\ Window(e)}]
        /\ lastScan' = [lastScan EXCEPT ![p] = clock]
        /\ UNCHANGED <<created, gone, found, dropped, checked>>
        /\ todo[p] = {} /\ checked[p] = 0
    BY <1>4 DEF Scan
  <2> SUFFICES ASSUME NEW e \in Logins, NEW q \in Scanners, Present(e), created[e] < lastScan'[q]
               PROVE  e \in found \cup dropped \cup todo'[q] \cup {checked[q]}
    BY <2>1 DEF Covered, Present
  <2>2. CASE q # p
    BY <2>1, <2>2, <1>t DEF Covered
  <2>3. CASE q = p /\ Window(e)
    BY <2>1, <2>3, <1>t
  <2>4. CASE q = p /\ ~Window(e)
    <3>1. created[e] \in Nat
      BY <1>t DEF Present
    <3>2. lastScan[p] \in Nat /\ clock <= lastScan[p] + Interval + Slack
      BY <1>t DEF InTime
    <3>3. 2 * created[e] < 2 * clock - 3 * Interval
      BY <2>4, <3>1, <1>t, FindingsAssumption DEF Window
    <3>4. created[e] < lastScan[p]
      BY <3>1, <3>2, <3>3, <1>t, FindingsAssumption
    <3>5. e \in found \cup dropped \cup todo[p] \cup {checked[p]}
      BY <3>4 DEF Covered
    <3>6. e # 0
      BY <1>t
    <3> QED
      BY <2>1, <3>5, <3>6
  <2> QED
    BY <2>2, <2>3, <2>4
<1>5. ASSUME NEW p \in Scanners, Check(p) PROVE Covered'
  <2> DEFINE e == CHOOSE x \in todo[p] : \A y \in todo[p] : x <= y
  <2>1. /\ todo' = [todo EXCEPT ![p] = @ \ {e}]
        /\ checked' = [checked EXCEPT ![p] = IF CanCreate(e) THEN e ELSE 0]
        /\ checked[p] = 0
        /\ UNCHANGED <<created, gone, lastScan, found, dropped>>
    BY <1>5 DEF Check
  <2> HIDE DEF e
  <2>2. ~CanCreate(e) => e \in found
    BY DEF CanCreate, Recorded
  <2> SUFFICES ASSUME NEW d \in Logins, NEW q \in Scanners, Present(d), created[d] < lastScan[q]
               PROVE  d \in found \cup dropped \cup todo'[q] \cup {checked'[q]}
    BY <2>1 DEF Covered, Present
  <2>3. d \in found \cup dropped \cup todo[q] \cup {checked[q]} /\ d # 0
    BY <1>t DEF Covered
  <2>4. CASE q # p
    BY <2>1, <2>3, <2>4, <1>t
  <2>5. CASE q = p
    <3>1. todo'[q] = todo[p] \ {e} /\ checked'[q] = (IF CanCreate(e) THEN e ELSE 0)
      BY <2>1, <2>5, <1>t
    <3> QED
      BY <3>1, <2>1, <2>2, <2>3, <2>5
  <2> QED
    BY <2>4, <2>5
<1>6. ASSUME NEW p \in Scanners, Create(p) PROVE Covered'
  <2>0. UNCHANGED <<created, gone, lastScan>> /\ checked[p] # 0 /\ checked' = [checked EXCEPT ![p] = 0]
    BY <1>6 DEF Create
  <2>1. CASE Present(checked[p])
    <3>1. found' = found \cup {checked[p]} /\ todo' = todo /\ dropped' = dropped
      BY <1>6, <2>1 DEF Create
    <3> QED
      BY <2>0, <3>1, <1>t DEF Covered, Present
  <2>2. CASE ~Present(checked[p])
    <3>1. found' = found /\ todo' = [todo EXCEPT ![p] = {}] /\ dropped' = dropped \cup todo[p]
      BY <1>6, <2>2 DEF Create
    <3> QED
      BY <2>0, <2>2, <3>1, <1>t DEF Covered, Present
  <2> QED
    BY <2>1, <2>2
<1>7. ASSUME NEW p \in Scanners, ScannerDies(p) PROVE Covered'
  <2>1. /\ todo' = [todo EXCEPT ![p] = {}] /\ checked' = [checked EXCEPT ![p] = 0]
        /\ dropped' = dropped \cup todo[p] \cup ({checked[p]} \ {0})
        /\ UNCHANGED <<created, gone, lastScan, found>>
    BY <1>7 DEF ScannerDies
  <2> QED
    BY <2>1, <1>t DEF Covered, Present
<1>8. ASSUME NEW r \in Rules, Mark(r) PROVE Covered'
  BY <1>8, CoveredStays DEF Mark, scanVars
<1> QED
  BY <1>1, <1>2, <1>3, <1>4, <1>5, <1>6, <1>7, <1>8, StepKinds

-----------------------------------------------------------------------------
(* The cooldown *)

LEMMA CooldownStep ==
  Types /\ InTime /\ Rested /\ CooldownPerProcess /\ [FindingsNext]_findingVars
    => Rested' /\ CooldownPerProcess'
<1> SUFFICES ASSUME Types, InTime, Rested, CooldownPerProcess, [FindingsNext]_findingVars
             PROVE  Rested' /\ CooldownPerProcess'
  OBVIOUS
<1>t. /\ clock \in Nat /\ checked \in [Scanners -> Events \cup {0}] /\ Cooldown \in Nat
      /\ \A f \in findings : f.at \in Nat /\ f.at <= clock
  BY FindingsAssumption DEF Types, Row, InTime
<1>1. CASE Rewrites
  <2>1. Rested'
    <3> SUFFICES ASSUME NEW p \in Scanners, NEW f \in findings', checked'[p] # 0,
                        f.event = checked'[p], f.by = p, f.event \notin erased'
                 PROVE  clock' - f.at > Cooldown
      BY DEF Rested
    <3>1. PICK a \in findings : SameKey(a, f)
      BY <1>1 DEF Rewrites
    <3>2. checked' = checked /\ clock' = clock /\ erased \subseteq erased'
      BY <1>1 DEF Rewrites, scanVars
    <3> QED
      BY <3>1, <3>2 DEF Rested, SameKey
  <2>2. CooldownPerProcess'
    <3> SUFFICES ASSUME NEW f \in findings', NEW g \in findings', f # g, f.event = g.event, f.by = g.by,
                        f.at <= g.at, f.event \notin erased'
                 PROVE  g.at - f.at > Cooldown
      BY DEF CooldownPerProcess
    <3>1. PICK a \in findings, b \in findings : a # b /\ SameKey(a, f) /\ SameKey(b, g)
      BY <1>1 DEF Rewrites
    <3>2. a.event \notin erased
      BY <1>1, <3>1 DEF Rewrites, SameKey
    <3> QED
      BY <3>1, <3>2 DEF CooldownPerProcess, SameKey
  <2> QED
    BY <2>1, <2>2
<1>2. ASSUME findings' = findings, erased' = erased PROVE CooldownPerProcess'
  BY <1>2 DEF CooldownPerProcess
<1>3. ASSUME findings' = findings, erased' = erased, checked' = checked, clock' = clock PROVE Rested'
  BY <1>3 DEF Rested
<1>4. CASE Tick
  <2>1. findings' = findings /\ erased' = erased /\ checked' = checked /\ clock' = clock + 1
    BY <1>4 DEF Tick, scanVars
  <2>2. ASSUME NEW p \in Scanners, NEW f \in findings, checked[p] # 0, f.event = checked[p], f.by = p,
               f.event \notin erased
        PROVE  clock' - f.at > Cooldown
    <3>1. clock - f.at > Cooldown
      BY <2>2 DEF Rested
    <3> QED
      BY <2>1, <3>1, <1>t
  <2> QED
    BY <1>2, <2>1, <2>2 DEF Rested
<1>5. ASSUME NEW e \in Events, Arrive(e) PROVE Rested' /\ CooldownPerProcess'
  BY <1>2, <1>3, <1>5 DEF Arrive, scanVars
<1>6. ASSUME NEW r \in Rules, Mark(r) PROVE Rested' /\ CooldownPerProcess'
  BY <1>2, <1>3, <1>6 DEF Mark, scanVars
<1>7. ASSUME NEW p \in Scanners, Scan(p) PROVE Rested' /\ CooldownPerProcess'
  BY <1>2, <1>3, <1>7 DEF Scan
<1>8. ASSUME NEW p \in Scanners, ScannerDies(p) PROVE Rested' /\ CooldownPerProcess'
  <2>1. findings' = findings /\ erased' = erased /\ clock' = clock /\ checked' = [checked EXCEPT ![p] = 0]
    BY <1>8 DEF ScannerDies
  <2>2. Rested'
    BY <2>1, <1>t DEF Rested
  <2> QED
    BY <1>2, <2>1, <2>2
<1>9. ASSUME NEW p \in Scanners, Check(p) PROVE Rested' /\ CooldownPerProcess'
  <2> DEFINE e == CHOOSE x \in todo[p] : \A y \in todo[p] : x <= y
  <2>1. /\ findings' = findings /\ erased' = erased /\ clock' = clock
        /\ checked' = [checked EXCEPT ![p] = IF CanCreate(e) THEN e ELSE 0]
    BY <1>9 DEF Check
  <2> HIDE DEF e
  <2>2. ASSUME CanCreate(e), NEW f \in findings, f.event = e PROVE clock - f.at > Cooldown
    <3>1. ~ (f.at >= clock - Cooldown)
      BY <2>2 DEF CanCreate
    <3> QED
      BY <3>1, <1>t
  <2>3. ASSUME NEW q \in Scanners, NEW f \in findings, checked'[q] # 0, f.event = checked'[q], f.by = q,
               f.event \notin erased
        PROVE  clock - f.at > Cooldown
    <3>1. CASE q # p
      BY <2>1, <2>3, <3>1, <1>t DEF Rested
    <3>2. CASE q = p
      <4>1. checked'[q] = IF CanCreate(e) THEN e ELSE 0
        BY <2>1, <3>2, <1>t
      <4> QED
        BY <2>2, <2>3, <4>1
    <3> QED
      BY <3>1, <3>2
  <2> QED
    BY <1>2, <2>1, <2>3 DEF Rested
<1>10. ASSUME NEW p \in Scanners, Create(p) PROVE Rested' /\ CooldownPerProcess'
  <2>0. checked' = [checked EXCEPT ![p] = 0] /\ erased' = erased /\ clock' = clock /\ checked[p] # 0
    BY <1>10 DEF Create
  <2>1. CASE ~Present(checked[p])
    <3>1. findings' = findings
      BY <1>10, <2>1 DEF Create
    <3> QED
      BY <2>0, <3>1, <1>t, <1>2 DEF Rested
  <2>2. CASE Present(checked[p])
    <3> DEFINE new == [event |-> checked[p], by |-> p, at |-> clock, status |-> "new"]
    <3>1. findings' = findings \cup {new}
      BY <1>10, <2>2 DEF Create
    <3>2. new.event = checked[p] /\ new.by = p /\ new.at = clock
      OBVIOUS
    <3> HIDE DEF new
    <3>3. ASSUME NEW f \in findings, f.event = new.event, f.by = new.by, f.event \notin erased
          PROVE  clock - f.at > Cooldown
      BY <2>0, <3>2, <3>3 DEF Rested
    <3>4. Rested'
      <4> SUFFICES ASSUME NEW q \in Scanners, NEW f \in findings', checked'[q] # 0,
                          f.event = checked'[q], f.by = q, f.event \notin erased
                   PROVE  clock - f.at > Cooldown
        BY <2>0 DEF Rested
      <4>1. q # p /\ checked'[q] = checked[q]
        BY <2>0, <1>t
      <4>2. f \in findings
        BY <3>1, <3>2, <4>1
      <4> QED
        BY <4>1, <4>2 DEF Rested
    <3>5. CooldownPerProcess'
      <4> SUFFICES ASSUME NEW f \in findings', NEW g \in findings', f # g, f.event = g.event, f.by = g.by,
                          f.at <= g.at, f.event \notin erased
                   PROVE  g.at - f.at > Cooldown
        BY <2>0 DEF CooldownPerProcess
      <4>1. CASE f \in findings /\ g \in findings
        BY <4>1 DEF CooldownPerProcess
      <4>2. CASE g = new /\ f \in findings
        BY <3>2, <3>3, <4>2
      <4>3. CASE f = new /\ g \in findings
        <5>1. clock - g.at > Cooldown
          BY <3>3, <4>3
        <5> QED
          BY <5>1, <3>2, <4>3, <1>t
      <4> QED
        BY <3>1, <4>1, <4>2, <4>3
    <3> QED
      BY <3>4, <3>5
  <2> QED
    BY <2>1, <2>2
<1> QED
  BY <1>1, <1>4, <1>5, <1>6, <1>7, <1>8, <1>9, <1>10, StepKinds

-----------------------------------------------------------------------------
(* Retention *)

LEMMA ClosedStep == Types /\ Closed /\ [FindingsNext]_findingVars => Closed'
<1> SUFFICES ASSUME Types, Closed, [FindingsNext]_findingVars PROVE Closed'
  OBVIOUS
<1>1. CASE Rewrites
  BY <1>1 DEF Rewrites, Closed
<1>2. ASSUME NEW p \in Scanners, Create(p) PROVE Closed'
  <2>1. \/ findings' = findings /\ dirty' = dirty
        \/ /\ findings' = findings \cup {[event |-> checked[p], by |-> p, at |-> clock, status |-> "new"]}
           /\ Touch(checked[p])
    BY <1>2 DEF Create
  <2>2. marked' = marked
    BY <1>2 DEF Create
  <2> QED
    BY <2>1, <2>2 DEF Closed, Touch
<1>3. ASSUME NEW r \in Rules, Mark(r) PROVE Closed'
  <2>1. findings' = findings /\ \A e \in marked' : Deletable(e)
    BY <1>3 DEF Mark
  <2> QED
    BY <2>1 DEF Closed, Deletable
<1>4. CASE UNCHANGED <<findings, marked, dirty>>
  BY <1>4 DEF Closed
<1>5. (\E p \in Scanners : Scan(p) \/ Check(p) \/ ScannerDies(p)) \/ Tick \/ (\E e \in Events : Arrive(e))
        => UNCHANGED <<findings, marked, dirty>>
  BY DEF Scan, Check, ScannerDies, Tick, Arrive
<1> QED
  BY <1>1, <1>2, <1>3, <1>4, <1>5, StepKinds

-----------------------------------------------------------------------------

Inv == Types /\ InTime /\ Recorded /\ Covered /\ Rested /\ CooldownPerProcess /\ Closed

LEMMA InitInv == FindingsInit => Inv
<1> SUFFICES ASSUME FindingsInit PROVE Inv
  OBVIOUS
<1>1. Types
  BY InitTypes
<1>2. InTime
  BY FindingsAssumption DEF FindingsInit, InTime
<1>3. Covered
  BY FindingsAssumption DEF FindingsInit, Covered, Present
<1>4. Recorded /\ Rested /\ CooldownPerProcess /\ Closed
  BY DEF FindingsInit, Recorded, Rested, CooldownPerProcess, Closed
<1> QED
  BY <1>1, <1>2, <1>3, <1>4 DEF Inv

\* The inductive invariant of the event table and those who work on it.
THEOREM FindingsInvariant == FindingsSpec => []Inv
<1>1. Inv /\ [FindingsNext]_findingVars => Inv'
  BY StepTypes, InTimeStep, RecordedStep, CoveredStep, CooldownStep, ClosedStep DEF Inv
<1> QED
  BY <1>1, InitInv, PTL DEF FindingsSpec

\* A failed login that was in the table when the latest scan of a process began
\* is found once that scan is over, however scans drift and die, unless a scan
\* died over it (_scan in src/crawlers/plugins/failed_login_crawler.py).
THEOREM LoginsFound == FindingsSpec => []EveryLoginFound
<1>1. Inv => EveryLoginFound
  <2> SUFFICES ASSUME Inv, NEW e \in Logins, NEW p \in Scanners, Present(e), created[e] < lastScan[p],
                      todo[p] = {}, checked[p] = 0
               PROVE  e \in found \cup dropped
    BY DEF EveryLoginFound
  <2>1. e \in found \cup dropped \cup todo[p] \cup {checked[p]}
    BY DEF Inv, Covered
  <2>2. e # 0
    BY FindingsAssumption
  <2> QED
    BY <2>1, <2>2
<1> QED
  BY <1>1, FindingsInvariant, PTL

\* The unprotected cooldown check lets no process create two findings for one
\* event within the cooldown (can_create_finding in src/crawlers/models.py).
THEOREM CooldownKept == FindingsSpec => []CooldownPerProcess
<1>1. Inv => CooldownPerProcess
  BY DEF Inv
<1> QED
  BY <1>1, FindingsInvariant, PTL

\* Retention deletes no event with a finding to act on, except one that changed
\* after the events to delete were read (get_deletable_queryset and delete in
\* src/crawlers/plugins/data_retention_crawler.py).
THEOREM RetentionKeepsOpen == FindingsSpec => OpenFindingsKept
<1>1. Inv /\ [FindingsNext]_findingVars =>
        [\A f \in findings : (f.event \in gone' \ gone /\ f.status \in Actionable) => f.event \in dirty]_findingVars
  <2> SUFFICES ASSUME Inv, [FindingsNext]_findingVars, NEW f \in findings, f.event \in gone' \ gone,
                      f.status \in Actionable
               PROVE  f.event \in dirty
    OBVIOUS
  <2>1. gone' = gone \cup marked
    <3>1. Sweep \/ gone' = gone
      BY DEF FindingsNext, findingVars, Tick, Arrive, Scan, Check, Create, ScannerDies, Mark, OpenFinding,
             DeleteFinding, SaveFinding, BulkUpdate
    <3> QED
      BY <3>1 DEF Sweep
  <2> QED
    BY <2>1 DEF Inv, Closed
<1> QED
  BY <1>1, FindingsInvariant, PTL DEF FindingsSpec, OpenFindingsKept
=============================================================================
