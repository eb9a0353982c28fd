----------------------------- MODULE Users_proofs -----------------------------
(***************************************************************************)
(* Proofs about what users save and share (Sharing) and about their        *)
(* accounts (Accounts).                                                    *)
(***************************************************************************)
EXTENDS Sharing, Accounts, TLAPS

-----------------------------------------------------------------------------
(* Rows, pages and requests *)

SearchRow == [id : Nat, owner : Users, name : Names, calls : Names \cup {"none"},
              shared : SUBSET Users, public : BOOLEAN]
DashboardRow == [id : Nat, owner : Users, shared : BOOLEAN, edit : Nat, refresh : Nat]
Requests == {Idle} \cup [does : {"search", "share"}, row : SearchRow] \cup [does : {"edit"}, row : DashboardRow]
              \cup [does : {"view"}, row : DashboardRow, seconds : Nat]
Runs == {NoRun} \cup [state : {"running", "done", "error"}, name : Names, depth : Nat]

SharingTypes ==
  /\ searches \subseteq SearchRow /\ dashboards \subseteq DashboardRow
  /\ page \in [Users -> SUBSET DashboardRow]
  /\ request \in [Users -> Requests]
  /\ run \in [Users -> Runs]
  /\ rows \in Nat /\ requests \in Nat

\* A row read for a change belongs to the user who changes it.
OwnRequests ==
  \A u \in Users : /\ \A d \in page[u] : d.owner = u
                   /\ request[u].does \in {"search", "share", "edit"} => request[u].row.owner = u

\* The rows there are or somebody has read.
Opened == UNION {page[u] : u \in Users}
Held == {request[u].row : u \in {v \in Users : request[v].does # "nothing"}}
Known == searches \cup dashboards \cup Opened \cup Held

\* A row never changes hands, even if it is deleted and written back.
OneOwner ==
  /\ \A r \in Known : r.id <= rows
  /\ \A r, s \in Known : r.id = s.id => r.owner = s.owner

LEMMA RequestKinds ==
  ASSUME NEW r \in Requests
  PROVE  /\ r.does \in {"search", "share"} => r.row \in SearchRow
         /\ r.does \in {"edit", "view"} => r.row \in DashboardRow
         /\ r.does = "view" => r.seconds \in Nat
<1>1. CASE r = Idle
  BY <1>1 DEF Idle
<1>2. CASE r \in [does : {"search", "share"}, row : SearchRow]
  BY <1>2
<1>3. CASE r \in [does : {"edit"}, row : DashboardRow]
  BY <1>3
<1>4. CASE r \in [does : {"view"}, row : DashboardRow, seconds : Nat]
  BY <1>4
<1> QED
  BY <1>1, <1>2, <1>3, <1>4 DEF Requests

LEMMA KnownParts ==
  /\ \A r \in searches \cup dashboards : r \in Known
  /\ \A u \in Users : \A d \in page[u] : d \in Known
  /\ \A u \in Users : request[u].does # "nothing" => request[u].row \in Known
<1>1. ASSUME NEW u \in Users, request[u].does # "nothing" PROVE request[u].row \in Held
  <2>1. u \in {v \in Users : request[v].does # "nothing"}
    BY <1>1
  <2> QED
    BY <2>1 DEF Held
<1>2. ASSUME NEW u \in Users, NEW d \in page[u] PROVE d \in Opened
  BY DEF Opened
<1> QED
  BY <1>1, <1>2 DEF Known

LEMMA BeginTyped ==
  ASSUME SharingTypes, NEW u \in Users, NEW r \in Requests, Begin(u, r)
  PROVE  request' \in [Users -> Requests] /\ requests' \in Nat
BY DEF SharingTypes, Begin

LEMMA EndsTyped ==
  ASSUME SharingTypes, NEW u \in Users, Ends(u)
  PROVE  request' \in [Users -> Requests] /\ requests' \in Nat
BY DEF SharingTypes, Ends, Requests

LEMMA SearchTypes ==
  ASSUME SharingTypes, NEW u \in Users, NEW n \in Names, NEW c \in Names \cup {"none"}, NEW p \in BOOLEAN,
         CreateSearch(u, n, c, p) \/ SaveSearch(u, n, c, p)
  PROVE  SharingTypes'
<1>1. CASE CreateSearch(u, n, c, p)
  <2> DEFINE s == [id |-> rows', owner |-> u, name |-> n, calls |-> c, shared |-> {}, public |-> p]
  <2>1. rows' = rows + 1 /\ searches' = searches \cup {s} /\ Begin(u, [does |-> "share", row |-> s])
        /\ UNCHANGED <<dashboards, page, run>>
    BY <1>1 DEF CreateSearch
  <2>2. s \in SearchRow
    BY <2>1 DEF SharingTypes, SearchRow
  <2> HIDE DEF s
  <2>3. [does |-> "share", row |-> s] \in Requests
    BY <2>2 DEF Requests
  <2> QED
    BY <2>1, <2>2, <2>3, BeginTyped DEF SharingTypes
<1>2. CASE SaveSearch(u, n, c, p)
  <2> DEFINE s == [request[u].row EXCEPT !.name = n, !.calls = c, !.public = p]
             now == {r.shared : r \in {q \in searches : q.id = s.id}}
             w == [s EXCEPT !.shared = UNION now]
  <2>1. /\ request[u].does = "search" /\ searches' = Put(searches, w)
        /\ request' = [request EXCEPT ![u] = [does |-> "share", row |-> s]]
        /\ UNCHANGED <<dashboards, page, run, rows, requests>>
    BY <1>2 DEF SaveSearch
  <2>2. request[u].row \in SearchRow
    BY <2>1 DEF SharingTypes, Requests, Idle
  <2>3. s \in SearchRow
    BY <2>2 DEF SearchRow
  <2>4. UNION now \in SUBSET Users
    BY DEF SharingTypes, SearchRow
  <2> HIDE DEF s, now
  <2>5. w \in SearchRow
    BY <2>3, <2>4 DEF SearchRow
  <2> HIDE DEF w
  <2>6. searches' \subseteq SearchRow
    BY <2>1, <2>5 DEF Put, SharingTypes
  <2>7. [does |-> "share", row |-> s] \in Requests
    BY <2>3 DEF Requests
  <2> QED
    BY <2>1, <2>6, <2>7 DEF SharingTypes
<1> QED
  BY <1>1, <1>2

LEMMA RunTypes ==
  ASSUME SharingTypes, NEW u \in Users, Lookup(u) \/ \E n \in Names : StartRun(u, n)
  PROVE  SharingTypes'
<1>1. ASSUME NEW n \in Names, StartRun(u, n) PROVE SharingTypes'
  <2>1. [state |-> "running", name |-> n, depth |-> 0] \in Runs
    BY DEF Runs
  <2> QED
    BY <1>1, <2>1 DEF StartRun, SharingTypes
<1>2. CASE Lookup(u)
  <2> DEFINE found == Candidates(u, run[u].name)
             R == [state : {"running", "done", "error"}, name : Names, depth : Nat]
             next(r, s) == IF s.calls = "none" THEN [r EXCEPT !.state = "done"]
                           ELSE [r EXCEPT !.name = s.calls, !.depth = r.depth + 1]
  <2>1. run[u].state = "running" /\ UNCHANGED <<searches, dashboards, page, request, rows, requests>>
    BY <1>2 DEF Lookup
  <2>2. run[u] \in R
    BY <2>1 DEF SharingTypes, Runs, NoRun
  <2>3. found \subseteq SearchRow
    BY DEF Candidates, SharingTypes
  <2>4. \/ run' = [run EXCEPT ![u] = [run[u] EXCEPT !.state = "error"]]
        \/ \E s \in found : run' = [run EXCEPT ![u] = next(run[u], s)]
    BY <1>2, Zenon DEF Lookup
  <2>5. \A r \in R : [r EXCEPT !.state = "error"] \in R
    OBVIOUS
  <2>6. ASSUME NEW s \in found, NEW r \in R PROVE next(r, s) \in R
    <3>1. r.depth + 1 \in Nat
      BY <2>3
    <3>2. s.calls # "none" => s.calls \in Names
      BY <2>3 DEF SearchRow
    <3> QED
      BY <3>1, <3>2
  <2>7. R \subseteq Runs
    BY DEF Runs
  <2> HIDE DEF R, found, next
  <2>8. \E r \in R : run' = [run EXCEPT ![u] = r]
    BY <2>2, <2>4, <2>5, <2>6
  <2> QED
    BY <2>1, <2>7, <2>8 DEF SharingTypes
<1> QED
  BY <1>1, <1>2

LEMMA OtherSearchTypes ==
  ASSUME SharingTypes, NEW u \in Users,
         \/ \E s \in searches : UpdateSearch(u, s) \/ DeleteSearch(u, s)
         \/ \E with \in SUBSET (Users \ {u}) : ShareSearch(u, with)
  PROVE  SharingTypes'
<1>1. ASSUME NEW s \in searches, UpdateSearch(u, s) PROVE SharingTypes'
  <2>1. [does |-> "search", row |-> s] \in Requests
    BY DEF Requests, SharingTypes
  <2> QED
    BY <1>1, <2>1, BeginTyped DEF UpdateSearch, SharingTypes
<1>2. ASSUME NEW s \in searches, DeleteSearch(u, s) PROVE SharingTypes'
  BY <1>2 DEF DeleteSearch, SharingTypes
<1>3. ASSUME NEW with \in SUBSET (Users \ {u}), ShareSearch(u, with) PROVE SharingTypes'
  <2>1. \A s \in SearchRow : [s EXCEPT !.shared = with] \in SearchRow
    BY DEF SearchRow
  <2>2. searches' \subseteq SearchRow
    BY <1>3, <2>1 DEF ShareSearch, SharingTypes
  <2> QED
    BY <1>3, <2>2, EndsTyped DEF ShareSearch, SharingTypes
<1> QED
  BY <1>1, <1>2, <1>3

LEMMA DashboardTypes ==
  ASSUME SharingTypes, NEW u \in Users,
         \/ \E b \in BOOLEAN : CreateDashboard(u, b) \/ SaveForm(u, b)
         \/ \E d \in dashboards : OpenForm(u, d) \/ DeleteDashboard(u, d) \/ (\E t \in {0, 15} : View(u, d, t))
         \/ SubmitForm(u) \/ ApplyRefresh(u)
  PROVE  SharingTypes'
<1>1. ASSUME NEW b \in BOOLEAN, CreateDashboard(u, b) PROVE SharingTypes'
  <2>1. [id |-> rows', owner |-> u, shared |-> b, edit |-> rows', refresh |-> 0] \in DashboardRow
    BY <1>1 DEF CreateDashboard, SharingTypes, DashboardRow
  <2> QED
    BY <1>1, <2>1 DEF CreateDashboard, SharingTypes
<1>2. ASSUME NEW b \in BOOLEAN, SaveForm(u, b) PROVE SharingTypes'
  <2>1. request[u].row \in DashboardRow
    BY <1>2, RequestKinds DEF SaveForm, SharingTypes
  <2>2. MaxSaved + requests \in Nat
    BY SharingAssumption DEF SharingTypes
  <2>3. [request[u].row EXCEPT !.shared = b, !.edit = MaxSaved + requests] \in DashboardRow
    BY <2>1, <2>2 DEF DashboardRow
  <2>4. dashboards' \subseteq DashboardRow
    BY <1>2, <2>3 DEF SaveForm, Put, SharingTypes
  <2> QED
    BY <1>2, <2>4, EndsTyped DEF SaveForm, SharingTypes
<1>3. ASSUME NEW d \in dashboards, OpenForm(u, d) \/ DeleteDashboard(u, d) PROVE SharingTypes'
  BY <1>3 DEF OpenForm, DeleteDashboard, SharingTypes
<1>4. ASSUME NEW d \in dashboards, NEW t \in {0, 15}, View(u, d, t) PROVE SharingTypes'
  <2>1. [does |-> "view", row |-> d, seconds |-> t] \in Requests
    BY DEF Requests, SharingTypes
  <2> QED
    BY <1>4, <2>1, BeginTyped DEF View, SharingTypes
<1>5. CASE SubmitForm(u)
  <2>1. PICK d \in page[u] : Begin(u, [does |-> "edit", row |-> d])
    BY <1>5 DEF SubmitForm
  <2>2. [does |-> "edit", row |-> d] \in Requests
    BY DEF Requests, SharingTypes
  <2> QED
    BY <1>5, <2>1, <2>2, BeginTyped DEF SubmitForm, SharingTypes
<1>6. CASE ApplyRefresh(u)
  <2>1. request[u].row \in DashboardRow /\ request[u].seconds \in Nat
    BY <1>6, RequestKinds DEF ApplyRefresh, SharingTypes
  <2>2. \A r \in DashboardRow :
          [r EXCEPT !.edit = request[u].row.edit, !.refresh = request[u].seconds] \in DashboardRow
    BY <2>1 DEF DashboardRow
  <2>3. dashboards' \subseteq DashboardRow
    BY <1>6, <2>2 DEF ApplyRefresh, SharingTypes
  <2> QED
    BY <1>6, <2>3, EndsTyped DEF ApplyRefresh, SharingTypes
<1> QED
  BY <1>1, <1>2, <1>3, <1>4, <1>5, <1>6

LEMMA SharingStepTypes == SharingTypes /\ [SharingNext]_sharingVars => SharingTypes'
<1> SUFFICES ASSUME SharingTypes, [SharingNext]_sharingVars PROVE SharingTypes'
  OBVIOUS
<1>1. CASE UNCHANGED sharingVars
  BY <1>1 DEF sharingVars, SharingTypes
<1> QED
  BY <1>1, SearchTypes, RunTypes, OtherSearchTypes, DashboardTypes, Zenon DEF SharingNext

-----------------------------------------------------------------------------
(* Owners *)

Owned(table, v) == {r \in table : r.owner = v}

\* A row of a step of u is one that was known, or u's new one.
Derived(u, r) ==
  \/ \E s \in Known : s.id = r.id /\ s.owner = r.owner
  \/ rows' = rows + 1 /\ r.id = rows' /\ r.owner = u

\* A step of u changes no row of others, and what u has read to change is u's.
ActsAlone(u) ==
  /\ actor' = u /\ rows' \in {rows, rows + 1}
  /\ \A r \in searches' \cup dashboards' : Derived(u, r)
  /\ \A v \in Users \ {u} :
       /\ page'[v] = page[v] /\ request'[v] = request[v]
       /\ Owned(searches', v) = Owned(searches, v) /\ Owned(dashboards', v) = Owned(dashboards, v)
  /\ \A d \in page'[u] : d.owner = u /\ Derived(u, d)
  /\ request'[u].does # "nothing" => Derived(u, request'[u].row)
  /\ request'[u].does \in {"search", "share", "edit"} => request'[u].row.owner = u

LEMMA KnownDerived == \A u, r : r \in Known => Derived(u, r)
BY DEF Derived

\* What changes neither pages nor requests.
LEMMA TablesOnly ==
  ASSUME SharingTypes, OwnRequests, OneOwner, NEW u \in Users, actor' = u, UNCHANGED <<page, request>>,
         rows' \in {rows, rows + 1},
         \A r \in searches' \cup dashboards' : Derived(u, r),
         \A v \in Users \ {u} :
           Owned(searches', v) = Owned(searches, v) /\ Owned(dashboards', v) = Owned(dashboards, v)
  PROVE  ActsAlone(u)
<1> QED
  BY KnownParts, KnownDerived DEF ActsAlone, OwnRequests

\* What leaves the tables alone.
LEMMA RequestOnly ==
  ASSUME SharingTypes, OwnRequests, OneOwner, NEW u \in Users, actor' = u,
         UNCHANGED <<searches, dashboards, rows>>,
         \A v \in Users \ {u} : page'[v] = page[v] /\ request'[v] = request[v],
         \A d \in page'[u] : d \in Known /\ d.owner = u,
         request'[u].does # "nothing" => request'[u].row \in Known,
         request'[u].does \in {"search", "share", "edit"} => request'[u].row.owner = u
  PROVE  ActsAlone(u)
<1>1. \A r \in searches \cup dashboards : r \in Known
  BY DEF Known
<1> QED
  BY <1>1, KnownDerived DEF ActsAlone

\* Rows of one owner are written back.
LEMMA PutOwned ==
  ASSUME NEW table, NEW row, NEW v, row.owner # v, \A r \in table : r.id = row.id => r.owner # v
  PROVE  Owned(Put(table, row), v) = Owned(table, v)
BY DEF Owned, Put

LEMMA RunAlone ==
  ASSUME SharingTypes, OwnRequests, OneOwner, NEW u \in Users, Lookup(u) \/ \E n \in Names : StartRun(u, n)
  PROVE  ActsAlone(u)
<1>1. UNCHANGED <<searches, dashboards, page, request, rows>> /\ actor' = u
  BY DEF Lookup, StartRun
<1>2. \A r \in searches' \cup dashboards' : Derived(u, r)
  BY <1>1, KnownDerived DEF Known
<1> QED
  BY <1>1, <1>2, TablesOnly

LEMMA CreateAlone ==
  ASSUME SharingTypes, OwnRequests, OneOwner, NEW u \in Users, NEW n \in Names, NEW c \in Names \cup {"none"},
         NEW p \in BOOLEAN, CreateSearch(u, n, c, p)
  PROVE  ActsAlone(u)
<1> DEFINE s == [id |-> rows', owner |-> u, name |-> n, calls |-> c, shared |-> {}, public |-> p]
<1>1. /\ rows' = rows + 1 /\ searches' = searches \cup {s} /\ actor' = u
      /\ request' = [request EXCEPT ![u] = [does |-> "share", row |-> s]]
      /\ dashboards' = dashboards /\ page' = page
  BY DEF CreateSearch, Begin
<1>2. s.id = rows' /\ s.owner = u
  OBVIOUS
<1> HIDE DEF s
<1>3. Derived(u, s)
  BY <1>1, <1>2 DEF Derived
<1>4. request'[u].row = s /\ \A v \in Users \ {u} : request'[v] = request[v]
  BY <1>1 DEF SharingTypes
<1>5. \A v \in Users \ {u} : Owned(searches', v) = Owned(searches, v)
  BY <1>1, <1>2 DEF Owned
<1>6. \A r \in searches' \cup dashboards' : Derived(u, r)
  BY <1>1, <1>3, KnownParts, KnownDerived
<1>7. \A d \in page'[u] : d.owner = u /\ Derived(u, d)
  BY <1>1, KnownParts, KnownDerived DEF OwnRequests
<1> QED
  BY <1>1, <1>2, <1>3, <1>4, <1>5, <1>6, <1>7 DEF ActsAlone

LEMMA SaveSearchAlone ==
  ASSUME SharingTypes, OwnRequests, OneOwner, NEW u \in Users, NEW n \in Names, NEW c \in Names \cup {"none"},
         NEW p \in BOOLEAN, SaveSearch(u, n, c, p)
  PROVE  ActsAlone(u)
<1> DEFINE s == [request[u].row EXCEPT !.name = n, !.calls = c, !.public = p]
           now == {r.shared : r \in {q \in searches : q.id = s.id}}
           w == [s EXCEPT !.shared = UNION now]
<1>1. /\ request[u].does = "search" /\ searches' = Put(searches, w) /\ actor' = u
      /\ request' = [request EXCEPT ![u] = [does |-> "share", row |-> s]]
      /\ UNCHANGED <<dashboards, page, rows>>
  BY DEF SaveSearch
<1>2. request[u].row \in SearchRow /\ request[u].row.owner = u /\ request[u].row \in Known
  BY <1>1, RequestKinds, KnownParts DEF SharingTypes, OwnRequests
<1>3. s.id = request[u].row.id /\ s.owner = u
  BY <1>2 DEF SearchRow
<1>4. s \in SearchRow
  BY <1>2 DEF SearchRow
<1> HIDE DEF s, now
<1>5. w.id = request[u].row.id /\ w.owner = u
  BY <1>3, <1>4 DEF SearchRow
<1> HIDE DEF w
<1>6. Derived(u, s) /\ Derived(u, w)
  BY <1>2, <1>3, <1>5 DEF Derived
<1>7. \A r \in searches : r.id = w.id => r.owner = u
  BY <1>2, <1>5, KnownParts DEF OneOwner
<1>8. \A v \in Users \ {u} : Owned(searches', v) = Owned(searches, v)
  BY <1>1, <1>5, <1>7, PutOwned
<1>9. \A r \in searches' \cup dashboards' : Derived(u, r)
  BY <1>1, <1>6, KnownParts, KnownDerived DEF Put
<1>10. /\ request'[u].row = s /\ \A v \in Users \ {u} : request'[v] = request[v]
       /\ \A d \in page'[u] : d.owner = u /\ Derived(u, d)
  BY <1>1, KnownParts, KnownDerived DEF OwnRequests, SharingTypes
<1> QED
  BY <1>1, <1>3, <1>6, <1>8, <1>9, <1>10 DEF ActsAlone

LEMMA EndsAlone ==
  ASSUME SharingTypes, OwnRequests, OneOwner, NEW u \in Users, Ends(u), UNCHANGED <<page, rows>>,
         \A r \in searches' \cup dashboards' : Derived(u, r),
         \A v \in Users \ {u} :
           Owned(searches', v) = Owned(searches, v) /\ Owned(dashboards', v) = Owned(dashboards, v)
  PROVE  ActsAlone(u)
<1>1. request'[u] = Idle /\ actor' = u /\ \A v \in Users \ {u} : request'[v] = request[v]
  BY DEF Ends, SharingTypes
<1>2. Idle.does = "nothing"
  BY DEF Idle
<1>3. \A d \in page'[u] : d.owner = u /\ Derived(u, d)
  BY KnownParts, KnownDerived DEF OwnRequests
<1> QED
  BY <1>1, <1>2, <1>3 DEF ActsAlone

\* A table in which some rows of u get other values.
LEMMA SomeChanged ==
  ASSUME NEW u \in Users, NEW table, NEW after,
         \A q \in after : \E r \in table : q = r \/ (q.id = r.id /\ q.owner = u /\ r.owner = u),
         \A r \in table : r.owner # u => r \in after,
         \A r \in table : r \in Known
  PROVE  /\ \A r \in after : Derived(u, r)
         /\ \A v \in Users \ {u} : Owned(after, v) = Owned(table, v)
<1>1. \A r \in after : Derived(u, r)
  BY DEF Derived
<1>2. \A v \in Users \ {u} : Owned(after, v) = Owned(table, v)
  BY DEF Owned
<1> QED
  BY <1>1, <1>2

LEMMA OtherSearchesAlone ==
  ASSUME SharingTypes, OwnRequests, OneOwner, NEW u \in Users,
         \/ \E s \in searches : UpdateSearch(u, s) \/ DeleteSearch(u, s)
         \/ \E with \in SUBSET (Users \ {u}) : ShareSearch(u, with)
  PROVE  ActsAlone(u)
<1>1. ASSUME NEW s \in searches, UpdateSearch(u, s) PROVE ActsAlone(u)
  <2>1. /\ s.owner = u /\ actor' = u /\ request' = [request EXCEPT ![u] = [does |-> "search", row |-> s]]
        /\ UNCHANGED <<searches, dashboards, page, rows>>
    BY <1>1 DEF UpdateSearch, Begin
  <2>2. request'[u].row = s /\ \A v \in Users \ {u} : request'[v] = request[v]
    BY <2>1 DEF SharingTypes
  <2>3. \A d \in page'[u] : d \in Known /\ d.owner = u
    BY <2>1, KnownParts DEF OwnRequests
  <2> QED
    BY <2>1, <2>2, <2>3, KnownParts, RequestOnly
<1>2. ASSUME NEW s \in searches, DeleteSearch(u, s) PROVE ActsAlone(u)
  <2>1. s.owner = u /\ actor' = u /\ searches' = searches \ {s}
        /\ UNCHANGED <<dashboards, page, request, rows>>
    BY <1>2 DEF DeleteSearch
  <2>2. \A r \in searches' \cup dashboards' : Derived(u, r)
    BY <2>1, KnownParts, KnownDerived
  <2>3. \A v \in Users \ {u} : Owned(searches', v) = Owned(searches, v)
    BY <2>1 DEF Owned
  <2> QED
    BY <2>1, <2>2, <2>3, TablesOnly
<1>3. ASSUME NEW with \in SUBSET (Users \ {u}), ShareSearch(u, with) PROVE ActsAlone(u)
  <2> DEFINE new(r) == [r EXCEPT !.shared = with]
  <2>1. /\ request[u].does = "share" /\ Ends(u) /\ UNCHANGED <<dashboards, page, rows>>
        /\ searches' = {IF s.id = request[u].row.id THEN new(s) ELSE s : s \in searches}
    BY <1>3 DEF ShareSearch
  <2>2. request[u].row.owner = u /\ request[u].row \in Known
    BY <2>1, KnownParts DEF OwnRequests
  <2>3. \A r \in searches : r.id = request[u].row.id => r.owner = u
    BY <2>2, KnownParts DEF OneOwner
  <2>4. \A r \in searches : new(r).id = r.id /\ new(r).owner = r.owner
    BY DEF SharingTypes, SearchRow
  <2> HIDE DEF new
  <2>5. /\ \A q \in searches' : \E r \in searches : q = r \/ (q.id = r.id /\ q.owner = u /\ r.owner = u)
        /\ \A r \in searches : r.owner # u => r \in searches'
    BY <2>1, <2>3, <2>4
  <2>6. /\ \A r \in searches' : Derived(u, r)
        /\ \A v \in Users \ {u} : Owned(searches', v) = Owned(searches, v)
    BY <2>5, SomeChanged, KnownParts
  <2> QED
    BY <2>1, <2>6, EndsAlone, KnownParts, KnownDerived
<1> QED
  BY <1>1, <1>2, <1>3

LEMMA DashboardsAlone ==
  ASSUME SharingTypes, OwnRequests, OneOwner, NEW u \in Users,
         \/ \E b \in BOOLEAN : CreateDashboard(u, b) \/ SaveForm(u, b)
         \/ \E d \in dashboards : OpenForm(u, d) \/ DeleteDashboard(u, d) \/ (\E t \in {0, 15} : View(u, d, t))
         \/ SubmitForm(u) \/ ApplyRefresh(u)
  PROVE  ActsAlone(u)
<1>1. ASSUME NEW b \in BOOLEAN, CreateDashboard(u, b) PROVE ActsAlone(u)
  <2> DEFINE d == [id |-> rows', owner |-> u, shared |-> b, edit |-> rows', refresh |-> 0]
  <2>1. rows' = rows + 1 /\ actor' = u /\ dashboards' = dashboards \cup {d}
        /\ UNCHANGED <<searches, page, request>>
    BY <1>1 DEF CreateDashboard
  <2>2. d.id = rows' /\ d.owner = u
    OBVIOUS
  <2> HIDE DEF d
  <2>3. Derived(u, d)
    BY <2>1, <2>2 DEF Derived
  <2>4. \A r \in searches' \cup dashboards' : Derived(u, r)
    BY <2>1, <2>3, KnownParts, KnownDerived
  <2>5. \A v \in Users \ {u} : Owned(dashboards', v) = Owned(dashboards, v)
    BY <2>1, <2>2 DEF Owned
  <2> QED
    BY <2>1, <2>4, <2>5, TablesOnly
<1>2. ASSUME NEW b \in BOOLEAN, SaveForm(u, b) PROVE ActsAlone(u)
  <2> DEFINE w == [request[u].row EXCEPT !.shared = b, !.edit = MaxSaved + requests]
  <2>1. /\ request[u].does = "edit" /\ Ends(u) /\ dashboards' = Put(dashboards, w)
        /\ UNCHANGED <<searches, page, rows>>
    BY <1>2 DEF SaveForm
  <2>2. request[u].row \in DashboardRow /\ request[u].row.owner = u /\ request[u].row \in Known
    BY <2>1, RequestKinds, KnownParts DEF SharingTypes, OwnRequests
  <2>3. w.id = request[u].row.id /\ w.owner = u
    BY <2>2 DEF DashboardRow
  <2> HIDE DEF w
  <2>4. Derived(u, w)
    BY <2>2, <2>3 DEF Derived
  <2>5. \A r \in dashboards : r.id = w.id => r.owner = u
    BY <2>2, <2>3, KnownParts DEF OneOwner
  <2>6. \A v \in Users \ {u} : Owned(dashboards', v) = Owned(dashboards, v)
    BY <2>1, <2>3, <2>5, PutOwned
  <2>7. \A r \in searches' \cup dashboards' : Derived(u, r)
    BY <2>1, <2>4, KnownParts, KnownDerived DEF Put
  <2> QED
    BY <2>1, <2>6, <2>7, EndsAlone
<1>3. ASSUME NEW d \in dashboards, OpenForm(u, d) PROVE ActsAlone(u)
  <2>1. d.owner = u /\ page' = [page EXCEPT ![u] = {d}] /\ actor' = u
        /\ UNCHANGED <<searches, dashboards, request, rows>>
    BY <1>3 DEF OpenForm
  <2>2. page'[u] = {d} /\ \A v \in Users \ {u} : page'[v] = page[v]
    BY <2>1 DEF SharingTypes
  <2>3. request[u].does # "nothing" => request[u].row \in Known
    BY KnownParts
  <2> QED
    BY <2>1, <2>2, <2>3, KnownParts, RequestOnly DEF OwnRequests
<1>4. ASSUME NEW d \in dashboards, DeleteDashboard(u, d) PROVE ActsAlone(u)
  <2>1. d.owner = u /\ actor' = u /\ dashboards' = dashboards \ {d}
        /\ UNCHANGED <<searches, page, request, rows>>
    BY <1>4 DEF DeleteDashboard
  <2>2. \A r \in searches' \cup dashboards' : Derived(u, r)
    BY <2>1, KnownParts, KnownDerived
  <2>3. \A v \in Users \ {u} : Owned(dashboards', v) = Owned(dashboards, v)
    BY <2>1 DEF Owned
  <2> QED
    BY <2>1, <2>2, <2>3, TablesOnly
<1>5. ASSUME NEW d \in dashboards, NEW t \in {0, 15}, View(u, d, t) PROVE ActsAlone(u)
  <2>1. /\ actor' = u /\ request' = [request EXCEPT ![u] = [does |-> "view", row |-> d, seconds |-> t]]
        /\ UNCHANGED <<searches, dashboards, page, rows>>
    BY <1>5 DEF View, Begin
  <2>2. request'[u].row = d /\ request'[u].does = "view" /\ \A v \in Users \ {u} : request'[v] = request[v]
    BY <2>1 DEF SharingTypes
  <2>3. \A e \in page'[u] : e \in Known /\ e.owner = u
    BY <2>1, KnownParts DEF OwnRequests
  <2> QED
    BY <2>1, <2>2, <2>3, KnownParts, RequestOnly
<1>6. CASE SubmitForm(u)
  <2>1. PICK d \in page[u] :
          actor' = u /\ request' = [request EXCEPT ![u] = [does |-> "edit", row |-> d]]
    BY <1>6 DEF SubmitForm, Begin
  <2>2. page' = [page EXCEPT ![u] = {}] /\ UNCHANGED <<searches, dashboards, rows>>
    BY <1>6 DEF SubmitForm
  <2>3. /\ request'[u].row = d /\ \A v \in Users \ {u} : request'[v] = request[v]
        /\ page'[u] = {} /\ \A v \in Users \ {u} : page'[v] = page[v]
    BY <2>1, <2>2 DEF SharingTypes
  <2>4. d.owner = u /\ d \in Known
    BY KnownParts DEF OwnRequests
  <2> QED
    BY <2>1, <2>2, <2>3, <2>4, RequestOnly
<1>7. CASE ApplyRefresh(u)
  <2> DEFINE d == request[u].row
             new(r) == [r EXCEPT !.edit = d.edit, !.refresh = request[u].seconds]
             writes == KeepsInterval(u, d) /\ d.refresh # request[u].seconds
  <2>1. /\ request[u].does = "view" /\ Ends(u) /\ UNCHANGED <<searches, page, rows>>
        /\ dashboards' = {IF writes /\ r.id = d.id THEN new(r) ELSE r : r \in dashboards}
    BY <1>7 DEF ApplyRefresh
  <2>2. d \in Known
    BY <2>1, KnownParts
  <2>3. \A r \in dashboards : (writes /\ r.id = d.id) => r.owner = u
    BY <2>2, KnownParts DEF OneOwner, KeepsInterval
  <2>4. \A r \in dashboards : new(r).id = r.id /\ new(r).owner = r.owner
    BY DEF SharingTypes, DashboardRow
  <2> HIDE DEF new, writes, d
  <2>5. /\ \A q \in dashboards' : \E r \in dashboards : q = r \/ (q.id = r.id /\ q.owner = u /\ r.owner = u)
        /\ \A r \in dashboards : r.owner # u => r \in dashboards'
    BY <2>1, <2>3, <2>4
  <2>6. /\ \A r \in dashboards' : Derived(u, r)
        /\ \A v \in Users \ {u} : Owned(dashboards', v) = Owned(dashboards, v)
    BY <2>5, SomeChanged, KnownParts
  <2> QED
    BY <2>1, <2>6, EndsAlone, KnownParts, KnownDerived
<1> QED
  BY <1>1, <1>2, <1>3, <1>4, <1>5, <1>6, <1>7

LEMMA StepAlone ==
  ASSUME SharingTypes, OwnRequests, OneOwner, SharingNext
  PROVE  \E u \in Users : ActsAlone(u)
BY CreateAlone, SaveSearchAlone, OtherSearchesAlone, RunAlone, DashboardsAlone, Zenon DEF SharingNext

LEMMA OwnersStep ==
  SharingTypes /\ OwnRequests /\ OneOwner /\ [SharingNext]_sharingVars => OwnRequests' /\ OneOwner'
<1> SUFFICES ASSUME SharingTypes, OwnRequests, OneOwner, [SharingNext]_sharingVars
             PROVE  OwnRequests' /\ OneOwner'
  OBVIOUS
<1>1. CASE UNCHANGED sharingVars
  BY <1>1 DEF sharingVars, OwnRequests, OneOwner, Known, Opened, Held
<1>2. ASSUME NEW u \in Users, ActsAlone(u) PROVE OwnRequests' /\ OneOwner'
  <2>1. OwnRequests'
    BY <1>2 DEF ActsAlone, OwnRequests
  <2>2. ASSUME NEW r \in Opened' PROVE Derived(u, r)
    <3>1. PICK v \in Users : r \in page'[v]
      BY DEF Opened
    <3>2. CASE v = u
      BY <1>2, <3>1, <3>2 DEF ActsAlone
    <3>3. CASE v # u
      BY <1>2, <3>1, <3>3, KnownParts, KnownDerived DEF ActsAlone
    <3> QED
      BY <3>2, <3>3
  <2>3. ASSUME NEW r \in Held' PROVE Derived(u, r)
    <3>1. PICK v \in Users : request'[v].does # "nothing" /\ r = request'[v].row
      BY DEF Held
    <3>2. CASE v = u
      BY <1>2, <3>1, <3>2 DEF ActsAlone
    <3>3. CASE v # u
      BY <1>2, <3>1, <3>3, KnownParts, KnownDerived DEF ActsAlone
    <3> QED
      BY <3>2, <3>3
  <2>4. \A r \in Known' : Derived(u, r)
    BY <1>2, <2>2, <2>3 DEF ActsAlone, Known
  <2>5. rows \in Nat /\ rows' \in {rows, rows + 1}
    BY <1>2 DEF ActsAlone, SharingTypes
  <2>6. ASSUME NEW r \in Known' PROVE r.id <= rows'
    <3>1. CASE rows' = rows + 1 /\ r.id = rows'
      BY <2>5, <3>1
    <3>2. ASSUME NEW s \in Known, s.id = r.id PROVE r.id <= rows'
      <4>1. s.id <= rows /\ s.id \in Nat
        <5>1. \A d \in Opened : d.id \in Nat
          BY DEF Opened, SharingTypes, DashboardRow
        <5>2. \A d \in Held : d.id \in Nat
          <6> SUFFICES ASSUME NEW v \in Users, request[v].does # "nothing" PROVE request[v].row.id \in Nat
            BY DEF Held
          <6>1. request[v] \in Requests
            BY DEF SharingTypes
          <6> QED
            BY <6>1 DEF Requests, Idle, SearchRow, DashboardRow
        <5> QED
          BY <5>1, <5>2 DEF OneOwner, Known, SharingTypes, SearchRow, DashboardRow
      <4> QED
        BY <2>5, <3>2, <4>1
    <3> QED
      BY <2>4, <3>1, <3>2 DEF Derived
  <2>7. ASSUME NEW r \in Known', NEW s \in Known', r.id = s.id PROVE r.owner = s.owner
    <3>1. \A k \in Known : k.id # rows + 1
      BY <2>5 DEF OneOwner
    <3> QED
      BY <2>4, <2>7, <3>1 DEF Derived, OneOwner
  <2> QED
    BY <2>1, <2>6, <2>7 DEF OneOwner
<1> QED
  BY <1>1, <1>2, StepAlone

LEMMA InitSharing == SharingInit => SharingTypes /\ OwnRequests /\ OneOwner
<1> SUFFICES ASSUME SharingInit PROVE SharingTypes /\ OwnRequests /\ OneOwner
  OBVIOUS
<1>1. SharingTypes
  BY DEF SharingInit, SharingTypes, Requests, Runs
<1>2. \A u \in Users : page[u] = {} /\ request[u].does = "nothing"
  BY DEF SharingInit, Idle
<1>3. OwnRequests
  BY <1>2 DEF OwnRequests
<1>4. Opened = {} /\ Held = {}
  BY <1>2 DEF Opened, Held
<1> QED
  BY <1>1, <1>3, <1>4 DEF SharingInit, OneOwner, Known

\* The inductive invariant of saved searches and dashboards: whatever a request
\* has read, the row belongs to who makes the request, and rows never change
\* hands.
THEOREM SharingInvariant == SharingSpec => [](SharingTypes /\ OwnRequests /\ OneOwner)
BY InitSharing, SharingStepTypes, OwnersStep, PTL DEF SharingSpec

\* The searches a name stands for: its user's own ones, if there are any.
LEMMA OwnCandidates ==
  ASSUME NEW u, NEW n, \E s \in searches : s.owner = u /\ s.name = n
  PROVE  Candidates(u, n) = {s \in searches : s.name = n /\ s.owner = u}
<1>1. {s \in {q \in searches : q.name = n /\ Visible(q, u)} : s.owner = u}
        = {s \in searches : s.name = n /\ s.owner = u}
  BY DEF Visible
<1> QED
  BY <1>1 DEF Candidates

\* Nobody changes a dashboard of another user, nor what a name stands for that
\* its owner uses, whatever was read before a change or a deletion
\* (src/search2/views.py, src/dashboarding/views.py).
THEOREM NobodyElses == SharingSpec => OwnersAlone
<1>1. ASSUME SharingTypes, OwnRequests, OneOwner, [SharingNext]_sharingVars
      PROVE  [\A u \in Users : u # actor' =>
                /\ {d \in dashboards' : d.owner = u} = {d \in dashboards : d.owner = u}
                /\ \A n \in Names : (\E s \in searches : s.owner = u /\ s.name = n)
                                      => Candidates(u, n)' = Candidates(u, n)]_sharingVars
  <2> SUFFICES ASSUME SharingNext, NEW u \in Users, u # actor'
               PROVE  /\ {d \in dashboards' : d.owner = u} = {d \in dashboards : d.owner = u}
                      /\ \A n \in Names : (\E s \in searches : s.owner = u /\ s.name = n)
                                            => Candidates(u, n)' = Candidates(u, n)
    BY <1>1
  <2>1. PICK v \in Users : ActsAlone(v)
    BY <1>1, StepAlone
  <2>2. Owned(searches', u) = Owned(searches, u) /\ Owned(dashboards', u) = Owned(dashboards, u)
    BY <2>1 DEF ActsAlone
  <2>3. ASSUME NEW n \in Names, \E s \in searches : s.owner = u /\ s.name = n
        PROVE  Candidates(u, n)' = Candidates(u, n)
    <3>1. {s \in searches' : s.name = n /\ s.owner = u} = {s \in searches : s.name = n /\ s.owner = u}
      BY <2>2 DEF Owned
    <3>2. \E s \in searches' : s.owner = u /\ s.name = n
      BY <2>2, <2>3 DEF Owned
    <3>3. Candidates(u, n)' = {s \in searches' : s.name = n /\ s.owner = u}
      <4>1. {s \in {q \in searches' : q.name = n /\ Visible(q, u)} : s.owner = u}
              = {s \in searches' : s.name = n /\ s.owner = u}
        BY DEF Visible
      <4> QED
        BY <3>2, <4>1 DEF Candidates
    <3> QED
      BY <2>3, <3>1, <3>3, OwnCandidates
  <2> QED
    BY <2>2, <2>3 DEF Owned
<1> QED
  BY <1>1, SharingInvariant, PTL DEF SharingSpec, OwnersAlone

-----------------------------------------------------------------------------
(* Accounts and logins *)

Account == [id : Ids, username : Usernames, email : People \cup {"nobody"}, staff : BOOLEAN,
            superuser : BOOLEAN, active : BOOLEAN]
Claims == [name : Usernames, roles : SUBSET Roles]
Syncs == [at : {"groups", "save"}, claims : Claims, row : Account]
LoginStates == {NoLogin} \cup [at : {"create"}, claims : Claims] \cup Syncs

AccountTypes ==
  /\ accounts \subseteq Account
  /\ groups \subseteq Groups /\ member \in [Ids -> SUBSET Groups]
  /\ realm \in [People -> Claims]
  /\ login \in [People -> LoginStates]
  /\ synced \in [Ids -> SUBSET (SUBSET Roles)]
  /\ made \in 0..MaxAccounts

Syncing(p) == login[p].at \in {"groups", "save"}

\* Accounts are numbered as they are made, and no two have one number.  The
\* first of them has brought the default group.
Numbered ==
  /\ \A a \in accounts : a.id <= made
  /\ \A a, b \in accounts : a.id = b.id => a = b
  /\ \A p \in People : Syncing(p) => login[p].row.id <= made
  /\ \A i \in Ids : i > made => synced[i] = {}
  /\ Groups \ {Registered} \subseteq groups
  /\ made > 0 => groups = Groups

\* What a login nobody has disturbed works on is there, with the groups it set.
LoginOk(p) ==
  (Syncing(p) /\ p \notin disturbed) =>
    /\ Exists(login[p].row.id)
    /\ login[p].at = "save" => member[login[p].row.id] = Mapped(login[p].claims.roles)
Undisturbed == \A p \in People : LoginOk(p)

LEMMA LoginKinds ==
  ASSUME NEW l \in LoginStates
  PROVE  /\ l.at = "create" => l.claims \in Claims
         /\ l.at \in {"groups", "save"} => l \in Syncs /\ l.claims \in Claims /\ l.row \in Account
<1>1. CASE l = NoLogin
  BY <1>1 DEF NoLogin
<1>2. CASE l \in [at : {"create"}, claims : Claims]
  BY <1>2
<1>3. CASE l \in Syncs
  BY <1>3 DEF Syncs
<1> QED
  BY <1>1, <1>2, <1>3 DEF LoginStates

LEMMA RegistersTyped ==
  ASSUME AccountTypes, NEW i \in Ids, Registers(i)
  PROVE  member' \in [Ids -> SUBSET Groups] /\ groups' = groups \cup {Registered, "Agent"} /\ groups' \subseteq Groups
BY DEF AccountTypes, Registers, Groups

LEMMA NewAccountTyped ==
  ASSUME AccountTypes, NEW name \in Usernames, NEW email \in People \cup {"nobody"}, NewAccount(name, email)
  PROVE  /\ accounts' \subseteq Account /\ member' \in [Ids -> SUBSET Groups] /\ groups' \subseteq Groups
         /\ made' = made + 1 /\ made' \in Ids /\ made' \in 0..MaxAccounts
<1> DEFINE new == [id |-> made', username |-> name, email |-> email, staff |-> FALSE,
                   superuser |-> FALSE, active |-> TRUE]
<1>1. made < MaxAccounts /\ made' = made + 1 /\ accounts' = accounts \cup {new} /\ Registers(made')
  BY DEF NewAccount
<1>2. made' \in Ids /\ made' \in 0..MaxAccounts
  BY <1>1, AccountsAssumption DEF AccountTypes, Ids
<1>3. new \in Account
  BY <1>2 DEF Account
<1> HIDE DEF new
<1>4. accounts' \subseteq Account
  BY <1>1, <1>3 DEF AccountTypes
<1>5. member' \in [Ids -> SUBSET Groups] /\ groups' \subseteq Groups
  <2>1. PICK n \in Ids : n = made' /\ Registers(n)
    BY <1>1, <1>2
  <2> QED
    BY <2>1, RegistersTyped
<1> QED
  BY <1>1, <1>2, <1>4, <1>5

LEMMA MatchTypes == ASSUME AccountTypes, NEW p \in People, Match(p) PROVE AccountTypes'
<1> DEFINE found == Matching(realm[p], p)
           begun == IF found = {} THEN [at |-> "create", claims |-> realm[p]]
                    ELSE [at |-> "groups", claims |-> realm[p], row |-> CHOOSE a \in found : TRUE]
<1>1. /\ login' = IF Cardinality(found) > 1 THEN login ELSE [login EXCEPT ![p] = begun]
      /\ UNCHANGED <<accounts, groups, member, permissions, migrated, realm, synced, made, admin>>
  BY DEF Match
<1>2. found \subseteq Account
  BY DEF Matching, AccountTypes
<1>3. realm[p] \in Claims
  BY DEF AccountTypes
<1>4. begun \in LoginStates
  BY <1>2, <1>3 DEF LoginStates, Syncs
<1> HIDE DEF begun, found
<1> QED
  BY <1>1, <1>4 DEF AccountTypes

LEMMA CreateTypes == ASSUME AccountTypes, NEW p \in People, CreateAccount(p) PROVE AccountTypes'
<1> DEFINE name == login[p].claims.name
<1>1. login[p].at = "create" /\ UNCHANGED <<realm, synced>>
  BY DEF CreateAccount
<1>2. login[p].claims \in Claims /\ name \in Usernames
  BY <1>1, LoginKinds DEF AccountTypes, Claims
<1>3. CASE \E a \in accounts : a.username = name
  <2>1. login' = [login EXCEPT ![p] = NoLogin] /\ UNCHANGED <<accounts, groups, member, made>>
    BY <1>3 DEF CreateAccount
  <2> QED
    BY <1>1, <2>1 DEF AccountTypes, LoginStates
<1>4. CASE ~ \E a \in accounts : a.username = name
  <2> DEFINE row == CHOOSE a \in accounts' : a.id = made'
             claims == login[p].claims
  <2>1. NewAccount(name, p) /\ login' = [login EXCEPT ![p] = [at |-> "groups", claims |-> claims, row |-> row]]
    BY <1>4 DEF CreateAccount
  <2>2. accounts' \subseteq Account /\ made' \in Ids
    BY <1>2, <2>1, NewAccountTyped
  <2>3. \E a \in accounts' : a.id = made'
    <3> DEFINE new == [id |-> made', username |-> name, email |-> p, staff |-> FALSE,
                       superuser |-> FALSE, active |-> TRUE]
    <3>1. accounts' = accounts \cup {new}
      BY <2>1 DEF NewAccount
    <3>2. new.id = made'
      OBVIOUS
    <3> HIDE DEF new
    <3> QED
      BY <3>1, <3>2
  <2>4. row \in Account
    BY <2>2, <2>3
  <2> HIDE DEF row
  <2>5. [at |-> "groups", claims |-> claims, row |-> row] \in LoginStates
    BY <1>2, <2>4 DEF LoginStates, Syncs
  <2> HIDE DEF claims
  <2>6. login' \in [People -> LoginStates]
    BY <2>1, <2>5 DEF AccountTypes
  <2> QED
    BY <1>1, <1>2, <2>1, <2>6, NewAccountTyped DEF AccountTypes
<1> QED
  BY <1>3, <1>4

LEMMA MappedGroups == \A roles \in SUBSET Roles : Mapped(roles) \subseteq Groups
BY DEF Mapped, Groups

LEMMA SetGroupsTypes == ASSUME AccountTypes, NEW p \in People, SetGroups(p) PROVE AccountTypes'
<1> DEFINE i == login[p].row.id
           after == GroupsAfter(i, login[p].claims.roles)
<1>1. /\ login[p].at = "groups"
      /\ member' = [member EXCEPT ![i] = IF Exists(i) THEN after ELSE @]
      /\ login' = [login EXCEPT ![p] = IF Exists(i) \/ after = {} THEN [login[p] EXCEPT !.at = "save"] ELSE NoLogin]
      /\ synced' = [synced EXCEPT ![i] = {}]
      /\ UNCHANGED <<accounts, groups, realm, made>>
  BY DEF SetGroups
<1>2. login[p] \in Syncs
  BY <1>1, LoginKinds DEF AccountTypes
<1>3. [login[p] EXCEPT !.at = "save"] \in LoginStates /\ NoLogin \in LoginStates
  BY <1>2 DEF Syncs, LoginStates
<1>4. after \subseteq Groups
  BY DEF GroupsAfter, AccountTypes
<1> HIDE DEF i, after
<1>5. login' \in [People -> LoginStates]
  BY <1>1, <1>3 DEF AccountTypes
<1> QED
  BY <1>1, <1>4, <1>5 DEF AccountTypes

LEMMA SaveTypes == ASSUME AccountTypes, NEW p \in People, SaveAccount(p) PROVE AccountTypes'
<1> DEFINE row == login[p].row
           roles == login[p].claims.roles
           super == roles \cap SuperuserRoles # {}
           saved == [row EXCEPT !.superuser = super, !.staff = super \/ roles \cap StaffRoles # {}, !.email = p]
<1>1. login[p].at = "save" /\ login' = [login EXCEPT ![p] = NoLogin] /\ UNCHANGED <<realm, made>>
  BY DEF SaveAccount
<1>2. login[p].claims \in Claims /\ row \in Account
  BY <1>1, LoginKinds DEF AccountTypes
<1>3. roles \in SUBSET Roles /\ row.id \in Ids
  BY <1>2 DEF Claims, Account
<1>4. saved \in Account
  BY <1>2 DEF Account
<1>5. login' \in [People -> LoginStates]
  BY <1>1 DEF AccountTypes, LoginStates
<1>6. \/ UNCHANGED <<accounts, groups, member, synced>>
      \/ /\ accounts' = {a \in accounts : a.id # row.id} \cup {saved}
         /\ UNCHANGED <<groups, member>> \/ Registers(row.id)
         /\ synced' = [synced EXCEPT ![row.id] = IF p \in disturbed THEN {} ELSE {roles}]
  BY DEF SaveAccount
<1> HIDE DEF saved, row, roles
<1>7. accounts' \subseteq Account
  BY <1>4, <1>6 DEF AccountTypes
<1>8. member' \in [Ids -> SUBSET Groups] /\ groups' \subseteq Groups
  BY <1>3, <1>6, RegistersTyped DEF AccountTypes
<1>9. synced' \in [Ids -> SUBSET (SUBSET Roles)]
  BY <1>3, <1>6 DEF AccountTypes
<1> QED
  BY <1>1, <1>5, <1>7, <1>8, <1>9 DEF AccountTypes

LEMMA RealmTypes == ASSUME AccountTypes, NEW p \in People, RealmChanges(p) PROVE AccountTypes'
<1>1. UNCHANGED <<accounts, groups, member, login, synced, made>>
  BY DEF RealmChanges
<1>2. realm[p] \in Claims
  BY DEF AccountTypes
<1>3. \A R \in SUBSET Roles : [realm[p] EXCEPT !.roles = R] \in Claims
  BY <1>2 DEF Claims
<1>4. \A n \in Usernames : [realm[p] EXCEPT !.name = n] \in Claims
  BY <1>2 DEF Claims
<1>5. \/ \E R \in SUBSET Roles : realm' = [realm EXCEPT ![p] = [realm[p] EXCEPT !.roles = R]]
      \/ \E n \in Usernames : realm' = [realm EXCEPT ![p] = [realm[p] EXCEPT !.name = n]]
  BY DEF RealmChanges
<1>6. realm' \in [People -> Claims]
  BY <1>3, <1>4, <1>5 DEF AccountTypes
<1> QED
  BY <1>1, <1>6 DEF AccountTypes

LEMMA EditTypes == ASSUME AccountTypes, NEW a \in accounts, EditAccount(a) PROVE AccountTypes'
<1> DEFINE edited == [a EXCEPT !.active = ~@, !.staff = FALSE, !.superuser = FALSE]
<1>1. a \in Account /\ a.id \in Ids
  BY DEF AccountTypes, Account
<1>2. edited \in Account
  BY <1>1 DEF Account
<1>3. /\ synced' = [synced EXCEPT ![a.id] = {}]
      /\ UNCHANGED <<groups, realm, login, made>>
      /\ \/ accounts' = (accounts \ {a}) \cup {edited} /\ UNCHANGED member
         \/ \E g \in groups : member' = [member EXCEPT ![a.id] = member[a.id] \cup {g}] /\ UNCHANGED accounts
         \/ accounts' = accounts \ {a} /\ member' = [member EXCEPT ![a.id] = {}]
  BY DEF EditAccount
<1> HIDE DEF edited
<1>4. accounts' \subseteq Account
  BY <1>2, <1>3 DEF AccountTypes
<1>5. member' \in [Ids -> SUBSET Groups]
  BY <1>1, <1>3 DEF AccountTypes
<1> QED
  BY <1>1, <1>3, <1>4, <1>5 DEF AccountTypes

LEMMA AccountTypesKept == ASSUME AccountTypes, [AccountsNext]_accountVars PROVE AccountTypes'
<1>1. CASE UNCHANGED accountVars
  BY <1>1 DEF accountVars, AccountTypes
<1>2. ASSUME NEW n \in Usernames, AddAccount(n) PROVE AccountTypes'
  <2>1. NewAccount(n, "nobody") /\ UNCHANGED <<realm, login, synced>>
    BY <1>2 DEF AddAccount
  <2> QED
    BY <2>1, NewAccountTyped DEF AccountTypes
<1>3. ASSUME NEW g \in Groups, EditGroup(g) PROVE AccountTypes'
  BY <1>3 DEF EditGroup, AccountTypes
<1>4. CASE Migrate
  BY <1>4 DEF Migrate, AccountTypes, Groups
<1> QED
  BY <1>1, <1>2, <1>3, <1>4, MatchTypes, CreateTypes, SetGroupsTypes, SaveTypes, RealmTypes, EditTypes, Zenon
     DEF AccountsNext

-----------------------------------------------------------------------------

\* Account i is the only one that is written to, in a step in the login of p.
OnlyAccount(i, p) ==
  /\ \A a \in Account : a.id # i => (a \in accounts <=> a \in accounts')
  /\ \A j \in Ids \ {i} : member'[j] = member[j] /\ synced'[j] = synced[j]
  /\ \A q \in People \ {p} : login'[q] = login[q]
  /\ Wrote(i, p)

LEMMA OtherLogins ==
  ASSUME AccountTypes, AccountTypes', Undisturbed, NEW i \in Ids, NEW p, OnlyAccount(i, p)
  PROVE  \A q \in People \ {p} : LoginOk(q)'
<1> SUFFICES ASSUME NEW q \in People \ {p}, Syncing(q)', q \notin disturbed'
             PROVE  LoginOk(q)'
  BY DEF LoginOk
<1> DEFINE row == login[q].row
<1>1. login'[q] = login[q] /\ Syncing(q)
  BY DEF OnlyAccount, Syncing
<1>2. q \notin disturbed /\ row.id # i
  BY <1>1 DEF OnlyAccount, Wrote, Syncing
<1>3. row \in Account /\ row.id \in Ids
  BY <1>1, LoginKinds DEF AccountTypes, Syncing, Account
<1>4. Exists(row.id) /\ (login[q].at = "save" => member[row.id] = Mapped(login[q].claims.roles))
  BY <1>1, <1>2 DEF Undisturbed, LoginOk
<1>5. PICK a \in accounts : a.id = row.id
  BY <1>4 DEF Exists
<1>6. a \in accounts'
  BY <1>2, <1>5 DEF OnlyAccount, AccountTypes
<1>7. Exists(row.id)'
  BY <1>1, <1>5, <1>6 DEF Exists
<1>8. member'[row.id] = member[row.id]
  BY <1>2, <1>3 DEF OnlyAccount
<1> QED
  BY <1>1, <1>4, <1>7, <1>8 DEF LoginOk, Mapped

LEMMA OtherAccounts ==
  ASSUME AccountTypes, AccountTypes', ProviderDecides, NEW i \in Ids, NEW p, OnlyAccount(i, p),
         \A a \in accounts' : a.id = i => \A roles \in synced'[i] :
           /\ member'[i] = Mapped(roles)
           /\ a.superuser = (roles \cap SuperuserRoles # {})
           /\ a.staff = (roles \cap (StaffRoles \cup SuperuserRoles) # {})
  PROVE  ProviderDecides'
<1>1. ASSUME NEW a \in accounts', a.id # i, NEW roles \in synced'[a.id]
      PROVE  /\ member'[a.id] = Mapped(roles)
             /\ a.superuser = (roles \cap SuperuserRoles # {})
             /\ a.staff = (roles \cap (StaffRoles \cup SuperuserRoles) # {})
  <2>1. a \in Account /\ a.id \in Ids
    BY DEF AccountTypes, Account
  <2>2. a \in accounts /\ member'[a.id] = member[a.id] /\ synced'[a.id] = synced[a.id]
    BY <1>1, <2>1 DEF OnlyAccount
  <2> QED
    BY <2>2 DEF ProviderDecides
<1> QED
  BY <1>1 DEF ProviderDecides, Mapped

AccountInv == AccountTypes /\ Numbered /\ Undisturbed /\ ProviderDecides

\* A new account has a number of its own: what is known of the others stays.
LEMMA NewAccountKeeps ==
  ASSUME AccountInv, NEW name \in Usernames, NEW email \in People \cup {"nobody"}, NewAccount(name, email),
         UNCHANGED <<synced, disturbed>>
  PROVE  /\ \A a \in accounts' : a.id <= made'
         /\ \A a, b \in accounts' : a.id = b.id => a = b
         /\ Groups \ {Registered} \subseteq groups' /\ groups' = Groups
         /\ \A i \in Ids : i > made' => synced'[i] = {}
         /\ \A q \in People : login'[q] = login[q] => LoginOk(q)' /\ (Syncing(q) => login[q].row.id <= made')
         /\ ProviderDecides'
<1> DEFINE new == [id |-> made', username |-> name, email |-> email, staff |-> FALSE,
                   superuser |-> FALSE, active |-> TRUE]
<1>1. made' = made + 1 /\ accounts' = accounts \cup {new} /\ Registers(made')
  BY DEF NewAccount
<1>2. made \in Nat /\ made' \in Ids /\ made' > made
  BY <1>1, NewAccountTyped, AccountsAssumption DEF AccountInv, AccountTypes
<1>3. new.id = made'
  OBVIOUS
<1> HIDE DEF new
<1>4. accounts \subseteq Account /\ \A a \in accounts : a.id \in Ids /\ a.id <= made
  BY DEF AccountInv, AccountTypes, Account, Numbered
<1>5. \A a \in accounts' : a.id <= made'
  BY <1>1, <1>2, <1>3, <1>4 DEF Ids
<1>6. \A a, b \in accounts' : a.id = b.id => a = b
  <2>1. \A a \in accounts : a.id # new.id
    BY <1>2, <1>3, <1>4 DEF Ids
  <2>2. \A a, b \in accounts : a.id = b.id => a = b
    BY DEF AccountInv, Numbered
  <2> QED
    BY <1>1, <2>1, <2>2
<1>7. groups' = Groups
  BY <1>1 DEF Registers, AccountInv, AccountTypes, Numbered, Groups
<1>8. \A i \in Ids : i > made' => synced'[i] = {}
  BY <1>2 DEF AccountInv, Numbered, Ids
<1>9. \A i \in Ids : i <= made => member'[i] = member[i]
  BY <1>1, <1>2 DEF Registers, AccountInv, AccountTypes, Ids
<1>10. ASSUME NEW q \in People, login'[q] = login[q]
       PROVE  LoginOk(q)' /\ (Syncing(q) => login[q].row.id <= made')
  <2>1. Syncing(q) => login[q].row.id \in Ids /\ login[q].row.id <= made
    BY LoginKinds DEF Syncing, AccountInv, AccountTypes, Numbered, Account
  <2>2. LoginOk(q)
    BY DEF AccountInv, Undisturbed
  <2>3. LoginOk(q)'
    <3>1. \A i : Exists(i) => Exists(i)'
      BY <1>1 DEF Exists
    <3> QED
      BY <1>9, <1>10, <2>1, <2>2, <3>1 DEF LoginOk, Syncing, Mapped
  <2>4. Syncing(q) => login[q].row.id <= made'
    BY <1>2, <2>1 DEF Ids
  <2> QED
    BY <2>3, <2>4
<1>11. ProviderDecides'
  <2>1. synced'[new.id] = {}
    BY <1>2, <1>3 DEF AccountInv, Numbered
  <2>2. ASSUME NEW a \in accounts
        PROVE  synced'[a.id] = synced[a.id] /\ member'[a.id] = member[a.id]
    BY <1>4, <1>9
  <2> QED
    BY <1>1, <2>1, <2>2 DEF AccountInv, ProviderDecides, Mapped
<1> QED
  BY <1>5, <1>6, <1>7, <1>8, <1>10, <1>11

LEMMA AddKeeps == ASSUME AccountInv, AccountTypes', NEW n \in Usernames, AddAccount(n) PROVE AccountInv'
<1>1. NewAccount(n, "nobody") /\ UNCHANGED <<login, synced, disturbed>>
  BY DEF AddAccount
<1>2. Numbered'
  BY <1>1, NewAccountKeeps DEF Numbered, Groups, Syncing
<1>3. Undisturbed'
  BY <1>1, NewAccountKeeps DEF Undisturbed
<1> QED
  BY <1>1, <1>2, <1>3, NewAccountKeeps DEF AccountInv

LEMMA CreateKeeps == ASSUME AccountInv, AccountTypes', NEW p \in People, CreateAccount(p) PROVE AccountInv'
<1> DEFINE name == login[p].claims.name
<1>1. login[p].at = "create" /\ UNCHANGED <<synced, disturbed>>
  BY DEF CreateAccount
<1>2. login[p].claims \in Claims /\ name \in Usernames
  BY <1>1, LoginKinds DEF AccountInv, AccountTypes, Claims
<1>3. CASE \E a \in accounts : a.username = name
  <2>1. login' = [login EXCEPT ![p] = NoLogin] /\ UNCHANGED <<accounts, groups, member, made>>
    BY <1>3 DEF CreateAccount
  <2>2. ~ Syncing(p)' /\ \A q \in People \ {p} : login'[q] = login[q]
    BY <2>1 DEF Syncing, NoLogin, AccountInv, AccountTypes
  <2>3. Numbered'
    BY <1>1, <2>1, <2>2 DEF Numbered, AccountInv, Syncing, Groups
  <2>4. Undisturbed'
    BY <1>1, <2>1, <2>2 DEF Undisturbed, LoginOk, AccountInv, Syncing, Exists, Mapped
  <2>5. ProviderDecides'
    BY <1>1, <2>1 DEF ProviderDecides, AccountInv, Mapped
  <2> QED
    BY <2>3, <2>4, <2>5 DEF AccountInv
<1>4. CASE ~ \E a \in accounts : a.username = name
  <2> DEFINE row == CHOOSE a \in accounts' : a.id = made'
             claims == login[p].claims
             begun == [at |-> "groups", claims |-> claims, row |-> row]
  <2>1. NewAccount(name, p) /\ login' = [login EXCEPT ![p] = begun]
    BY <1>4 DEF CreateAccount
  <2>2. row \in accounts' /\ row.id = made'
    <3> DEFINE new == [id |-> made', username |-> name, email |-> p, staff |-> FALSE,
                       superuser |-> FALSE, active |-> TRUE]
    <3>1. accounts' = accounts \cup {new}
      BY <2>1 DEF NewAccount
    <3>2. new.id = made'
      OBVIOUS
    <3> HIDE DEF new
    <3> QED
      BY <3>1, <3>2
  <2>3. begun.at = "groups" /\ begun.row = row
    OBVIOUS
  <2> HIDE DEF row, begun
  <2>4. login'[p] = begun /\ \A q \in People \ {p} : login'[q] = login[q]
    BY <2>1 DEF AccountInv, AccountTypes
  <2>5. LoginOk(p)'
    BY <2>2, <2>3, <2>4 DEF LoginOk, Exists
  <2>6. Undisturbed'
    BY <1>1, <1>2, <2>1, <2>4, <2>5, NewAccountKeeps DEF Undisturbed
  <2>7. \A q \in People : Syncing(q)' => login'[q].row.id <= made'
    <3>1. login'[p].row.id <= made'
      BY <1>2, <2>1, <2>2, <2>3, <2>4, NewAccountTyped DEF AccountInv, Ids
    <3> QED
      BY <1>1, <1>2, <2>1, <2>4, <3>1, NewAccountKeeps DEF Syncing
  <2>8. Numbered'
    BY <1>1, <1>2, <2>1, <2>7, NewAccountKeeps DEF Numbered, Groups
  <2> QED
    BY <1>1, <1>2, <2>1, <2>6, <2>8, NewAccountKeeps DEF AccountInv
<1> QED
  BY <1>3, <1>4

LEMMA MatchKeeps == ASSUME AccountInv, AccountTypes', NEW p \in People, Match(p) PROVE AccountInv'
<1> DEFINE found == Matching(realm[p], p)
           chosen == CHOOSE a \in found : TRUE
           begun == IF found = {} THEN [at |-> "create", claims |-> realm[p]]
                    ELSE [at |-> "groups", claims |-> realm[p], row |-> chosen]
<1>1. /\ login[p] = NoLogin
      /\ login' = IF Cardinality(found) > 1 THEN login ELSE [login EXCEPT ![p] = begun]
      /\ disturbed' = disturbed \ {p}
      /\ UNCHANGED <<accounts, groups, member, synced, made>>
  BY DEF Match
<1>2. found \subseteq accounts
  BY DEF Matching
<1>3. begun.at = "create" \/ (begun.at = "groups" /\ begun.row \in accounts)
  BY <1>2
<1> HIDE DEF begun, found
<1>4. /\ login'[p] = NoLogin \/ login'[p] = begun
      /\ \A q \in People \ {p} : login'[q] = login[q]
  BY <1>1 DEF AccountInv, AccountTypes
<1>5. Syncing(p)' => login'[p].at = "groups" /\ login'[p].row \in accounts
  BY <1>3, <1>4 DEF Syncing, NoLogin
<1>6. Numbered'
  BY <1>1, <1>4, <1>5 DEF Numbered, AccountInv, Syncing, Groups
<1>7. Undisturbed'
  BY <1>1, <1>4, <1>5 DEF Undisturbed, LoginOk, AccountInv, Syncing, Exists, Mapped
<1>8. ProviderDecides'
  BY <1>1 DEF ProviderDecides, AccountInv, Mapped
<1> QED
  BY <1>6, <1>7, <1>8 DEF AccountInv

LEMMA SetGroupsKeeps == ASSUME AccountInv, AccountTypes', NEW p \in People, SetGroups(p) PROVE AccountInv'
<1> DEFINE i == login[p].row.id
           roles == login[p].claims.roles
           after == GroupsAfter(i, roles)
<1>1. /\ login[p].at = "groups"
      /\ member' = [member EXCEPT ![i] = IF Exists(i) THEN after ELSE member[i]]
      /\ login' = [login EXCEPT ![p] = IF Exists(i) \/ after = {} THEN [login[p] EXCEPT !.at = "save"] ELSE NoLogin]
      /\ synced' = [synced EXCEPT ![i] = {}]
      /\ Wrote(i, p)
      /\ UNCHANGED <<accounts, groups, made>>
  BY DEF SetGroups
<1>2. login[p] \in Syncs /\ login[p].claims \in Claims /\ login[p].row \in Account
  BY <1>1, LoginKinds DEF AccountInv, AccountTypes
<1>3. i \in Ids /\ i <= made /\ roles \in SUBSET Roles /\ Syncing(p)
  BY <1>1, <1>2 DEF AccountInv, Numbered, Syncing, Account, Claims
<1>4. after = Mapped(roles)
  <2>1. made > 0
    BY <1>3 DEF Ids, AccountInv, AccountTypes
  <2> QED
    BY <1>3, <2>1, MappedGroups DEF GroupsAfter, AccountInv, Numbered
<1>5. [login[p] EXCEPT !.at = "save"].row = login[p].row /\ [login[p] EXCEPT !.at = "save"].claims = login[p].claims
  BY <1>2 DEF Syncs
<1> DEFINE ahead == [login[p] EXCEPT !.at = "save"]
<1> HIDE DEF i, after, ahead
<1>6. login'[p] = NoLogin \/ login'[p] = ahead
  BY <1>1 DEF AccountInv, AccountTypes, ahead
<1>7. Syncing(p)' => login'[p] = ahead
  <2>1. NoLogin.at = "none"
    BY DEF NoLogin
  <2>2. CASE login'[p] = NoLogin
    BY <2>1, <2>2 DEF Syncing
  <2> QED
    BY <1>6, <2>2
<1>8. ahead.row.id = i /\ ahead.claims.roles = roles
  BY <1>5 DEF ahead, i
<1> HIDE DEF roles
<1>9. \A q \in People \ {p} : login'[q] = login[q]
  BY <1>1 DEF AccountInv, AccountTypes
<1>10. OnlyAccount(i, p)
  BY <1>1, <1>3, <1>9 DEF OnlyAccount, AccountInv, AccountTypes
<1>11. LoginOk(p)'
  <2>1. CASE p \in disturbed
    BY <1>1, <2>1 DEF LoginOk, Wrote
  <2>2. CASE p \notin disturbed
    <3>1. Exists(i)
      BY <1>3, <2>2 DEF AccountInv, Undisturbed, LoginOk, i
    <3>2. member'[i] = after
      BY <1>1, <1>3, <3>1 DEF AccountInv, AccountTypes
    <3>3. \E a \in accounts' : a.id = i
      BY <1>1, <3>1 DEF Exists
    <3> SUFFICES ASSUME Syncing(p)' PROVE LoginOk(p)'
      BY DEF LoginOk
    <3>4. login'[p].row.id = i /\ login'[p].claims.roles = roles
      BY <1>7, <1>8
    <3> QED
      BY <1>4, <3>2, <3>3, <3>4 DEF LoginOk, Exists, Mapped
  <2> QED
    BY <2>1, <2>2
<1>12. Undisturbed'
  BY <1>3, <1>10, <1>11, OtherLogins DEF Undisturbed, AccountInv
<1>13. synced'[i] = {}
  BY <1>1, <1>3 DEF AccountInv, AccountTypes
<1>14. ProviderDecides'
  BY <1>3, <1>10, <1>13, OtherAccounts DEF AccountInv
<1>15. Numbered'
  <2>1. \A q \in People : Syncing(q)' => login'[q].row.id <= made'
    BY <1>1, <1>3, <1>7, <1>8, <1>9 DEF Syncing, AccountInv, Numbered
  <2>2. \A j \in Ids : j > made' => synced'[j] = {}
    BY <1>1 DEF AccountInv, Numbered, AccountTypes
  <2> QED
    BY <1>1, <2>1, <2>2 DEF Numbered, AccountInv, Groups
<1> QED
  BY <1>12, <1>14, <1>15 DEF AccountInv

LEMMA EditKeeps == ASSUME AccountInv, AccountTypes', NEW a \in accounts, EditAccount(a) PROVE AccountInv'
<1> DEFINE edited == [a EXCEPT !.active = ~@, !.staff = FALSE, !.superuser = FALSE]
<1>1. a \in Account /\ a.id \in Ids
  BY DEF AccountInv, AccountTypes, Account
<1>2. edited.id = a.id
  BY <1>1 DEF Account
<1>3. /\ synced' = [synced EXCEPT ![a.id] = {}]
      /\ Wrote(a.id, "nobody")
      /\ UNCHANGED <<groups, login, made>>
      /\ \/ accounts' = (accounts \ {a}) \cup {edited} /\ UNCHANGED member
         \/ \E g \in groups : member' = [member EXCEPT ![a.id] = member[a.id] \cup {g}] /\ UNCHANGED accounts
         \/ accounts' = accounts \ {a} /\ member' = [member EXCEPT ![a.id] = {}]
  BY DEF EditAccount
<1> HIDE DEF edited
<1>4. \A b \in Account : b.id # a.id => (b \in accounts <=> b \in accounts')
  BY <1>2, <1>3
<1>5. \A j \in Ids \ {a.id} : member'[j] = member[j] /\ synced'[j] = synced[j]
  BY <1>1, <1>3 DEF AccountInv, AccountTypes
<1>6. OnlyAccount(a.id, "nobody")
  BY <1>3, <1>4, <1>5 DEF OnlyAccount
<1>7. Undisturbed'
  BY <1>1, <1>6, OtherLogins, AccountsAssumption DEF Undisturbed, AccountInv
<1>8. synced'[a.id] = {}
  BY <1>1, <1>3 DEF AccountInv, AccountTypes
<1>9. ProviderDecides'
  BY <1>1, <1>6, <1>8, OtherAccounts DEF AccountInv
<1>10. Numbered'
  <2>1. a.id <= made /\ \A b \in accounts : b.id = a.id => b = a
    BY DEF AccountInv, Numbered
  <2>2. \A b \in accounts' : b \in accounts \/ b = edited
    BY <1>3
  <2>3. edited \in accounts' => a \notin accounts' \/ edited = a
    BY <1>1, <1>2, <1>3, <2>1
  <2>4. \A b, c \in accounts' : b.id = c.id => b = c
    BY <1>2, <2>1, <2>2, <2>3 DEF AccountInv, Numbered
  <2>5. \A b \in accounts' : b.id <= made'
    BY <1>2, <1>3, <2>1, <2>2 DEF AccountInv, Numbered
  <2>6. \A j \in Ids : j > made' => synced'[j] = {}
    BY <1>3 DEF AccountInv, Numbered, AccountTypes
  <2> QED
    BY <1>3, <2>4, <2>5, <2>6 DEF Numbered, AccountInv, Syncing, Groups
<1> QED
  BY <1>7, <1>9, <1>10 DEF AccountInv

LEMMA SaveKeeps == ASSUME AccountInv, AccountTypes', NEW p \in People, SaveAccount(p) PROVE AccountInv'
<1> DEFINE row == login[p].row
           i == row.id
           roles == login[p].claims.roles
           super == roles \cap SuperuserRoles # {}
           staff == super \/ roles \cap StaffRoles # {}
           saved == [row EXCEPT !.superuser = super, !.staff = staff, !.email = p]
<1>1. /\ login[p].at = "save" /\ login' = [login EXCEPT ![p] = NoLogin] /\ UNCHANGED made
      /\ \/ UNCHANGED <<accounts, groups, member, synced, disturbed>>
         \/ /\ accounts' = {a \in accounts : a.id # i} \cup {saved}
            /\ IF Exists(i) THEN UNCHANGED <<groups, member>> ELSE Registers(i)
            /\ Wrote(i, p)
            /\ synced' = [synced EXCEPT ![i] = IF p \in disturbed THEN {} ELSE {roles}]
  BY DEF SaveAccount
<1>2. login[p].claims \in Claims /\ row \in Account /\ i \in Ids /\ Syncing(p)
  BY <1>1, LoginKinds DEF AccountInv, AccountTypes, Syncing, Account
<1>3. i <= made
  BY <1>2 DEF AccountInv, Numbered
<1>4. saved.id = i /\ saved.superuser = super /\ saved.staff = staff
  BY <1>2 DEF Account
<1>5. ~ Syncing(p)' /\ \A q \in People \ {p} : login'[q] = login[q]
  BY <1>1 DEF Syncing, NoLogin, AccountInv, AccountTypes
<1>6. LoginOk(p)'
  BY <1>5 DEF LoginOk
<1>7. p \notin disturbed => Exists(i) /\ member[i] = Mapped(roles)
  BY <1>1, <1>2 DEF AccountInv, Undisturbed, LoginOk
<1> HIDE DEF i, saved
<1>8. CASE UNCHANGED <<accounts, groups, member, synced, disturbed>>
  <2>1. Numbered'
    BY <1>1, <1>5, <1>8 DEF Numbered, AccountInv, Syncing, Groups
  <2>2. Undisturbed'
    BY <1>1, <1>5, <1>6, <1>8 DEF Undisturbed, LoginOk, AccountInv, Syncing, Exists, Mapped
  <2>3. ProviderDecides'
    BY <1>8 DEF ProviderDecides, AccountInv, Mapped
  <2> QED
    BY <2>1, <2>2, <2>3 DEF AccountInv
<1>9. CASE /\ accounts' = {a \in accounts : a.id # i} \cup {saved}
           /\ IF Exists(i) THEN UNCHANGED <<groups, member>> ELSE Registers(i)
           /\ Wrote(i, p)
           /\ synced' = [synced EXCEPT ![i] = IF p \in disturbed THEN {} ELSE {roles}]
  <2>1. \A a \in Account : a.id # i => (a \in accounts <=> a \in accounts')
    BY <1>4, <1>9
  <2>2. \A j \in Ids \ {i} : member'[j] = member[j] /\ synced'[j] = synced[j]
    BY <1>2, <1>9 DEF Registers, AccountInv, AccountTypes
  <2>3. OnlyAccount(i, p)
    BY <1>5, <1>9, <2>1, <2>2 DEF OnlyAccount
  <2>4. Undisturbed'
    BY <1>2, <1>6, <2>3, OtherLogins DEF Undisturbed, AccountInv
  <2>5. \A a \in accounts' : a.id = i => a = saved
    BY <1>9
  <2>6. \A R \in synced'[i] : p \notin disturbed /\ R = roles
    BY <1>2, <1>9 DEF AccountInv, AccountTypes
  <2>7. p \notin disturbed => member'[i] = Mapped(roles)
    BY <1>7, <1>9
  <2>8. staff = (roles \cap (StaffRoles \cup SuperuserRoles) # {})
    OBVIOUS
  <2> HIDE DEF super, staff, roles
  <2>9. ASSUME NEW a \in accounts', a.id = i, NEW R \in synced'[i]
        PROVE  /\ member'[i] = Mapped(R)
               /\ a.superuser = (R \cap SuperuserRoles # {})
               /\ a.staff = (R \cap (StaffRoles \cup SuperuserRoles) # {})
    <3>1. a = saved /\ R = roles /\ member'[i] = Mapped(roles)
      BY <2>5, <2>6, <2>7, <2>9
    <3>2. super = (roles \cap SuperuserRoles # {})
      BY DEF super, roles
    <3> QED
      BY <1>4, <2>8, <3>1, <3>2
  <2>10. ProviderDecides'
    BY <1>2, <2>3, <2>9, OtherAccounts DEF AccountInv
  <2>11. Numbered'
    <3>1. groups' = groups \/ groups' = groups \cup {Registered, "Agent"}
      BY <1>9 DEF Registers
    <3>2. Groups \ {Registered} \subseteq groups' /\ (made' > 0 => groups' = Groups)
      BY <1>1, <3>1 DEF AccountInv, AccountTypes, Numbered, Groups
    <3>3. \A a \in accounts' : a.id <= made'
      BY <1>1, <1>3, <1>4, <1>9 DEF AccountInv, Numbered
    <3>4. \A a, b \in accounts' : a.id = b.id => a = b
      BY <1>4, <1>9 DEF AccountInv, Numbered
    <3>5. \A q \in People : Syncing(q)' => login'[q].row.id <= made'
      BY <1>1, <1>5 DEF AccountInv, Numbered, Syncing
    <3>6. \A j \in Ids : j > made' => synced'[j] = {}
      BY <1>1, <1>2, <1>3, <1>9 DEF AccountInv, AccountTypes, Numbered, Ids
    <3> QED
      BY <3>2, <3>3, <3>4, <3>5, <3>6 DEF Numbered, Groups
  <2> QED
    BY <2>4, <2>10, <2>11 DEF AccountInv
<1> QED
  BY <1>1, <1>8, <1>9

\* What makes the result of a login right: accounts have numbers of their own,
\* and a login that nobody disturbs finds its account and groups as it left them.
THEOREM AccountsInvariant == AccountsSpec => []AccountInv
<1>1. AccountsInit => AccountInv
  <2> SUFFICES ASSUME AccountsInit PROVE AccountInv
    OBVIOUS
  <2>1. AccountTypes
    BY AccountsAssumption DEF AccountsInit, AccountTypes, LoginStates, Claims
  <2>2. Numbered
    BY DEF AccountsInit, Numbered, Syncing, NoLogin
  <2>3. Undisturbed
    BY DEF AccountsInit, Undisturbed, LoginOk, Syncing, NoLogin
  <2> QED
    BY <2>1, <2>2, <2>3 DEF AccountInv, AccountsInit, ProviderDecides
<1>2. ASSUME AccountInv, [AccountsNext]_accountVars PROVE AccountInv'
  <2>1. AccountTypes'
    BY <1>2, AccountTypesKept DEF AccountInv
  <2>2. ASSUME UNCHANGED <<accounts, groups, member, login, synced, disturbed, made>> PROVE AccountInv'
    <3>1. Numbered'
      BY <1>2, <2>2 DEF Numbered, AccountInv, Syncing, Groups
    <3>2. Undisturbed'
      BY <1>2, <2>2 DEF Undisturbed, LoginOk, AccountInv, Syncing, Exists, Mapped
    <3>3. ProviderDecides'
      BY <1>2, <2>2 DEF ProviderDecides, AccountInv, Mapped
    <3> QED
      BY <2>1, <3>1, <3>2, <3>3 DEF AccountInv
  <2>3. CASE UNCHANGED accountVars
    BY <2>2, <2>3 DEF accountVars
  <2>4. ASSUME NEW p \in People, RealmChanges(p) PROVE AccountInv'
    BY <2>2, <2>4 DEF RealmChanges
  <2>5. ASSUME NEW g \in Groups, EditGroup(g) PROVE AccountInv'
    BY <2>2, <2>5 DEF EditGroup
  <2>6. CASE Migrate
    <3>1. UNCHANGED <<accounts, member, login, synced, disturbed, made>> /\ groups' = groups \cup {Registered, "Agent"}
      BY <2>6 DEF Migrate
    <3>2. Numbered'
      BY <1>2, <3>1 DEF Numbered, AccountInv, AccountTypes, Syncing, Groups
    <3>3. Undisturbed'
      BY <1>2, <3>1 DEF Undisturbed, LoginOk, AccountInv, Syncing, Exists, Mapped
    <3>4. ProviderDecides'
      BY <1>2, <3>1 DEF ProviderDecides, AccountInv, Mapped
    <3> QED
      BY <2>1, <3>2, <3>3, <3>4 DEF AccountInv
  <2> QED
    BY <1>2, <2>1, <2>3, <2>4, <2>5, <2>6, MatchKeeps, CreateKeeps, SetGroupsKeeps, SaveKeeps, AddKeeps,
       EditKeeps, Zenon DEF AccountsNext
<1> QED
  BY <1>1, <1>2, PTL DEF AccountsSpec

\* After a login nobody interfered with, the account has the groups and flags
\* its roles map to and no others (SiematicOIDCBackend in src/project/oidc.py),
\* whoever logs in, edits and migrates in between.
THEOREM ProviderHasLastWord == AccountsSpec => []ProviderDecides
<1>1. AccountInv => ProviderDecides
  BY DEF AccountInv
<1> QED
  BY <1>1, AccountsInvariant, PTL
=============================================================================
