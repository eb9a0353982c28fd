------------------------------- MODULE Sharing -------------------------------
(***************************************************************************)
(* What users save and share: saved searches, which are run by name, and   *)
(* dashboards, whose panels run searches in the name of whoever looks at   *)
(* them (src/search2/models.py, views.py, api.py,                          *)
(* commands/run_saved_search.py, src/dashboarding/*.py).                   *)
(*                                                                         *)
(* A request reads a row and writes it later, without a lock; a row that   *)
(* has gone by then is inserted again by save(), but not by a save of      *)
(* named fields.  Each user has one page and one request under way.        *)
(***************************************************************************)
EXTENDS Integers, FiniteSets

CONSTANTS
  Users, Names,
  MaxSaved,      \* bound: rows ever created
  MaxRequests,  \* bound: requests in all
  MaxDepth      \* how many searches deep a run gets before Python gives up

ASSUME SharingAssumption == {MaxSaved, MaxRequests, MaxDepth} \subseteq Nat

VARIABLES
  searches,    \* saved searches; `calls` is the name of another one, or "none"
  dashboards,  \* with `edit`, the number of the edit its settings come from
  page,        \* the edit form a user has open: the dashboard as it was, in a set
  request,     \* the request of each user between its read and its write
  run,         \* the run of each user: the name it looks up, how deep it is
  rows, requests,   \* history: rows and requests so far
  actor        \* history: whose step it was

sharingVars == <<searches, dashboards, page, request, run, rows, requests, actor>>

Idle == [does |-> "nothing"]
NoRun == [state |-> "none"]

SharingInit ==
  /\ searches = {} /\ dashboards = {}
  /\ page = [u \in Users |-> {}]
  /\ request = [u \in Users |-> Idle]
  /\ run = [u \in Users |-> NoRun]
  /\ rows = 0 /\ requests = 0 /\ actor = "nobody"

\* A user begins a request when there is none.
Begin(u, r) ==
  /\ request[u] = Idle /\ requests < MaxRequests /\ requests' = requests + 1
  /\ request' = [request EXCEPT ![u] = r] /\ actor' = u
Ends(u) == request' = [request EXCEPT ![u] = Idle] /\ actor' = u /\ UNCHANGED requests
Put(table, row) == {r \in table : r.id # row.id} \cup {row}
Stored(table, row) == \E r \in table : r.id = row.id

-----------------------------------------------------------------------------
\* Saved searches.

\* visible_to
Visible(s, u) == s.owner = u \/ u \in s.shared \/ s.public

\* savedsearch_create.  Who it is shared with is written after the row.
CreateSearch(u, n, c, p) ==
  /\ rows < MaxSaved /\ rows' = rows + 1
  /\ LET s == [id |-> rows', owner |-> u, name |-> n, calls |-> c, shared |-> {}, public |-> p]
     IN searches' = searches \cup {s} /\ Begin(u, [does |-> "share", row |-> s])
  /\ UNCHANGED <<dashboards, page, run>>

\* savedsearch_update reads the row ...
UpdateSearch(u, s) ==
  /\ s.owner = u
  /\ Begin(u, [does |-> "search", row |-> s])
  /\ UNCHANGED <<searches, dashboards, page, run, rows>>

\* ... and saves the whole of it ...
SaveSearch(u, n, c, p) ==
  /\ request[u].does = "search"
  /\ LET s == [request[u].row EXCEPT !.name = n, !.calls = c, !.public = p]
         now == {r.shared : r \in {q \in searches : q.id = s.id}}
     IN /\ searches' = Put(searches, [s EXCEPT !.shared = UNION now])
        /\ request' = [request EXCEPT ![u] = [does |-> "share", row |-> s]]
  /\ actor' = u
  /\ UNCHANGED <<dashboards, page, run, rows, requests>>

\* ... and then, in a table of its own, the users it is shared with.  That
\* fails when the row is gone.
ShareSearch(u, with) ==
  /\ request[u].does = "share"
  /\ searches' = {IF s.id = request[u].row.id THEN [s EXCEPT !.shared = with] ELSE s : s \in searches}
  /\ Ends(u)
  /\ UNCHANGED <<dashboards, page, run, rows>>

DeleteSearch(u, s) ==
  /\ s.owner = u /\ requests < MaxRequests /\ requests' = requests + 1
  /\ searches' = searches \ {s} /\ actor' = u
  /\ UNCHANGED <<dashboards, page, request, run, rows>>

-----------------------------------------------------------------------------
\* Running a search by its name.

\* An own search is preferred to those of others.
Candidates(u, n) ==
  LET visible == {s \in searches : s.name = n /\ Visible(s, u)}
      own == {s \in visible : s.owner = u}
  IN IF own # {} THEN own ELSE visible

StartRun(u, n) ==
  /\ run[u].state # "running" /\ requests < MaxRequests /\ requests' = requests + 1
  /\ run' = [run EXCEPT ![u] = [state |-> "running", name |-> n, depth |-> 0]]
  /\ actor' = u
  /\ UNCHANGED <<searches, dashboards, page, request, rows>>

\* _run: none or several candidates are an error, and so is a chain of calls
\* that does not end.  Whom a search belongs to does not matter to what it
\* calls: the request is passed on.
Lookup(u) ==
  /\ run[u].state = "running"
  /\ LET found == Candidates(u, run[u].name)
     IN IF Cardinality(found) # 1 \/ run[u].depth = MaxDepth
        THEN run' = [run EXCEPT ![u].state = "error"]
        ELSE \E s \in found :
               run' = [run EXCEPT ![u] = IF s.calls = "none"
                         THEN [run[u] EXCEPT !.state = "done"]
                         ELSE [run[u] EXCEPT !.name = s.calls, !.depth = @ + 1]]
  /\ actor' = u
  /\ UNCHANGED <<searches, dashboards, page, request, rows, requests>>

-----------------------------------------------------------------------------
\* Dashboards.

\* visible_dashboards
MaySee(d, u) == d.owner = u \/ d.shared

CreateDashboard(u, shared) ==
  /\ request[u] = Idle /\ rows < MaxSaved /\ rows' = rows + 1
  /\ dashboards' = dashboards \cup
       {[id |-> rows', owner |-> u, shared |-> shared, edit |-> rows', refresh |-> 0]}
  /\ actor' = u
  /\ UNCHANGED <<searches, page, request, run, requests>>

\* dashboard_edit, GET: the form shows the settings with the refresh interval.
OpenForm(u, d) ==
  /\ d.owner = u /\ requests < MaxRequests /\ requests' = requests + 1
  /\ page' = [page EXCEPT ![u] = {d}] /\ actor' = u
  /\ UNCHANGED <<searches, dashboards, request, run, rows>>

\* dashboard_edit, POST: the row is read again for its owner ...
SubmitForm(u) ==
  /\ \E d \in page[u] : Stored(dashboards, d) /\ Begin(u, [does |-> "edit", row |-> d])
  /\ page' = [page EXCEPT ![u] = {}]
  /\ UNCHANGED <<searches, dashboards, run, rows>>

\* ... and saved with what the form holds; the number of the request names the
\* new settings.
SaveForm(u, shared) ==
  /\ request[u].does = "edit"
  /\ dashboards' = Put(dashboards, [request[u].row EXCEPT !.shared = shared, !.edit = MaxSaved + requests])
  /\ Ends(u)
  /\ UNCHANGED <<searches, page, run, rows>>

DeleteDashboard(u, d) ==
  /\ d.owner = u /\ requests < MaxRequests /\ requests' = requests + 1
  /\ dashboards' = dashboards \ {d} /\ actor' = u
  /\ UNCHANGED <<searches, page, request, run, rows>>

\* dashboard_detail and dashboard_data with an interval: the row is read ...
View(u, d, seconds) ==
  /\ MaySee(d, u)
  /\ Begin(u, [does |-> "view", row |-> d, seconds |-> seconds])
  /\ UNCHANGED <<searches, dashboards, page, run, rows>>

\* Slip: whoever looks at it saves the interval.
KeepsInterval_Anyone(u, d) == TRUE

\* apply_refresh_seconds
KeepsInterval(u, d) == d.owner = u

\* ... and all of its settings are written back with the interval, by its owner
\* and if that is another one.  A row that is gone stays gone.
ApplyRefresh(u) ==
  /\ request[u].does = "view"
  /\ LET d == request[u].row
         writes == KeepsInterval(u, d) /\ d.refresh # request[u].seconds
     IN dashboards' = {IF writes /\ r.id = d.id
                       THEN [r EXCEPT !.edit = d.edit, !.refresh = request[u].seconds] ELSE r : r \in dashboards}
  /\ Ends(u)
  /\ UNCHANGED <<searches, page, run, rows>>

SharingNext ==
  \E u \in Users :
    \/ \E n \in Names, c \in Names \cup {"none"}, p \in BOOLEAN :
         CreateSearch(u, n, c, p) \/ SaveSearch(u, n, c, p)
    \/ \E s \in searches : UpdateSearch(u, s) \/ DeleteSearch(u, s)
    \/ \E with \in SUBSET (Users \ {u}) : ShareSearch(u, with)
    \/ (\E n \in Names : StartRun(u, n)) \/ Lookup(u)
    \/ \E b \in BOOLEAN : CreateDashboard(u, b) \/ SaveForm(u, b)
    \/ \E d \in dashboards : OpenForm(u, d) \/ DeleteDashboard(u, d) \/ (\E t \in {0, 15} : View(u, d, t))
    \/ SubmitForm(u) \/ ApplyRefresh(u)

SharingSpec == SharingInit /\ [][SharingNext]_sharingVars

-----------------------------------------------------------------------------

\* Nobody changes what belongs to another user: not a dashboard, whatever was
\* read of it before it changed or was deleted, and not what a name stands for
\* that its owner uses, whatever others publish or share under that name.
OwnersAlone ==
  [][\A u \in Users : u # actor' =>
       /\ {d \in dashboards' : d.owner = u} = {d \in dashboards : d.owner = u}
       /\ \A n \in Names : (\E s \in searches : s.owner = u /\ s.name = n)
                             => Candidates(u, n)' = Candidates(u, n)]_sharingVars
=============================================================================
