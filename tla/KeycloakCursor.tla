---------------------------- MODULE KeycloakCursor ---------------------------
(***************************************************************************)
(* How the Keycloak plugin pages through the events of a realm while new   *)
(* ones are committed (src/agent/plugins/keycloak_events_plugin.py).  The  *)
(* Admin API gives the newest events first, by offset, so every commit     *)
(* moves the others to later pages.                                        *)
(***************************************************************************)
EXTENDS Integers, Sequences, FiniteSets, Chunking

CONSTANTS
  KcEvents,      \* the events; the number is the fingerprint
  PageSize, MaxPages,
  KcBatchSize,   \* batch_size
  KcMaxTime, KcMaxFailures  \* bounds

ASSUME KeycloakAssumption ==
  /\ KcEvents \subseteq Nat
  /\ {PageSize, MaxPages, KcBatchSize} \subseteq Nat \ {0}
  /\ {KcMaxTime, KcMaxFailures} \subseteq Nat

KcNone == [t |-> -1, prints |-> {}]

VARIABLES
  kcTime,       \* the clock, in milliseconds
  happened,     \* event.time of the events that have one
  committed,    \* the events the API returns
  kcRead,       \* the cursor: read_positions, or KcNone
  kcStored,     \* the checkpoint in the database
  poll,         \* the poll under way: its window, the next page, what it has
  undelivered,  \* the batches of the last poll
  kcTimes,      \* history: how often each event was stored
  inTime,       \* history: the events that were committed before any poll whose
                \* window reaches past them
  before,       \* history: those of them the last finished poll had to see
  kcSince,      \* history: collection began here
  failures

kcVars == <<kcTime, happened, committed, kcRead, kcStored, poll, undelivered, kcTimes, inTime,
            before, kcSince, failures>>
keycloak == <<kcTime, happened, committed>>

NoPoll == [on |-> FALSE]

KeycloakInit ==
  /\ kcTime = 0 /\ happened = [e \in KcEvents |-> -1] /\ committed = {}
  /\ kcRead = KcNone /\ kcStored = KcNone /\ poll = NoPoll /\ undelivered = <<>>
  /\ kcTimes = [e \in KcEvents |-> 0] /\ inTime = {} /\ before = {} /\ kcSince = 0 /\ failures = 0

-----------------------------------------------------------------------------
\* Keycloak.  An event gets its time first and is committed afterwards.

KcClock ==
  /\ kcTime < KcMaxTime /\ kcTime' = kcTime + 1
  /\ UNCHANGED <<happened, committed, kcRead, kcStored, poll, undelivered, kcTimes, inTime, before,
                 kcSince, failures>>

Happen(e) ==
  /\ happened[e] = -1 /\ (\A d \in KcEvents : d < e => happened[d] # -1)
  /\ happened' = [happened EXCEPT ![e] = kcTime]
  /\ UNCHANGED <<kcTime, committed, kcRead, kcStored, poll, undelivered, kcTimes, inTime, before,
                 kcSince, failures>>

\* The largest dateTo the plugin has asked for.
Asked == IF poll.on /\ poll.to > kcRead.t THEN poll.to ELSE kcRead.t
CommitEvent(e) ==
  /\ happened[e] # -1 /\ e \notin committed
  /\ committed' = committed \cup {e}
  /\ inTime' = IF kcRead # KcNone /\ happened[e] >= Asked THEN inTime \cup {e} ELSE inTime
  /\ UNCHANGED <<kcTime, happened, kcRead, kcStored, poll, undelivered, kcTimes, before,
                 kcSince, failures>>

\* A page: of the events in the window, newest first, those from an offset on.
Newer(d, e) == happened[d] > happened[e] \/ (happened[d] = happened[e] /\ d > e)
Page(from, to, first) ==
  LET window == {e \in committed : from <= happened[e] /\ happened[e] <= to}
      place(e) == Cardinality({d \in window : Newer(d, e)})
  IN {e \in window : first <= place(e) /\ place(e) < first + PageSize}

-----------------------------------------------------------------------------
\* The plugin.

\* The first half of collect_once: the window.
StartPoll ==
  /\ ~poll.on /\ undelivered = <<>>
  /\ kcRead' = IF kcRead = KcNone THEN [t |-> kcTime, prints |-> {}] ELSE kcRead
  /\ kcSince' = IF kcRead = KcNone THEN kcTime ELSE kcSince
  /\ poll' = [on |-> TRUE, to |-> kcTime, page |-> 0, got |-> {}, had |-> inTime]
  /\ UNCHANGED <<keycloak, kcStored, undelivered, kcTimes, inTime, before, failures>>

\* _get: a request with an expired token is made again, once, with a new one.
FetchPage ==
  /\ poll.on /\ poll.page < MaxPages
  /\ LET result == Page(kcRead.t, poll.to, poll.page * PageSize)
     IN poll' = [poll EXCEPT !.got = @ \cup result,
                             !.page = IF Cardinality(result) < PageSize THEN MaxPages + 1 ELSE @ + 1]
  /\ UNCHANGED <<keycloak, kcRead, kcStored, undelivered, kcTimes, inTime, before, kcSince, failures>>

\* A page that fails twice ends the poll: what it had is dropped.
FetchFails ==
  /\ poll.on /\ failures < KcMaxFailures
  /\ failures' = failures + 1
  /\ poll' = NoPoll
  /\ UNCHANGED <<keycloak, kcRead, kcStored, undelivered, kcTimes, inTime, before, kcSince>>

\* Slip: with the last page allowed the poll is taken for complete.
TooManyPages_Ignored == FALSE

\* The pages are used up and the last of them was full.
TooManyPages == poll.page = MaxPages

GiveUp ==
  /\ poll.on /\ TooManyPages
  /\ poll' = NoPoll
  /\ UNCHANGED <<keycloak, kcRead, kcStored, undelivered, kcTimes, inTime, before, kcSince, failures>>

\* The chunks of the new events, by time: a full one ends where the time changes.
Chunks(events, cursor) ==
  LET Full == {p \in (0..kcTime) \X (0..kcTime) :
                 Cardinality({e \in events : p[1] <= happened[e] /\ happened[e] < p[2]}) >= KcBatchSize}
      place == Place({happened[e] : e \in events}, kcTime, Full)
      chunk(n) == {e \in events : place[happened[e]].number = n}
      latest(n) == CHOOSE t \in {happened[e] : e \in chunk(n)} : \A e \in chunk(n) : happened[e] <= t
      prints(n) == {e \in chunk(n) : happened[e] = latest(n)}
      batch(n) == [events |-> chunk(n),
                   cursor |-> [t |-> latest(n),
                               prints |-> prints(n) \cup
                                            (IF latest(n) = cursor.t THEN cursor.prints ELSE {})]]
  IN [n \in 1..place[kcTime].number |-> batch(n)]

\* The rest of collect_once: events the cursor covers are dropped, as are the
\* ones that two pages brought.
FinishPoll ==
  /\ poll.on /\ poll.page >= MaxPages /\ ~TooManyPages
  /\ LET fresh == {e \in poll.got : happened[e] > kcRead.t \/ e \notin kcRead.prints}
         made == Chunks(fresh, kcRead)
     IN /\ undelivered' = made
        /\ kcRead' = IF made = <<>> THEN kcRead ELSE made[Len(made)].cursor
  /\ before' = {e \in poll.had : happened[e] <= poll.to}
  /\ poll' = NoPoll
  /\ UNCHANGED <<keycloak, kcStored, kcTimes, inTime, kcSince, failures>>

StoreBatch ==
  /\ undelivered # <<>>
  /\ LET b == Head(undelivered) IN
       /\ kcTimes' = [e \in KcEvents |-> kcTimes[e] + IF e \in b.events THEN 1 ELSE 0]
       /\ kcStored' = b.cursor
  /\ undelivered' = Tail(undelivered)
  /\ UNCHANGED <<keycloak, kcRead, poll, inTime, before, kcSince, failures>>

\* The plugin starts again from the checkpoint; without one collection begins
\* anew.
KcCrash ==
  /\ failures < KcMaxFailures
  /\ failures' = failures + 1
  /\ kcRead' = kcStored /\ poll' = NoPoll /\ undelivered' = <<>>
  /\ inTime' = IF kcStored = KcNone THEN {} ELSE inTime
  /\ before' = {e \in before : kcTimes[e] > 0}
  /\ UNCHANGED <<keycloak, kcStored, kcTimes, kcSince>>

KeycloakNext ==
  \/ KcClock \/ \E e \in KcEvents : Happen(e) \/ CommitEvent(e)
  \/ StartPoll \/ FetchPage \/ FetchFails \/ GiveUp \/ FinishPoll \/ StoreBatch \/ KcCrash

KeycloakSpec == KeycloakInit /\ [][KeycloakNext]_kcVars

-----------------------------------------------------------------------------

\* However the pages move while they are fetched: what had been committed when a
\* poll began, and before an earlier poll had asked for a later time, is stored
\* once that poll is done; and nothing is stored twice.
EventsCollected ==
  /\ \A e \in KcEvents : kcTimes[e] <= 1
  /\ (undelivered = <<>> /\ ~poll.on) => \A e \in before : kcTimes[e] = 1
=============================================================================
