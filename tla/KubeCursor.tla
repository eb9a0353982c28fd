------------------------------ MODULE KubeCursor -----------------------------
(***************************************************************************)
(* How the Kubernetes log plugin finds its place again                     *)
(* (src/agent/plugins/kube_logs_plugin.py): a cursor is the latest time    *)
(* stamp, the hashes of the lines that carry it, and the container they    *)
(* came from.  A poll reads the log of one target, drops what the cursor   *)
(* covers and cuts the rest into batches; CheckpointedDelivery says how a  *)
(* batch gets to the indexer, here it arrives in one step.                 *)
(***************************************************************************)
EXTENDS Integers, Sequences, FiniteSets, Chunking

CONSTANTS
  Hashes,       \* what lines there are
  Relevant,     \* those that become events: the others are no audit records
  BatchSize,    \* batch_size
  MaxPods,      \* the pods that the target's selector matches
  MaxLines, MaxTime, MaxContainerRestarts, MaxCrashes  \* bounds

ASSUME KubeAssumption ==
  /\ Relevant \subseteq Hashes
  /\ BatchSize \in Nat \ {0}
  /\ MaxPods \in Nat \ {0}
  /\ {MaxLines, MaxTime, MaxContainerRestarts, MaxCrashes} \subseteq Nat

Pods == 1..MaxPods
NoCursor == [t |-> -1]

VARIABLES
  log,          \* the lines that were ever written, in the order of writing
  gen,          \* how often the container of each pod was restarted
  kept,         \* whether the kubelet still has the log of the one before
  target,       \* the pod that resolve_pod finds: the newest that runs
  time,         \* the clock of the time stamps
  position,     \* read_positions of the target, or NoCursor
  checkpoint,   \* its stored checkpoint
  stored,       \* the batches the indexer has a receipt of
  queue,        \* the batches of the last poll that are still to be delivered
  times,        \* history: how often each line was stored
  read,         \* history: the lines there were at the last poll
  unreadable,   \* history: lines whose container was not asked for when first polled
  again,        \* history: stored lines that were read again in a pod come back to
  since,        \* history: collection began here
  crashes

kubeVars == <<log, gen, kept, target, time, position, checkpoint, stored, queue, times, read,
              unreadable, again, since, crashes>>
cluster == <<log, gen, kept, target, time>>

\* The container that runs in a pod, and in the pod that is polled.
Live(x) == [pod |-> x, gen |-> gen[x]]
container == Live(target)

KubeInit ==
  /\ log = <<>> /\ gen = [x \in Pods |-> 0] /\ kept = [x \in Pods |-> FALSE]
  /\ target = 1 /\ time = 0
  /\ position = NoCursor /\ checkpoint = NoCursor /\ stored = {} /\ queue = <<>>
  /\ times = <<>> /\ read = {} /\ unreadable = {} /\ again = {} /\ since = 0 /\ crashes = 0

-----------------------------------------------------------------------------
\* The cluster.  Every pod may write, whether it is polled or not.  Lines may
\* carry the same time stamp, but not those of two containers.

WriteLine(x) ==
  /\ Len(log) < MaxLines
  /\ \E h \in Hashes, t \in {time, time + 1} \cap 0..MaxTime :
       /\ \A i \in DOMAIN log : log[i].t = t => log[i].of = Live(x)
       /\ log' = Append(log, [t |-> t, h |-> h, of |-> Live(x)])
       /\ time' = t
  /\ times' = Append(times, 0)
  /\ UNCHANGED <<gen, kept, target, position, checkpoint, stored, queue, read, unreadable,
                 again, since, crashes>>

\* The restarts there were, of all pods.
Restarts == {p \in Pods \X (1..MaxContainerRestarts) : p[2] <= gen[p[1]]}

RestartContainer(x) ==
  /\ time < MaxTime /\ Cardinality(Restarts) < MaxContainerRestarts
  /\ gen' = [gen EXCEPT ![x] = @ + 1]
  /\ \E k \in BOOLEAN : kept' = [kept EXCEPT ![x] = k]
  /\ time' = time + 1
  /\ UNCHANGED <<log, target, position, checkpoint, stored, queue, times, read, unreadable,
                 again, since, crashes>>

\* resolve_pod takes the newest pod that runs: a new one, or one that it had
\* before, when the newest has stopped.
ReplacePod(x) ==
  /\ x # target
  /\ target' = x
  /\ UNCHANGED <<log, gen, kept, time, position, checkpoint, stored, queue, times, read,
                 unreadable, again, since, crashes>>

-----------------------------------------------------------------------------
\* A poll.  Streams are sets of positions in `log`: a container's log has its
\* lines in that order, and a container stops before the next one starts.

\* What read_logs returns of a container, from a time on.
ReadLogs(c, t) == {i \in DOMAIN log : log[i].of = c /\ log[i].t >= t}

\* Slip: a line at the boundary is dropped whenever its hash is known.
AfterBoundary_BySet(stream, cursor) ==
  {i \in stream : \/ log[i].t > cursor.t
                  \/ log[i].t = cursor.t /\ cursor.hashes[log[i].h] = 0}

\* As many lines with the boundary's time stamp are dropped as it has hashes.
AfterBoundary(stream, cursor) ==
  IF cursor = NoCursor THEN stream
  ELSE LET before(i) == {j \in stream : j <= i /\ log[j].t = cursor.t /\ log[j].h = log[i].h}
       IN {i \in stream : \/ log[i].t > cursor.t
                          \/ /\ log[i].t = cursor.t
                             /\ Cardinality(before(i)) > cursor.hashes[log[i].h]}

IsEvent(i) == log[i].h \in Relevant

\* The lines of the container before are filed under the cursor's container.
IdentityOf(i) == IF log[i].of = container THEN container ELSE position.of

\* _cursor: the latest time stamp, how many lines carry it, counted from the
\* boundary on, and the identity of the stream the last line came from.
CursorOf(lines, boundary) ==
  LET last == CHOOSE i \in lines : \A j \in lines : j <= i
      here(h) == {i \in lines : log[i].t = log[last].t /\ log[i].h = h}
  IN [t |-> log[last].t, of |-> IdentityOf(last),
      hashes |-> [h \in Hashes |->
        Cardinality(here(h)) + IF boundary.t = log[last].t THEN boundary.hashes[h] ELSE 0]]

\* The batches, if any line is an event: a chunk is closed when it has enough
\* events and the next line has another time stamp and is an event.  Its cursor
\* also covers its lines that become no events.  batch_id is a hash of the
\* cursor and of the events' containers, time stamps, hashes and numbers among
\* their like, which tell the batches apart as this record does.
BatchesOf(lines, boundary) ==
  LET events == {i \in lines : IsEvent(i)}
      at(t) == {i \in lines : log[i].t = t}
      Full == {p \in (0..time) \X (0..time) :
                 /\ Cardinality({i \in events : p[1] <= log[i].t /\ log[i].t < p[2]}) >= BatchSize
                 /\ \E i \in at(p[2]) : IsEvent(i) /\ \A j \in at(p[2]) : i <= j}
      place == Place({log[i].t : i \in lines}, time, Full)
      chunk(n) == {i \in lines : place[log[i].t].number = n}
      batch(n) == [events |-> chunk(n) \cap events,
                   of |-> {IdentityOf(i) : i \in chunk(n) \cap events},
                   cursor |-> CursorOf(chunk(n), boundary)]
  IN IF events = {} THEN <<>> ELSE [n \in 1..place[time].number |-> batch(n)]

SamePod == position # NoCursor /\ position.of.pod = target
SameContainer == position # NoCursor /\ position.of = container
Previous == [container EXCEPT !.gen = @ - 1]

\* The lines a poll comes to see.  The kubelet has the log of the container
\* that runs and perhaps of the one before (without it, an event reports the
\* gap).  In a pod other than the cursor's, the log of the container that runs
\* is read from its beginning, and no other pod is asked.
Collected ==
  IF SameContainer THEN AfterBoundary(ReadLogs(container, position.t), position)
  ELSE IF SamePod
  THEN (IF kept[target] THEN AfterBoundary(ReadLogs(Previous, position.t), position) ELSE {})
       \cup ReadLogs(container, 0)
  ELSE ReadLogs(container, IF position = NoCursor THEN time ELSE 0)

\* _collect_target
PollTarget ==
  /\ queue = <<>>
  /\ LET lines == Collected
         made == BatchesOf(lines, position)
     IN /\ queue' = made
        /\ position' =
             IF lines = {}
             THEN IF position = NoCursor
                  THEN [t |-> time, of |-> container, hashes |-> [h \in Hashes |-> 0]]
                  ELSE position
             ELSE IF made # <<>> THEN made[Len(made)].cursor
             ELSE CursorOf(lines, position)
  /\ read' = DOMAIN log
  /\ since' = IF position = NoCursor THEN time ELSE since
  /\ LET gone(i) == /\ log[i].of # container
                    /\ ~(SamePod /\ kept[target] /\ log[i].of = Previous)
         fresh == {i \in DOMAIN log : i \notin read /\ times[i] = 0 /\ gone(i)}
     IN unreadable' = unreadable \cup fresh
  /\ again' = again \cup (IF SamePod THEN {} ELSE {i \in Collected : times[i] > 0})
  /\ UNCHANGED <<cluster, checkpoint, stored, times, crashes>>

\* A batch that has its receipt is a replay: acknowledged, and nothing stored.
DeliverBatch ==
  /\ queue # <<>>
  /\ LET b == Head(queue) IN
       \/ b \in stored /\ UNCHANGED <<times, checkpoint, stored>>
       \/ /\ b \notin stored
          /\ times' = [i \in DOMAIN times |-> times[i] + IF i \in b.events THEN 1 ELSE 0]
          /\ checkpoint' = b.cursor
          /\ stored' = stored \cup {b}
  /\ queue' = Tail(queue)
  /\ UNCHANGED <<cluster, position, read, unreadable, again, since, crashes>>

\* The plugin dies and starts again from the checkpoint.  What it had read and
\* not stored it has to find once more.
CrashPlugin ==
  /\ crashes < MaxCrashes
  /\ crashes' = crashes + 1
  /\ position' = checkpoint /\ queue' = <<>>
  /\ read' = {i \in read : IsEvent(i) /\ log[i].t >= since => times[i] > 0 \/ i \in unreadable}
  /\ UNCHANGED <<cluster, checkpoint, stored, times, unreadable, again, since>>

KubeNext ==
  \/ \E x \in Pods : WriteLine(x) \/ RestartContainer(x) \/ ReplacePod(x)
  \/ PollTarget \/ DeliverBatch \/ CrashPlugin

KubeSpec == KubeInit /\ [][KubeNext]_kubeVars

-----------------------------------------------------------------------------

\* Whatever the time stamps, the restarts and the crashes, an audit line is
\* stored once, unless the plugin came back to its pod from another and read it
\* again; and one that was written after collection began and that a finished
\* poll had before it is stored, unless that poll found its container gone or
\* its pod not the newest.
LinesCollected ==
  \A i \in DOMAIN log :
    /\ times[i] <= 1 \/ i \in again
    /\ (queue = <<>> /\ i \in read /\ IsEvent(i) /\ log[i].t >= since) =>
         times[i] >= 1 \/ i \in unreadable

=============================================================================
