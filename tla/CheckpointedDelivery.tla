------------------------- MODULE CheckpointedDelivery ------------------------
(***************************************************************************)
(* Delivery of checkpointed batches from a source to the indexer's tables: *)
(*                                                                         *)
(*   plugin process --event_queue--> sender process --socket--> consumer   *)
(*        ^                               |                        |       *)
(*        +-----------ack_queue-----------+                     database   *)
(*                                                                         *)
(* The plugin (src/agent/plugins/base.py and the run loops of              *)
(* kube_logs_plugin.py and keycloak_events_plugin.py) keeps one batch at a *)
(* time until it is acknowledged and queues it again on a timeout or a     *)
(* retryable nack.  The sender (plugin_process_manager.py) takes it off    *)
(* the queue, sends it on the current connection and passes the answer on. *)
(* Heartbeats and status events share the queue and are sent in lists      *)
(* without an answer.  The consumer is IndexerStore with one connection at *)
(* a time and its transaction as a single step.                            *)
(*                                                                         *)
(* A source is the number of records it has written; a cursor is the       *)
(* number of records up to it; a batch carries the records lo+1..hi and    *)
(* its batch_id, a hash of target, cursor and record identities, is the    *)
(* triple <<target, lo, hi>>.                                              *)
(***************************************************************************)
EXTENDS Integers, Sequences

CONSTANTS
  NumTargets,   \* the targets of the plugin, in the order of its configuration
  MaxRecords,   \* bound: records a source writes
  QueueSize,    \* queue_size: the capacity of event_queue and of ack_queue
  DrainLimit,   \* the most items the sender puts in one list (500)
  MaxCopies,    \* bound: copies of one batch outstanding when it times out
  Plans         \* what varies between behaviours and is fixed in each: see Plan

Faults == {"pluginCrash", "senderExit", "linkDrop", "ackTimeout", "writeFailed",
           "resumeRefused", "otherEvent"}

Plan == [
  batchSize: Nat \ {0},      \* batch_size of the plugin
  records: [1..NumTargets -> 0..MaxRecords], \* bound: records each source writes
  poison: SUBSET ((1..NumTargets) \X (1..MaxRecords)), \* records validation refuses
  skipsFailed: BOOLEAN,      \* TRUE for Keycloak, whose poll skips a failed target;
                             \* FALSE for kube_logs, whose poll dies on it
  limit: [Faults -> Nat]]    \* bound: how often each fault happens

ASSUME DeliveryAssumption ==
  /\ NumTargets \in Nat /\ MaxRecords \in Nat
  /\ QueueSize \in Nat \ {0} /\ DrainLimit \in Nat \ {0}
  /\ MaxCopies \in Nat \ {0}
  /\ Plans \subseteq Plan

Targets == 1..NumTargets
Positions == 0..MaxRecords
NoCursor == -1
Batches == {b \in [target: Targets, lo: Positions, hi: Positions] : b.lo < b.hi}
NoBatch == [target |-> 0, lo |-> 0, hi |-> 0]

\* An item of event_queue: a complete batch, or any other event.
BatchItem(b) == [kind |-> "batch", batch |-> b]
OtherEvent == [kind |-> "event", batch |-> NoBatch]
Items == {BatchItem(b) : b \in Batches} \cup {OtherEvent}

\* A message on the socket, and what the sender holds in `pending`.  A list
\* is reduced to the complete batches that were drained into it.
Resume == [kind |-> "resume", batch |-> NoBatch, list |-> {}]
BatchFrame(b) == [kind |-> "batch", batch |-> b, list |-> {}]
ListFrame(s) == [kind |-> "list", batch |-> NoBatch, list |-> s]
NoFrame == [kind |-> "none", batch |-> NoBatch, list |-> {}]
Frames == [kind: {"none", "resume", "batch", "list"},
           batch: Batches \cup {NoBatch}, list: SUBSET Batches]

\* An answer.  "retry" stands for a retryable nack and for the status the
\* sender makes up itself; "nack" is a permanent one.
Answer(b, status) == [batch |-> b, status |-> status]
NoAnswer == Answer(NoBatch, "none")
Answers == [batch: Batches \cup {NoBatch},
            status: {"none", "resumed", "ack", "nack", "retry"}]

VARIABLES
  plan,        \* the plan of this behaviour
  \* source
  written,     \* records written so far
  \* plugin process
  plugin,      \* "down", "polling", "enqueue", "waiting", "reporting"
  readPos,     \* read_positions
  ackedPos,    \* acknowledged_positions
  failed,      \* failed_targets
  todo,        \* collected batches not yet delivered, per target
  current,     \* the batch deliver_batch is working on
  \* shared by the processes of one manager
  eventQueue, ackQueue,
  \* sender process
  sender,      \* "dead", "offline", "ready", "resuming", "sending",
               \* "acking" and "retrying" (putting `outbox`)
  pending, resumed, outbox,
  \* socket and consumer
  linkUp, wire, bound, answer,
  orphans,     \* frames of a lost connection the indexer is still handling
  \* agent process
  agent,       \* "check" in its loop, or "put": waiting for room for a heartbeat
  \* database
  receipts,    \* the batches that have a receipt
  rows,        \* how many times the events of a batch were inserted
  checkpoint,  \* the stored cursor of each target
  rawStored,   \* batches stored as one opaque event
  \* history
  base,        \* where the latest collection without a checkpoint began
  stale,       \* a plugin started while a batch of an earlier one was neither
               \* stored nor lost
  faults

pluginVars == <<plugin, readPos, ackedPos, failed, todo, current>>
senderVars == <<sender, pending, resumed, outbox>>
linkVars == <<linkUp, wire, bound, answer, orphans>>
dbVars == <<receipts, rows, checkpoint, rawStored>>
\* What no process of this manager but the agent and the history keeps.
others == <<agent, base, stale, plan>>
vars == <<written, pluginVars, eventQueue, ackQueue, senderVars, linkVars, dbVars,
          others, faults>>

Init ==
  /\ plan \in Plans
  /\ written = [t \in Targets |-> 0]
  /\ plugin = "down"
  /\ readPos = [t \in Targets |-> NoCursor]
  /\ ackedPos = [t \in Targets |-> NoCursor]
  /\ failed = {}
  /\ todo = [t \in Targets |-> <<>>]
  /\ current = NoBatch
  /\ eventQueue = <<>>
  /\ ackQueue = <<>>
  /\ sender = "offline"
  /\ pending = NoFrame
  /\ resumed = FALSE
  /\ outbox = NoAnswer
  /\ linkUp = FALSE
  /\ wire = <<>>
  /\ bound = FALSE
  /\ answer = NoAnswer
  /\ orphans = {}
  /\ agent = "check"
  /\ receipts = {}
  /\ rows = [b \in Batches |-> 0]
  /\ checkpoint = [t \in Targets |-> NoCursor]
  /\ rawStored = {}
  /\ base = [t \in Targets |-> 0]
  /\ stale = FALSE
  /\ faults = [f \in Faults |-> 0]

Fault(f) ==
  /\ faults[f] < plan.limit[f]
  /\ faults' = [faults EXCEPT ![f] = @ + 1]

ElementsOf(s) == {s[i] : i \in DOMAIN s}

-----------------------------------------------------------------------------
\* The source.

Write(t) ==
  /\ written[t] < plan.records[t]
  /\ written' = [written EXCEPT ![t] = @ + 1]
  /\ UNCHANGED <<pluginVars, eventQueue, ackQueue, senderVars, linkVars, dbVars, others, faults>>

-----------------------------------------------------------------------------
\* The plugin process.

\* The batches that are on their way to the database.
InFlight ==
  {i.batch : i \in {j \in ElementsOf(eventQueue) : j.kind = "batch"}}
  \cup {f.batch : f \in {g \in {pending} \cup ElementsOf(wire) \cup orphans : g.kind = "batch"}}

\* check_and_restart of the plugin, then its run: fetch_checkpoints on a
\* connection of its own; when that fails the process ends and is started
\* again, which changes nothing.
PluginStart ==
  /\ agent = "check"
  /\ plugin = "down"
  /\ plugin' = "polling"
  /\ readPos' = checkpoint
  /\ ackedPos' = checkpoint
  /\ failed' = {}
  /\ todo' = [t \in Targets |-> <<>>]
  /\ current' = NoBatch
  /\ stale' = (stale \/ ~(InFlight \subseteq receipts))
  /\ UNCHANGED <<written, eventQueue, ackQueue, senderVars, linkVars, dbVars, agent,
                 base, plan, faults>>

MinOf(a, b) == IF a <= b THEN a ELSE b

\* The records lo+1..hi cut into batches of at most plan.batchSize.
Chunks(t, lo, hi) ==
  LET size == plan.batchSize IN
  [i \in 1..((hi - lo + size - 1) \div size) |->
    [target |-> t, lo |-> lo + (i - 1) * size, hi |-> MinOf(hi, lo + i * size)]]

Idle == plugin = "polling" /\ current = NoBatch /\ \A t \in Targets : todo[t] = <<>>

\* collect_once.  A target that has no cursor starts from now: what was
\* written before is not collected.
Poll ==
  /\ Idle
  /\ failed = {} \/ plan.skipsFailed
  /\ LET fresh == {t \in Targets \ failed : readPos[t] = NoCursor}
         ready == {t \in Targets \ failed : readPos[t] # NoCursor}
     IN /\ base' = [t \in Targets |-> IF t \in fresh THEN written[t] ELSE base[t]]
        /\ readPos' = [t \in Targets |-> IF t \in failed THEN readPos[t] ELSE written[t]]
        /\ todo' = [t \in Targets |->
                      IF t \in ready THEN Chunks(t, readPos[t], written[t]) ELSE <<>>]
  /\ UNCHANGED <<written, plugin, ackedPos, failed, current, eventQueue, ackQueue,
                 senderVars, linkVars, dbVars, agent, stale, plan, faults>>

\* What the process remembers dies with it; the queues belong to the manager.
Die ==
  /\ plugin' = "down"
  /\ readPos' = [t \in Targets |-> NoCursor]
  /\ ackedPos' = [t \in Targets |-> NoCursor]
  /\ failed' = {}
  /\ todo' = [t \in Targets |-> <<>>]
  /\ current' = NoBatch
  /\ UNCHANGED <<written, eventQueue, ackQueue, senderVars, linkVars, dbVars, others>>

\* kube_logs: _collect_target returns None for a failed target and
\* batches.extend(None) raises, which ends the process.
PollDies ==
  /\ Idle
  /\ failed # {} /\ ~plan.skipsFailed
  /\ Die
  /\ UNCHANGED faults

PluginCrash ==
  /\ plugin # "down"
  /\ Fault("pluginCrash")
  /\ Die

\* deliver_batch begins; batches of a failed target are dropped.  Targets are
\* delivered in order, one batch at a time.
Deliver(t) ==
  /\ plugin = "polling" /\ current = NoBatch
  /\ todo[t] # <<>>
  /\ \A s \in Targets : s < t => todo[s] = <<>>
  /\ todo' = [todo EXCEPT ![t] = Tail(@)]
  /\ IF t \in failed
     THEN UNCHANGED <<plugin, current>>
     ELSE plugin' = "enqueue" /\ current' = Head(todo[t])
  /\ UNCHANGED <<written, readPos, ackedPos, failed, eventQueue, ackQueue, senderVars,
                 linkVars, dbVars, others, faults>>

\* Slip: the capacity of the queue is not respected.
Enqueue_Unbounded ==
  /\ plugin = "enqueue"
  /\ eventQueue' = Append(eventQueue, BatchItem(current))
  /\ plugin' = "waiting"
  /\ UNCHANGED <<written, readPos, ackedPos, failed, todo, current, ackQueue, senderVars,
                 linkVars, dbVars, others, faults>>

\* enqueue_batch waits for room in the queue.
Enqueue ==
  /\ plugin = "enqueue"
  /\ Len(eventQueue) < QueueSize
  /\ eventQueue' = Append(eventQueue, BatchItem(current))
  /\ plugin' = "waiting"
  /\ UNCHANGED <<written, readPos, ackedPos, failed, todo, current, ackQueue, senderVars,
                 linkVars, dbVars, others, faults>>

\* Slip: any answer is taken for the answer to the batch in flight.
TakeAnswer_AnyBatch ==
  /\ plugin = "waiting"
  /\ ackQueue # <<>>
  /\ ackQueue' = Tail(ackQueue)
  /\ \/ /\ Head(ackQueue).status = "ack"
        /\ ackedPos' = [ackedPos EXCEPT ![current.target] = current.hi]
        /\ plugin' = "polling" /\ current' = NoBatch
     \/ /\ Head(ackQueue).status # "ack"
        /\ plugin' = "enqueue"
        /\ UNCHANGED <<ackedPos, current>>
  /\ UNCHANGED <<written, readPos, failed, todo, eventQueue, senderVars, linkVars, dbVars,
                 others, faults>>

\* _next_acknowledgement: an answer to anything but the batch in flight is
\* thrown away.  An ack ends the delivery, a permanent nack stops the target,
\* and anything else queues the same batch again (after a wait).
TakeAnswer ==
  /\ plugin = "waiting"
  /\ ackQueue # <<>>
  /\ ackQueue' = Tail(ackQueue)
  /\ LET a == Head(ackQueue)
         t == current.target
     IN \/ /\ a.batch # current
           /\ UNCHANGED <<plugin, ackedPos, failed, current>>
        \/ /\ a.batch = current /\ a.status = "ack"
           /\ ackedPos' = [ackedPos EXCEPT ![t] = current.hi]
           /\ plugin' = "polling" /\ current' = NoBatch
           /\ UNCHANGED failed
        \/ /\ a.batch = current /\ a.status = "nack"
           /\ failed' = failed \cup {t}
           /\ plugin' = "reporting"
           /\ UNCHANGED <<ackedPos, current>>
        \/ /\ a.batch = current /\ a.status = "retry"
           /\ plugin' = "enqueue"
           /\ UNCHANGED <<ackedPos, failed, current>>
  /\ UNCHANGED <<written, readPos, todo, eventQueue, senderVars, linkVars, dbVars, others, faults>>

\* The collection_status event of a failed target, then PermanentDeliveryError.
Report ==
  /\ plugin = "reporting"
  /\ Len(eventQueue) < QueueSize
  /\ eventQueue' = Append(eventQueue, OtherEvent)
  /\ plugin' = "polling" /\ current' = NoBatch
  /\ UNCHANGED <<written, readPos, ackedPos, failed, todo, ackQueue, senderVars, linkVars,
                 dbVars, others, faults>>

\* How many copies of the batch in flight may still be answered.
Copies ==
  Len(SelectSeq(eventQueue, LAMBDA i : i.kind = "batch" /\ i.batch = current))
  + (IF pending.kind = "batch" /\ pending.batch = current THEN 1 ELSE 0)
  + (IF outbox.batch = current THEN 1 ELSE 0)

\* Slip: on a timeout the plugin goes on waiting.
Timeout_KeepsWaiting ==
  /\ plugin = "waiting"
  /\ ackQueue = <<>>
  /\ Copies < MaxCopies
  /\ UNCHANGED vars

\* Slip: the batch is built again, with what the source has written since.
Timeout_Rebuilds ==
  /\ plugin = "waiting"
  /\ ackQueue = <<>>
  /\ Copies < MaxCopies
  /\ plugin' = "enqueue"
  /\ current' = [current EXCEPT !.hi = written[current.target]]
  /\ UNCHANGED <<written, readPos, ackedPos, failed, todo, eventQueue, ackQueue,
                 senderVars, linkVars, dbVars, others, faults>>

\* No answer within the timeout: the same batch is queued again, whatever has
\* become of the copies queued before.
Timeout ==
  /\ plugin = "waiting"
  /\ ackQueue = <<>>
  /\ Copies < MaxCopies
  /\ plugin' = "enqueue"
  /\ UNCHANGED <<written, readPos, ackedPos, failed, todo, current, eventQueue, ackQueue,
                 senderVars, linkVars, dbVars, others, faults>>

-----------------------------------------------------------------------------
\* The agent process: a loop that restarts what has died and then puts the
\* heartbeats that are due, and restarts nothing while it waits in put.

\* check_and_restart of the sender.
SenderRestart ==
  /\ agent = "check"
  /\ sender = "dead"
  /\ sender' = "offline"
  /\ UNCHANGED <<written, pluginVars, eventQueue, ackQueue, pending, resumed, outbox,
                 linkVars, dbVars, others, faults>>

\* A heartbeat interval has passed.
HeartbeatDue ==
  /\ agent = "check"
  /\ Fault("otherEvent")
  /\ agent' = "put"
  /\ UNCHANGED <<written, pluginVars, eventQueue, ackQueue, senderVars, linkVars, dbVars,
                 base, stale, plan>>

\* event_queue.put waits for room.  A status event that the plugin puts
\* between two batches looks the same in the queue.
QueueOtherEvent ==
  /\ agent = "put"
  /\ Len(eventQueue) < QueueSize
  /\ eventQueue' = Append(eventQueue, OtherEvent)
  /\ agent' = "check"
  /\ UNCHANGED <<written, pluginVars, ackQueue, senderVars, linkVars, dbVars, base, stale,
                 plan, faults>>

-----------------------------------------------------------------------------
\* The connection.

\* The socket is gone.  The indexer may have taken any prefix of the frames
\* under way; it goes on handling them, and nobody hears the answers.
DropLink ==
  /\ linkUp' = FALSE
  /\ wire' = <<>>
  /\ bound' = FALSE
  /\ \E n \in 0..Len(wire) :
       orphans' = orphans \cup {f \in ElementsOf(SubSeq(wire, 1, n)) : f.kind # "resume"}

\* The network or the indexer drops the connection.  An answer that has
\* arrived can still be read, one that has not is lost.
LinkDrop ==
  /\ linkUp
  /\ Fault("linkDrop")
  /\ DropLink
  /\ answer' \in {answer, NoAnswer}
  /\ UNCHANGED <<written, pluginVars, eventQueue, ackQueue, senderVars, dbVars, others>>

-----------------------------------------------------------------------------
\* The sender process.

\* authenticate and connect.
SenderConnect ==
  /\ sender = "offline"
  /\ sender' = "ready"
  /\ resumed' = FALSE
  /\ linkUp' = TRUE
  /\ UNCHANGED <<written, pluginVars, eventQueue, ackQueue, pending, outbox, wire, bound,
                 answer, orphans, dbVars, others, faults>>

\* The process ends: killed at any point, or by giving up authentication.
SenderExit ==
  /\ sender # "dead"
  /\ Fault("senderExit")
  /\ sender' = "dead"
  /\ pending' = NoFrame /\ resumed' = FALSE /\ outbox' = NoAnswer
  /\ answer' = NoAnswer
  /\ DropLink
  /\ UNCHANGED <<written, pluginVars, eventQueue, ackQueue, dbVars, others>>

\* A complete batch is taken alone.  Any other first item opens a list that
\* takes whatever follows it in the queue, complete batches included.
Drain ==
  /\ sender = "ready" /\ pending = NoFrame
  /\ eventQueue # <<>>
  /\ LET first == Head(eventQueue) IN
       \/ /\ first.kind = "batch"
          /\ pending' = BatchFrame(first.batch)
          /\ eventQueue' = Tail(eventQueue)
       \/ /\ first.kind = "event"
          /\ \E n \in 1..MinOf(DrainLimit, Len(eventQueue)) :
               /\ pending' = ListFrame({i.batch : i \in
                    {j \in ElementsOf(SubSeq(eventQueue, 1, n)) : j.kind = "batch"}})
               /\ eventQueue' = SubSeq(eventQueue, n + 1, Len(eventQueue))
  /\ UNCHANGED <<written, pluginVars, ackQueue, sender, resumed, outbox, linkVars, dbVars,
                 others, faults>>

\* websocket.send: a list needs no answer, a batch needs the connection to
\* have resumed this agent first.
Send ==
  /\ sender = "ready" /\ pending # NoFrame
  /\ linkUp
  /\ \/ /\ pending.kind = "list"
        /\ wire' = Append(wire, pending)
        /\ pending' = NoFrame
        /\ UNCHANGED sender
     \/ /\ pending.kind = "batch" /\ resumed
        /\ wire' = Append(wire, pending)
        /\ sender' = "sending"
        /\ UNCHANGED pending
     \/ /\ pending.kind = "batch" /\ ~resumed
        /\ wire' = Append(wire, Resume)
        /\ sender' = "resuming"
        /\ UNCHANGED pending
  /\ UNCHANGED <<written, pluginVars, eventQueue, ackQueue, resumed, outbox, linkUp, bound,
                 answer, orphans, dbVars, others, faults>>

\* The answer to resume: go on with the batch, or hand the nack to the plugin
\* as an answer to the batch that needed the resume.
ReceiveResume ==
  /\ sender = "resuming" /\ answer # NoAnswer
  /\ answer' = NoAnswer
  /\ IF answer.status = "resumed"
     THEN /\ resumed' = TRUE
          /\ sender' = "ready"
          /\ UNCHANGED <<pending, outbox>>
     ELSE /\ outbox' = Answer(pending.batch, answer.status)
          /\ pending' = NoFrame
          /\ sender' = "acking"
          /\ UNCHANGED resumed
  /\ UNCHANGED <<written, pluginVars, eventQueue, ackQueue, linkUp, wire, bound, orphans,
                 dbVars, others, faults>>

\* The answer to the batch being sent.
ReceiveAnswer ==
  /\ sender = "sending" /\ answer # NoAnswer
  /\ answer.batch = pending.batch
  /\ answer' = NoAnswer
  /\ outbox' = answer
  /\ pending' = NoFrame
  /\ sender' = "acking"
  /\ UNCHANGED <<written, pluginVars, eventQueue, ackQueue, resumed, linkUp, wire, bound,
                 orphans, dbVars, others, faults>>

\* Slip: the connection is kept after an exception.
Fail_KeepsLink ==
  /\ answer' = NoAnswer
  /\ IF pending.kind = "batch"
     THEN /\ outbox' = Answer(pending.batch, "retry")
          /\ pending' = NoFrame
          /\ sender' = "acking"
     ELSE /\ sender' = "ready"
          /\ UNCHANGED <<outbox, pending>>
  /\ UNCHANGED <<written, pluginVars, eventQueue, ackQueue, resumed, linkUp, wire, bound,
                 orphans, dbVars, others>>

\* Any exception leaves the connection.  The plugin is told to retry a batch,
\* a list is held for the next connection.
Fail ==
  /\ DropLink
  /\ answer' = NoAnswer
  /\ IF pending.kind = "batch"
     THEN /\ outbox' = Answer(pending.batch, "retry")
          /\ pending' = NoFrame
          /\ sender' = "retrying"
     ELSE /\ sender' = "offline"
          /\ UNCHANGED <<outbox, pending>>
  /\ UNCHANGED <<written, pluginVars, eventQueue, ackQueue, resumed, dbVars, others>>

\* The connection is found closed when sending or while waiting to receive,
\* or the answer is to another batch.
SenderFails ==
  /\ \/ sender = "ready" /\ pending # NoFrame /\ ~linkUp
     \/ sender \in {"resuming", "sending"} /\ ~linkUp /\ answer = NoAnswer
     \/ sender = "sending" /\ answer # NoAnswer /\ answer.batch # pending.batch
  /\ Fail
  /\ UNCHANGED faults

\* ack_timeout runs out before the answer arrives.
AckTimeout ==
  /\ sender \in {"resuming", "sending"} /\ answer = NoAnswer
  /\ Fault("ackTimeout")
  /\ Fail

\* ack_queue.put waits for room; then on with this connection or the next.
PutAnswer ==
  /\ sender \in {"acking", "retrying"}
  /\ Len(ackQueue) < QueueSize
  /\ ackQueue' = Append(ackQueue, outbox)
  /\ outbox' = NoAnswer
  /\ sender' = IF sender = "acking" THEN "ready" ELSE "offline"
  /\ UNCHANGED <<written, pluginVars, eventQueue, pending, resumed, linkVars, dbVars, others,
                 faults>>

-----------------------------------------------------------------------------
\* The consumer and the database.

Refused(b) == \E i \in (b.lo + 1)..b.hi : <<b.target, i>> \in plan.poison

\* Slip: a replayed batch sets the checkpoint again.
Persist_ReplayMovesCheckpoint(b) ==
  /\ receipts' = receipts \cup {b}
  /\ rows' = [rows EXCEPT ![b] = IF b \in receipts THEN @ ELSE @ + 1]
  /\ checkpoint' = [checkpoint EXCEPT ![b.target] = b.hi]
  /\ UNCHANGED rawStored

\* _persist_typed_batch of a batch that validation accepts.
Persist(b) ==
  IF b \in receipts
  THEN UNCHANGED dbVars
  ELSE /\ receipts' = receipts \cup {b}
       /\ rows' = [rows EXCEPT ![b] = @ + 1]
       /\ checkpoint' = [checkpoint EXCEPT ![b.target] = b.hi]
       /\ UNCHANGED rawStored

\* create_events on a list stores a complete batch as one opaque event.
StoreList(s) ==
  /\ rawStored' = rawStored \cup s
  /\ UNCHANGED <<receipts, rows, checkpoint>>

\* The consumer of the current connection handles the next frame.
TakeFrame ==
  /\ linkUp /\ wire # <<>>
  /\ wire' = Tail(wire)
  /\ UNCHANGED <<written, pluginVars, eventQueue, ackQueue, senderVars, linkUp, orphans, others>>

ConsumeResume ==
  /\ TakeFrame
  /\ Head(wire).kind = "resume"
  /\ \/ /\ bound' = TRUE
        /\ answer' = Answer(NoBatch, "resumed")
        /\ UNCHANGED faults
     \/ /\ Fault("writeFailed")
        /\ answer' = Answer(NoBatch, "retry")
        /\ UNCHANGED bound
     \/ /\ Fault("resumeRefused")     \* agent_id_owned_by_another_user
        /\ answer' = Answer(NoBatch, "nack")
        /\ UNCHANGED bound
  /\ UNCHANGED dbVars

ConsumeBatch ==
  /\ TakeFrame
  /\ Head(wire).kind = "batch"
  /\ LET b == Head(wire).batch IN
       \/ /\ ~bound \/ Refused(b)     \* resume_required, or invalid events
          /\ answer' = Answer(b, "nack")
          /\ UNCHANGED <<dbVars, faults>>
       \/ /\ bound /\ ~Refused(b)
          /\ Persist(b)
          /\ answer' = Answer(b, "ack")
          /\ UNCHANGED faults
       \/ /\ bound
          /\ Fault("writeFailed")
          /\ answer' = Answer(b, "retry")
          /\ UNCHANGED dbVars
  /\ UNCHANGED bound

ConsumeList ==
  /\ TakeFrame
  /\ Head(wire).kind = "list"
  /\ StoreList(Head(wire).list)
  /\ UNCHANGED <<bound, answer, faults>>

\* A frame of a lost connection is handled to its end, or dies with the
\* indexer process before anything is committed.
ConsumeOrphan(f) ==
  /\ orphans' = orphans \ {f}
  /\ \/ f.kind = "batch" /\ ~Refused(f.batch) /\ Persist(f.batch)
     \/ f.kind = "list" /\ StoreList(f.list)
     \/ UNCHANGED dbVars
  /\ UNCHANGED <<written, pluginVars, eventQueue, ackQueue, senderVars, linkUp, wire, bound,
                 answer, others, faults>>

-----------------------------------------------------------------------------

PluginStep ==
  \/ Poll \/ PollDies
  \/ (\E t \in Targets : Deliver(t))
  \/ Enqueue \/ TakeAnswer \/ Report \/ Timeout

SenderStep ==
  \/ SenderConnect \/ Drain \/ Send \/ ReceiveResume \/ ReceiveAnswer
  \/ SenderFails \/ PutAnswer

AgentStep == PluginStart \/ SenderRestart \/ HeartbeatDue \/ QueueOtherEvent

IndexerStep == ConsumeResume \/ ConsumeBatch \/ ConsumeList

FaultStep == PluginCrash \/ SenderExit \/ LinkDrop \/ AckTimeout

Next ==
  \/ \E t \in Targets : Write(t)
  \/ PluginStep \/ SenderStep \/ AgentStep \/ IndexerStep \/ FaultStep
  \/ \E f \in orphans : ConsumeOrphan(f)

Spec == Init /\ [][Next]_vars

\* The processes keep running: the plugin and the sender are loops the
\* operating system schedules, the consumer handles what it receives, and the
\* agent, while it is in its loop, restarts each process that has died and puts
\* its heartbeat when there is room.  An agent that waits in put restarts
\* nothing.  Nothing is assumed of the source, of the faults (each happens
\* finitely often) or of the frames of a lost connection.
Fairness ==
  /\ WF_vars(PluginStep)
  /\ WF_vars(SenderStep)
  /\ WF_vars(IndexerStep)
  /\ WF_vars(PluginStart)
  /\ WF_vars(SenderRestart)
  /\ WF_vars(QueueOtherEvent)

FairSpec == Spec /\ Fairness

-----------------------------------------------------------------------------

\* Processes, queues and tables hold what they are made for, and no queue
\* ever exceeds the capacity multiprocessing gave it.
TypeOK ==
  /\ written \in [Targets -> Positions]
  /\ plugin \in {"down", "polling", "enqueue", "waiting", "reporting"}
  /\ readPos \in [Targets -> Positions \cup {NoCursor}]
  /\ ackedPos \in [Targets -> Positions \cup {NoCursor}]
  /\ failed \subseteq Targets
  /\ todo \in [Targets -> Seq(Batches)]
  /\ current \in Batches \cup {NoBatch}
  /\ eventQueue \in Seq(Items) /\ Len(eventQueue) <= QueueSize
  /\ ackQueue \in Seq(Answers) /\ Len(ackQueue) <= QueueSize
  /\ sender \in {"dead", "offline", "ready", "resuming", "sending", "acking", "retrying"}
  /\ pending \in Frames
  /\ resumed \in BOOLEAN
  /\ outbox \in Answers
  /\ linkUp \in BOOLEAN
  /\ wire \in Seq(Frames)
  /\ bound \in BOOLEAN
  /\ answer \in Answers
  /\ orphans \subseteq Frames
  /\ agent \in {"check", "put"}
  /\ receipts \subseteq Batches
  /\ rows \in [Batches -> Nat]
  /\ checkpoint \in [Targets -> Positions \cup {NoCursor}]
  /\ rawStored \subseteq Batches
  /\ base \in [Targets -> Positions]
  /\ stale \in BOOLEAN
  /\ faults \in [Faults -> Nat]

Holds(b, t, i) == b.target = t /\ b.lo < i /\ i <= b.hi
Stored(t, i) == \E b \in receipts : Holds(b, t, i)

\* No gap: whatever the plugin believes acknowledged, and whatever the
\* checkpoint covers, is stored back to where collection began.
NoGap ==
  \A t \in Targets : \A i \in Positions :
    (base[t] < i /\ (i <= checkpoint[t] \/ i <= ackedPos[t])) => Stored(t, i)

\* No record is stored under two batches, unless a plugin was started while a
\* batch of its predecessor was still neither stored nor lost.
NoRecordTwice ==
  ~stale => \A a, b \in receipts : a = b \/ a.target # b.target \/ a.hi <= b.lo \/ b.hi <= a.lo

\* The sender is never handed the answer to another batch than the one it
\* waits for, although answers carry no sequence number and arrive late.
AnswersMatch ==
  answer # NoAnswer => /\ sender = "sending" => answer.batch = pending.batch
                       /\ sender = "resuming" => answer.batch = NoBatch

\* The stored checkpoint never moves back, under the same condition.
CheckpointAdvances ==
  [][~stale => \A t \in Targets : checkpoint'[t] >= checkpoint[t]]_vars

\* The agent waits for room in a queue that only the dead sender would empty,
\* and only the agent could restart the sender.
Wedged == agent = "put" /\ Len(eventQueue) = QueueSize /\ sender = "dead"

\* Every record written after collection began is stored in the end, however
\* the finitely many faults fall, unless its target cannot be delivered or the
\* sender died while the agent had a heartbeat to put in a full queue.
Deliverable(t) == \A p \in plan.poison : p[1] # t
EventuallyStored ==
  \A t \in Targets : \A i \in Positions \ {0} :
    written[t] >= i ~> (Stored(t, i) \/ i <= base[t] \/ ~Deliverable(t) \/ t \in failed
                        \/ Wedged)

\* A complete batch is sent as a typed batch that is answered, never as part
\* of a list that is not.
NoBatchStoredRaw == rawStored = {}

\* A target that was refused for good stays stopped.
FailedTargetStaysStopped == [][failed \subseteq failed']_vars

\* The tables implement the ledger.
NoReceipt == [cursor |-> NoCursor, content |-> NoBatch]
Ledger == INSTANCE BatchLedger WITH
  Ids <- Batches, Cursors <- Positions, Contents <- Batches, NoReceipt <- NoReceipt,
  TargetOf <- [b \in Batches |-> b.target],
  receipts <- [b \in Batches |-> IF b \in receipts THEN [cursor |-> b.hi, content |-> b]
                                 ELSE NoReceipt]
LedgerSpec == Ledger!Spec
=============================================================================
