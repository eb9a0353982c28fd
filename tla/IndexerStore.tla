----------------------------- MODULE IndexerStore ----------------------------
(***************************************************************************)
(* The typed-batch side of the indexer: the WebSocket consumer             *)
(* (src/indexer/consumers.py) and the tables it keeps                      *)
(* (src/agent/models.py, and the Event rows).                              *)
(*                                                                         *)
(* Every connection is served by one consumer, which handles one message   *)
(* at a time; consumers of different connections interleave freely.  A     *)
(* message is handled in steps, one per point where a database transaction *)
(* takes a row lock, so two transactions can meet at every lock.  A        *)
(* consumer goes on with the message it is handling when its client is     *)
(* gone; only the answer is lost.                                          *)
(*                                                                         *)
(* Locks are those of a row-locking database (PostgreSQL): an uncommitted  *)
(* unique key, or an updated row, makes the next writer wait for commit or *)
(* rollback.  SQLite, with one writer at a time, has fewer interleavings.  *)
(***************************************************************************)
EXTENDS Integers, FiniteSets

CONSTANTS
  Conns,      \* connection slots; a closed slot can be opened again
  Users,      \* users who may add events
  AgentIds,   \* agent_id values
  Targets,    \* checkpoint targets
  BatchIds,   \* batch_id values
  Cursors,    \* cursors a batch may carry
  Contents,   \* event lists a batch may carry
  Invalid,    \* the contents that validation refuses
  Size,       \* the number of events in each content
  None,       \* absence of a value
  MaxAgentRows, \* bound: no Agent row is deleted after this many were created
  MaxPrunes,    \* bound: receipts deleted by prune_batch_receipts
  MaxDbErrors,  \* bound: database errors inside a handler
  MaxCrashes    \* bound: crashes of the indexer process

Keys == Targets \X BatchIds
Receipt == [cursor: Cursors, content: Contents]
BatchMsg == [agentId: AgentIds, key: Keys, cursor: Cursors, content: Contents]
ResumeMsg == [wants: AgentIds]
Checkpoint == [cursor: Cursors, delivered: Nat]
AgentRow == [pk: Nat, owner: Users \cup {None}, delivered: Nat]
Phases == {"closed", "idle", "resume", "create", "save",
           "receipt", "touch", "agent", "checkpoint", "commit"}

ASSUME StoreAssumption ==
  /\ Invalid \subseteq Contents
  /\ Size \in [Contents -> Nat \ {0}]
  /\ None \notin Users \cup AgentIds \cup Cursors
  /\ None \notin Receipt \cup BatchMsg \cup ResumeMsg \cup Checkpoint
  /\ MaxAgentRows \in Nat /\ MaxPrunes \in Nat
  /\ MaxDbErrors \in Nat /\ MaxCrashes \in Nat

VARIABLES
  \* one consumer per connection
  phase,       \* where its handler is; "idle" waits for a message
  open,        \* FALSE once the client has gone away
  user,        \* the authenticated user of the connection
  boundId,     \* self.agent_id
  boundPk,     \* self.agent_pk
  msg,         \* the message being handled
  \* values an open transaction has written but not committed
  stagedAgent,      \* Agent.events_delivered
  stagedCheckpoint, \* the Checkpoint row
  \* the committed tables
  agents,      \* Agent rows; pk 0 is no row
  nextPk,      \* the next primary key of Agent
  receipts,    \* BatchReceipt rows
  rows,        \* how many times the events of a key were inserted
  eventRows,   \* Event rows stored for each target
  checkpoints, \* Checkpoint rows
  \* history
  acked,       \* every <<key, cursor, content>> a handler answered with ack
  credited,    \* events committed through the current Agent row
  pruned,      \* how often the receipt of a key was pruned
  spent        \* uses of the bounded faults

connVars == <<phase, open, user, boundId, boundPk, msg, stagedAgent, stagedCheckpoint>>
tables == <<agents, nextPk, receipts, rows, eventRows, checkpoints>>
history == <<acked, credited, pruned, spent>>
vars == <<connVars, tables, history>>

NoAgent == [pk |-> 0, owner |-> None, delivered |-> 0]

Init ==
  /\ phase = [c \in Conns |-> "closed"]
  /\ open = [c \in Conns |-> FALSE]
  /\ user = [c \in Conns |-> None]
  /\ boundId = [c \in Conns |-> None]
  /\ boundPk = [c \in Conns |-> 0]
  /\ msg = [c \in Conns |-> None]
  /\ stagedAgent = [c \in Conns |-> 0]
  /\ stagedCheckpoint = [c \in Conns |-> None]
  /\ agents = [a \in AgentIds |-> NoAgent]
  /\ nextPk = 1
  /\ receipts = [k \in Keys |-> None]
  /\ rows = [k \in Keys |-> 0]
  /\ eventRows = [t \in Targets |-> 0]
  /\ checkpoints = [t \in Targets |-> None]
  /\ acked = {}
  /\ credited = [a \in AgentIds |-> 0]
  /\ pruned = [k \in Keys |-> 0]
  /\ spent = [dbError |-> 0, crash |-> 0]

-----------------------------------------------------------------------------
\* Which connection's open transaction holds which row.

HoldsKey(c, k) == phase[c] \in {"agent", "checkpoint", "commit"} /\ msg[c].key = k
HoldsAgent(c, a) == \/ phase[c] \in {"checkpoint", "commit"} /\ boundId[c] = a
                                                             /\ boundPk[c] = agents[a].pk
                    \/ phase[c] = "save" /\ msg[c].wants = a
HoldsCheckpoint(c, t) == phase[c] = "commit" /\ msg[c].key[1] = t

KeyFree(c, k) == \A d \in Conns \ {c} : ~HoldsKey(d, k)
\* Slip: the agent stays locked for as long as a connection is bound to it.
AgentFree_Session(c, a) ==
  \A d \in Conns \ {c} : ~(phase[d] # "closed" /\ boundId[d] = a)

AgentFree(c, a) == \A d \in Conns \ {c} : ~HoldsAgent(d, a)
CheckpointFree(c, t) == \A d \in Conns \ {c} : ~HoldsCheckpoint(d, t)

\* The handler is done with its message, whatever it answered; what its
\* transaction had staged is gone (a commit has copied it to the tables first).
Finish(c) ==
  /\ phase' = [phase EXCEPT ![c] = IF open[c] THEN "idle" ELSE "closed"]
  /\ msg' = [msg EXCEPT ![c] = None]
  /\ stagedAgent' = [stagedAgent EXCEPT ![c] = 0]
  /\ stagedCheckpoint' = [stagedCheckpoint EXCEPT ![c] = None]
  /\ UNCHANGED <<open, user>>

\* An answer that leaves every table as it was: a nack after a rollback.
Nack(c) == Finish(c) /\ UNCHANGED <<boundId, boundPk, tables, acked, credited, pruned>>

-----------------------------------------------------------------------------
\* Connections.

\* connect: an authenticated user with events.add_event is accepted.
Connect(c, u) ==
  /\ phase[c] = "closed"
  /\ phase' = [phase EXCEPT ![c] = "idle"]
  /\ open' = [open EXCEPT ![c] = TRUE]
  /\ user' = [user EXCEPT ![c] = u]
  /\ boundId' = [boundId EXCEPT ![c] = None]
  /\ boundPk' = [boundPk EXCEPT ![c] = 0]
  /\ UNCHANGED <<msg, stagedAgent, stagedCheckpoint, tables, history>>

\* The client goes away; a handler already running is not interrupted.
HangUp(c) ==
  /\ phase[c] # "closed"
  /\ open[c]
  /\ open' = [open EXCEPT ![c] = FALSE]
  /\ phase' = [phase EXCEPT ![c] = IF @ = "idle" THEN "closed" ELSE @]
  /\ UNCHANGED <<user, boundId, boundPk, msg, stagedAgent, stagedCheckpoint, tables, history>>

-----------------------------------------------------------------------------
\* resume: _handle_resume and _resume_agent.

\* A second resume on a connection is refused (resume_already_received)
\* and changes nothing, so only the first one is a step.
ReceiveResume(c, a) ==
  /\ phase[c] = "idle"
  /\ boundId[c] = None
  /\ phase' = [phase EXCEPT ![c] = "resume"]
  /\ msg' = [msg EXCEPT ![c] = [wants |-> a]]
  /\ UNCHANGED <<open, user, boundId, boundPk, stagedAgent, stagedCheckpoint, tables, history>>

\* Slip: the row is read without select_for_update.
ResumeSelect_NoLock(c) ==
  /\ phase[c] = "resume"
  /\ LET a == msg[c].wants IN
       IF agents[a].owner \notin {None, user[c]}
       THEN Nack(c) /\ UNCHANGED spent
       ELSE /\ phase' = [phase EXCEPT ![c] = IF agents[a].pk = 0 THEN "create" ELSE "save"]
            /\ stagedAgent' = [stagedAgent EXCEPT ![c] = agents[a].delivered]
            /\ UNCHANGED <<open, user, boundId, boundPk, msg, stagedCheckpoint, tables, history>>

\* select_for_update finds and locks the row, or finds none and locks nothing.
ResumeSelect(c) ==
  /\ phase[c] = "resume"
  /\ LET a == msg[c].wants IN
       /\ AgentFree(c, a)
       /\ IF agents[a].owner \notin {None, user[c]}
          THEN Nack(c) /\ UNCHANGED spent     \* agent_id_owned_by_another_user
          ELSE /\ phase' = [phase EXCEPT ![c] = IF agents[a].pk = 0 THEN "create" ELSE "save"]
               /\ stagedAgent' = [stagedAgent EXCEPT ![c] = agents[a].delivered]
               /\ UNCHANGED <<open, user, boundId, boundPk, msg, stagedCheckpoint, tables, history>>

Bind(c, a, pk) ==
  /\ boundId' = [boundId EXCEPT ![c] = a]
  /\ boundPk' = [boundPk EXCEPT ![c] = pk]

\* agent.save() writes every column of the locked row, events_delivered as
\* read included; commit, then self.agent_id and self.agent_pk.
ResumeSave(c) ==
  /\ phase[c] = "save"
  /\ LET a == msg[c].wants IN
       /\ agents' = [agents EXCEPT ![a] =
                        [pk |-> @.pk, owner |-> user[c], delivered |-> stagedAgent[c]]]
       /\ Bind(c, a, agents[a].pk)
  /\ Finish(c)
  /\ UNCHANGED <<nextPk, receipts, rows, eventRows, checkpoints, history>>

\* Slip: the insert overwrites a row that appeared meanwhile.
ResumeCreate_Upsert(c) ==
  /\ phase[c] = "create"
  /\ LET a == msg[c].wants IN
       /\ agents' = [agents EXCEPT ![a] = [pk |-> nextPk, owner |-> user[c], delivered |-> 0]]
       /\ nextPk' = nextPk + 1
       /\ Bind(c, a, nextPk)
       /\ credited' = [credited EXCEPT ![a] = 0]
  /\ Finish(c)
  /\ UNCHANGED <<receipts, rows, eventRows, checkpoints, acked, pruned, spent>>

\* agent.save() of a new row.  Another connection may have inserted the same
\* agent_id meanwhile: the unique index refuses the second insert and the
\* consumer answers write_failed, retryable.
ResumeCreate(c) ==
  /\ phase[c] = "create"
  /\ LET a == msg[c].wants IN
       IF agents[a].pk # 0
       THEN Nack(c) /\ UNCHANGED spent
       ELSE /\ agents' = [agents EXCEPT ![a] =
                            [pk |-> nextPk, owner |-> user[c], delivered |-> 0]]
            /\ nextPk' = nextPk + 1
            /\ Bind(c, a, nextPk)
            /\ credited' = [credited EXCEPT ![a] = 0]
            /\ Finish(c)
            /\ UNCHANGED <<receipts, rows, eventRows, checkpoints, acked, pruned, spent>>

-----------------------------------------------------------------------------
\* batch: _handle_batch and _persist_typed_batch.

\* A batch before resume (resume_required), of another agent
\* (agent_id_mismatch) or with events validation refuses is answered with a
\* permanent nack before any transaction and changes nothing.
ReceiveBatch(c, m) ==
  /\ phase[c] = "idle"
  /\ boundId[c] = m.agentId
  /\ m.content \notin Invalid
  /\ phase' = [phase EXCEPT ![c] = "receipt"]
  /\ msg' = [msg EXCEPT ![c] = m]
  /\ UNCHANGED <<open, user, boundId, boundPk, stagedAgent, stagedCheckpoint, tables, history>>

\* Slip: no transaction waits for another one's uncommitted receipt.
PersistReceipt_NoWait(c) ==
  /\ phase[c] = "receipt"
  /\ LET m == msg[c]
         known == receipts[m.key]
     IN IF known # None /\ known # [cursor |-> m.cursor, content |-> m.content]
        THEN Nack(c) /\ UNCHANGED spent
        ELSE /\ phase' = [phase EXCEPT ![c] = IF known = None THEN "agent" ELSE "touch"]
             /\ UNCHANGED <<open, user, boundId, boundPk, msg, stagedAgent,
                            stagedCheckpoint, tables, history>>

\* Slip: a known batch_id is acknowledged whatever it comes with.
PersistReceipt_AnyReuse(c) ==
  /\ phase[c] = "receipt"
  /\ KeyFree(c, msg[c].key)
  /\ phase' = [phase EXCEPT ![c] = IF receipts[msg[c].key] = None THEN "agent" ELSE "touch"]
  /\ UNCHANGED <<open, user, boundId, boundPk, msg, stagedAgent, stagedCheckpoint, tables, history>>

\* BatchReceipt.get_or_create.  A fresh key goes on to insert the events in
\* the same transaction; a known key is a replay or, with another cursor or
\* digest, batch_id_reused.
PersistReceipt(c) ==
  /\ phase[c] = "receipt"
  /\ LET m == msg[c]
         known == receipts[m.key]
     IN /\ KeyFree(c, m.key)
        /\ IF known # None /\ known # [cursor |-> m.cursor, content |-> m.content]
           THEN Nack(c) /\ UNCHANGED spent
           ELSE /\ phase' = [phase EXCEPT ![c] = IF known = None THEN "agent" ELSE "touch"]
                /\ UNCHANGED <<open, user, boundId, boundPk, msg, stagedAgent,
                               stagedCheckpoint, tables, history>>

Ack(c) == acked' = acked \cup {<<msg[c].key, msg[c].cursor, msg[c].content>>}

\* Slip: a replay sets the checkpoint back to its own cursor.
PersistTouch_MovesCheckpoint(c) ==
  /\ phase[c] = "touch"
  /\ AgentFree(c, boundId[c])
  /\ LET t == msg[c].key[1] IN
       /\ CheckpointFree(c, t)
       /\ checkpoints' = [checkpoints EXCEPT ![t].cursor = msg[c].cursor]
  /\ Ack(c)
  /\ Finish(c)
  /\ UNCHANGED <<boundId, boundPk, agents, nextPk, receipts, rows, eventRows, credited, pruned,
                 spent>>

\* A replay updates Agent.last_seen, commits, and repeats the stored answer.
PersistTouch(c) ==
  /\ phase[c] = "touch"
  /\ AgentFree(c, boundId[c])
  /\ Ack(c)
  /\ Finish(c)
  /\ UNCHANGED <<boundId, boundPk, tables, credited, pruned, spent>>

\* Agent.events_delivered + n on the row the connection resumed.  A row
\* deleted since then makes the transaction roll back: unknown_agent.
PersistAgent(c) ==
  /\ phase[c] = "agent"
  /\ LET a == boundId[c] IN
       IF agents[a].pk # boundPk[c]
       THEN Nack(c) /\ UNCHANGED spent
       ELSE /\ AgentFree(c, a)
            /\ stagedAgent' = [stagedAgent EXCEPT ![c] =
                                 agents[a].delivered + Size[msg[c].content]]
            /\ phase' = [phase EXCEPT ![c] = "checkpoint"]
            /\ UNCHANGED <<open, user, boundId, boundPk, msg, stagedCheckpoint, tables, history>>

\* Slip: the row is read without a lock and written back.
PersistCheckpoint_NoLock(c) ==
  /\ phase[c] = "checkpoint"
  /\ LET m == msg[c]
         before == IF checkpoints[m.key[1]] = None THEN 0 ELSE checkpoints[m.key[1]].delivered
     IN stagedCheckpoint' = [stagedCheckpoint EXCEPT ![c] =
          [cursor |-> m.cursor, delivered |-> before + Size[m.content]]]
  /\ phase' = [phase EXCEPT ![c] = "commit"]
  /\ UNCHANGED <<open, user, boundId, boundPk, msg, stagedAgent, tables, history>>

\* Slip: the count goes down.
PersistCheckpoint_Minus(c) ==
  /\ phase[c] = "checkpoint"
  /\ CheckpointFree(c, msg[c].key[1])
  /\ LET m == msg[c]
         before == IF checkpoints[m.key[1]] = None THEN 0 ELSE checkpoints[m.key[1]].delivered
     IN stagedCheckpoint' = [stagedCheckpoint EXCEPT ![c] =
          [cursor |-> m.cursor, delivered |-> before - Size[m.content]]]
  /\ phase' = [phase EXCEPT ![c] = "commit"]
  /\ UNCHANGED <<open, user, boundId, boundPk, msg, stagedAgent, tables, history>>

\* Slip: the checkpoint is committed by itself.
PersistCheckpoint_Autocommit(c) ==
  /\ phase[c] = "checkpoint"
  /\ LET m == msg[c]
         t == m.key[1]
         before == IF checkpoints[t] = None THEN 0 ELSE checkpoints[t].delivered
         row == [cursor |-> m.cursor, delivered |-> before + Size[m.content]]
     IN /\ CheckpointFree(c, t)
        /\ stagedCheckpoint' = [stagedCheckpoint EXCEPT ![c] = row]
        /\ checkpoints' = [checkpoints EXCEPT ![t] = row]
  /\ phase' = [phase EXCEPT ![c] = "commit"]
  /\ UNCHANGED <<open, user, boundId, boundPk, msg, stagedAgent, agents, nextPk, receipts,
                 rows, eventRows, history>>

\* Checkpoint.update_or_create, which locks the row it updates.
PersistCheckpoint(c) ==
  /\ phase[c] = "checkpoint"
  /\ LET m == msg[c]
         t == m.key[1]
         before == IF checkpoints[t] = None THEN 0 ELSE checkpoints[t].delivered
     IN /\ CheckpointFree(c, t)
        /\ stagedCheckpoint' = [stagedCheckpoint EXCEPT ![c] =
             [cursor |-> m.cursor, delivered |-> before + Size[m.content]]]
        /\ phase' = [phase EXCEPT ![c] = "commit"]
        /\ UNCHANGED <<open, user, boundId, boundPk, msg, stagedAgent, tables, history>>

\* The transaction commits: receipt, events, agent and checkpoint together.
\* Then the answer is sent, if anyone is still there to read it.
PersistCommit(c) ==
  /\ phase[c] = "commit"
  /\ LET m == msg[c]
         t == m.key[1]
     IN /\ receipts' = [receipts EXCEPT ![m.key] = [cursor |-> m.cursor, content |-> m.content]]
        /\ rows' = [rows EXCEPT ![m.key] = @ + 1]
        /\ eventRows' = [eventRows EXCEPT ![t] = @ + Size[m.content]]
        /\ checkpoints' = [checkpoints EXCEPT ![t] = stagedCheckpoint[c]]
  /\ agents' = [agents EXCEPT ![boundId[c]] =
                   [pk |-> @.pk, owner |-> @.owner, delivered |-> stagedAgent[c]]]
  /\ credited' = [credited EXCEPT ![boundId[c]] = @ + Size[msg[c].content]]
  /\ Ack(c)
  /\ Finish(c)
  /\ UNCHANGED <<boundId, boundPk, nextPk, pruned, spent>>

\* Any other exception: rollback and nack write_failed, retryable.
DbError(c) ==
  /\ phase[c] \notin {"closed", "idle"}
  /\ spent.dbError < MaxDbErrors
  /\ spent' = [spent EXCEPT !.dbError = @ + 1]
  /\ Nack(c)

Handle(c) ==
  \/ ResumeSelect(c) \/ ResumeSave(c) \/ ResumeCreate(c)
  \/ PersistReceipt(c) \/ PersistTouch(c) \/ PersistAgent(c)
  \/ PersistCheckpoint(c) \/ PersistCommit(c)

-----------------------------------------------------------------------------
\* What happens around the consumers.

\* The process dies: every handler with it, every open transaction rolled back.
Crash ==
  /\ spent.crash < MaxCrashes
  /\ spent' = [spent EXCEPT !.crash = @ + 1]
  /\ phase' = [c \in Conns |-> "closed"]
  /\ open' = [c \in Conns |-> FALSE]
  /\ msg' = [c \in Conns |-> None]
  /\ stagedAgent' = [c \in Conns |-> 0]
  /\ stagedCheckpoint' = [c \in Conns |-> None]
  /\ UNCHANGED <<user, boundId, boundPk, tables, acked, credited, pruned>>

\* An administrator deletes the Agent row; the delete waits for its lock.  That
\* checkpoints lose their reference to it first (SET_NULL) shows in no table
\* here; the order of those locks is left out.
DeleteAgent(a) ==
  /\ agents[a].pk # 0
  /\ nextPk <= MaxAgentRows
  /\ \A c \in Conns : ~HoldsAgent(c, a)
  /\ agents' = [agents EXCEPT ![a] = NoAgent]
  /\ credited' = [credited EXCEPT ![a] = 0]
  /\ UNCHANGED <<connVars, nextPk, receipts, rows, eventRows, checkpoints, acked, pruned, spent>>

\* The owning user is deleted: Agent.user is SET_NULL.
DeleteOwner(a) ==
  /\ agents[a].owner # None
  /\ \A c \in Conns : ~HoldsAgent(c, a)
  /\ agents' = [agents EXCEPT ![a] =
                   [pk |-> @.pk, owner |-> None, delivered |-> @.delivered]]
  /\ UNCHANGED <<connVars, nextPk, receipts, rows, eventRows, checkpoints, history>>

\* prune_batch_receipts deletes receipts by age alone.
PruneReceipt(k) ==
  /\ receipts[k] # None
  /\ pruned[k] < MaxPrunes
  /\ receipts' = [receipts EXCEPT ![k] = None]
  /\ pruned' = [pruned EXCEPT ![k] = @ + 1]
  /\ UNCHANGED <<connVars, agents, nextPk, rows, eventRows, checkpoints, acked, credited, spent>>

Next ==
  \/ \E c \in Conns :
       \/ \E u \in Users : Connect(c, u)
       \/ HangUp(c)
       \/ \E a \in AgentIds : ReceiveResume(c, a)
       \/ \E m \in BatchMsg : ReceiveBatch(c, m)
       \/ Handle(c)
       \/ DbError(c)
  \/ Crash
  \/ \E a \in AgentIds : DeleteAgent(a) \/ DeleteOwner(a)
  \/ \E k \in Keys : PruneReceipt(k)

Spec == Init /\ [][Next]_vars

\* Handlers run to their end: a coroutine is resumed when its database call
\* returns, and a database grants a contended row lock in the order asked for,
\* which is why a lock that is free again and again is eventually obtained.
Fairness == \A c \in Conns : SF_vars(Handle(c))

FairSpec == Spec /\ Fairness

-----------------------------------------------------------------------------

\* Every table holds what its columns allow and every handler what its phase needs.
TypeOK ==
  /\ phase \in [Conns -> Phases]
  /\ open \in [Conns -> BOOLEAN]
  /\ user \in [Conns -> Users \cup {None}]
  /\ boundId \in [Conns -> AgentIds \cup {None}]
  /\ boundPk \in [Conns -> Nat]
  /\ msg \in [Conns -> BatchMsg \cup ResumeMsg \cup {None}]
  /\ stagedAgent \in [Conns -> Nat]
  /\ stagedCheckpoint \in [Conns -> Checkpoint \cup {None}]
  /\ agents \in [AgentIds -> AgentRow]
  /\ nextPk \in Nat \ {0}
  /\ receipts \in [Keys -> Receipt \cup {None}]
  /\ rows \in [Keys -> Nat]
  /\ eventRows \in [Targets -> Nat]
  /\ checkpoints \in [Targets -> Checkpoint \cup {None}]
  /\ acked \subseteq (Keys \X Cursors \X Contents)
  /\ credited \in [AgentIds -> Nat]
  /\ pruned \in [Keys -> Nat]
  /\ spent \in [dbError: Nat, crash: Nat]

\* However a batch is repeated, on however many connections at once, its
\* events are inserted once for as long as its receipt is kept.
ExactlyOnce ==
  \A k \in Keys : rows[k] = pruned[k] + (IF receipts[k] = None THEN 0 ELSE 1)

\* An ack is a promise already kept: the batch it names is stored with just
\* the cursor and content the shipper sent, never with another's.
AckMeansStored ==
  \A k \in Keys, cursor \in Cursors, content \in Contents :
    <<k, cursor, content>> \in acked =>
      /\ rows[k] > 0
      /\ pruned[k] = 0 => receipts[k] = [cursor |-> cursor, content |-> content]

\* Checkpoint.events_delivered counts the stored rows of its target exactly:
\* no concurrent update of the row is lost and no rollback is counted.
CheckpointCountsRows ==
  \A t \in Targets :
    eventRows[t] = IF checkpoints[t] = None THEN 0 ELSE checkpoints[t].delivered

\* A checkpoint is the cursor of a batch of its target whose receipt is there, so a
\* shipper that resumes from it skips nothing that is not stored.
CheckpointBacked ==
  MaxPrunes = 0 =>
    \A t \in Targets : checkpoints[t] # None =>
      \E k \in Keys : /\ k[1] = t
                       /\ receipts[k] # None
                       /\ receipts[k].cursor = checkpoints[t].cursor

\* Agent.events_delivered counts the events committed through that row, although
\* every resume writes the whole row back.
AgentCountsEvents == \A a \in AgentIds : agents[a].delivered = credited[a]

\* A resume never takes an agent from another user, even when both resume an
\* agent_id that has no row yet at the same moment.
NoTakeover ==
  [][\A a \in AgentIds :
       agents[a].owner # None => agents'[a].owner \in {agents[a].owner, None}]_vars

\* Every message is answered or its connection is closed: the consumers never
\* wait for each other's row locks for ever.
EveryMessageAnswered ==
  \A c \in Conns : phase[c] \notin {"idle", "closed"} ~> phase[c] \in {"idle", "closed"}

\* The transactions implement the ledger while no receipt is pruned.
StoredCursor == [t \in Targets |->
  IF checkpoints[t] = None THEN None ELSE checkpoints[t].cursor]
Ledger == INSTANCE BatchLedger WITH
  Ids <- Keys, TargetOf <- [k \in Keys |-> k[1]], checkpoint <- StoredCursor,
  NoReceipt <- None, NoCursor <- None
LedgerSpec == Ledger!Spec
=============================================================================
