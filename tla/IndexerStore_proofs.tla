------------------------ MODULE IndexerStore_proofs -------------------------
(***************************************************************************)
(* Proofs about IndexerStore, for every number of connections, users,      *)
(* agents, targets and batches and for every bound on the faults.          *)
(*                                                                         *)
(* The promises of the store are not inductive by themselves.  What makes  *)
(* them so is what an open transaction may rely on: the locks it holds are *)
(* its own (Locks), and what it read under a lock still is what the table  *)
(* says when it commits (Held).                                            *)
(***************************************************************************)
EXTENDS IndexerStore, TLAPS

BatchPhases == {"receipt", "touch", "agent", "checkpoint", "commit"}

\* The phases in which a transaction has inserted a receipt.
Storing == {"agent", "checkpoint", "commit"}

\* A handler works on a message of the kind its phase is for, and a batch is
\* always one of the agent the connection resumed.
MsgFits == \A c \in Conns :
  /\ phase[c] \in BatchPhases => msg[c] \in BatchMsg /\ boundId[c] = msg[c].agentId
  /\ phase[c] \in {"resume", "create", "save"} => msg[c] \in ResumeMsg
  /\ boundId[c] # None => boundPk[c] # 0

AbsentUnowned == \A a \in AgentIds : agents[a].pk = 0 => agents[a].owner = None

\* No two open transactions hold the same row.
Locks == \A c, d \in Conns : c # d =>
  /\ phase[c] \in Storing /\ phase[d] \in Storing => msg[c].key # msg[d].key
  /\ phase[c] = "commit" /\ phase[d] = "commit" => msg[c].key[1] # msg[d].key[1]
  /\ \A a \in AgentIds : ~(HoldsAgent(c, a) /\ HoldsAgent(d, a))

Delivered(t) == IF checkpoints[t] = None THEN 0 ELSE checkpoints[t].delivered

\* What a transaction has read or staged agrees with the committed tables.
KeyHeld(c) == phase[c] \in Storing => receipts[msg[c].key] = None

AgentHeld(c) == phase[c] \in {"checkpoint", "commit"} =>
  /\ boundPk[c] = agents[boundId[c]].pk
  /\ stagedAgent[c] = agents[boundId[c]].delivered + Size[msg[c].content]

CheckpointHeld(c) == phase[c] = "commit" =>
  stagedCheckpoint[c] = [cursor |-> msg[c].cursor,
                         delivered |-> Delivered(msg[c].key[1]) + Size[msg[c].content]]

SaveHeld(c) == phase[c] = "save" =>
  /\ agents[msg[c].wants].pk # 0
  /\ agents[msg[c].wants].owner \in {None, user[c]}
  /\ stagedAgent[c] = agents[msg[c].wants].delivered

\* A replay is of a batch that is stored, and stays so until it is pruned.
TouchHeld(c) == phase[c] = "touch" =>
  /\ rows[msg[c].key] > 0
  /\ pruned[msg[c].key] = 0 =>
       receipts[msg[c].key] = [cursor |-> msg[c].cursor, content |-> msg[c].content]

Held == \A c \in Conns :
  KeyHeld(c) /\ AgentHeld(c) /\ CheckpointHeld(c) /\ SaveHeld(c) /\ TouchHeld(c)

Promises == ExactlyOnce /\ AckMeansStored /\ CheckpointCountsRows /\ AgentCountsEvents

Inv == TypeOK /\ MsgFits /\ AbsentUnowned /\ Locks /\ Held /\ Promises

-----------------------------------------------------------------------------

\* The invariant holds in the empty store, before any connection.
LEMMA InitInv == Init => Inv
<1> SUFFICES ASSUME Init PROVE Inv
  OBVIOUS
<1> USE StoreAssumption DEF Init, NoAgent
<1>1. TypeOK
  BY DEF TypeOK, Keys, Phases, AgentRow, Receipt, Checkpoint
<1>2. MsgFits /\ AbsentUnowned /\ Locks
  BY DEF MsgFits, AbsentUnowned, Locks, HoldsAgent, BatchPhases, Storing
<1>3. Held
  BY DEF Held, KeyHeld, AgentHeld, CheckpointHeld, SaveHeld, TouchHeld, Storing
<1>4. Promises
  BY DEF Promises, ExactlyOnce, AckMeansStored, CheckpointCountsRows, AgentCountsEvents
<1> QED BY <1>1, <1>2, <1>3, <1>4 DEF Inv

\* A rollback gives back the locks and leaves every table as it was.
LEMMA NackInv ==
  ASSUME Inv, NEW c \in Conns, Nack(c), spent' \in [dbError: Nat, crash: Nat]
  PROVE  Inv'
<1> USE StoreAssumption DEF Inv, TypeOK, Nack, Finish, BatchMsg, connVars, tables, history
<1>1. TypeOK'
  BY DEF Phases, MsgFits, BatchPhases
<1>2. MsgFits'
  BY DEF MsgFits, BatchPhases
<1>3. AbsentUnowned'
  BY DEF AbsentUnowned, MsgFits
<1>4. Locks'
  BY DEF Locks, HoldsAgent, MsgFits, BatchPhases, Storing
<1>5. Held'
  BY DEF Held, KeyHeld, AgentHeld, CheckpointHeld, SaveHeld, TouchHeld, Delivered, Locks,
       HoldsAgent, Promises, ExactlyOnce, MsgFits, BatchPhases, Storing
<1>6. Promises'
  BY DEF Promises, ExactlyOnce, AckMeansStored, CheckpointCountsRows, AgentCountsEvents
<1> QED BY <1>1, <1>2, <1>3, <1>4, <1>5, <1>6

\* A new connection holds nothing.
LEMMA ConnectInv ==
  ASSUME Inv, NEW c \in Conns, NEW u \in Users, Connect(c, u)
  PROVE  Inv'
<1> USE StoreAssumption DEF Inv, TypeOK, Connect, connVars, tables, history
<1>1. TypeOK'
  BY DEF Phases, MsgFits, BatchPhases
<1>2. MsgFits'
  BY DEF MsgFits, BatchPhases
<1>3. AbsentUnowned'
  BY DEF AbsentUnowned, MsgFits
<1>4. Locks'
  BY DEF Locks, HoldsAgent, MsgFits, BatchPhases, Storing
<1>5. Held'
  BY DEF Held, KeyHeld, AgentHeld, CheckpointHeld, SaveHeld, TouchHeld, Delivered, Locks,
       HoldsAgent, Promises, ExactlyOnce, MsgFits, BatchPhases, Storing
<1>6. Promises'
  BY DEF Promises, ExactlyOnce, AckMeansStored, CheckpointCountsRows, AgentCountsEvents
<1> QED BY <1>1, <1>2, <1>3, <1>4, <1>5, <1>6

\* A client that goes away takes no lock with it: its handler runs on.
LEMMA HangUpInv ==
  ASSUME Inv, NEW c \in Conns, HangUp(c)
  PROVE  Inv'
<1> USE StoreAssumption DEF Inv, TypeOK, HangUp, connVars, tables, history
<1>1. TypeOK'
  BY DEF Phases, MsgFits, BatchPhases
<1>2. MsgFits'
  BY DEF MsgFits, BatchPhases
<1>3. AbsentUnowned'
  BY DEF AbsentUnowned, MsgFits
<1>4. Locks'
  BY DEF Locks, HoldsAgent, MsgFits, BatchPhases, Storing
<1>5. Held'
  BY DEF Held, KeyHeld, AgentHeld, CheckpointHeld, SaveHeld, TouchHeld, Delivered, Locks,
       HoldsAgent, Promises, ExactlyOnce, MsgFits, BatchPhases, Storing
<1>6. Promises'
  BY DEF Promises, ExactlyOnce, AckMeansStored, CheckpointCountsRows, AgentCountsEvents
<1> QED BY <1>1, <1>2, <1>3, <1>4, <1>5, <1>6

\* A resume received has locked nothing yet.
LEMMA ReceiveResumeInv ==
  ASSUME Inv, NEW c \in Conns, NEW a \in AgentIds, ReceiveResume(c, a)
  PROVE  Inv'
<1> USE StoreAssumption DEF Inv, TypeOK, ReceiveResume, ResumeMsg, connVars, tables,
    history
<1>1. TypeOK'
  BY DEF Phases, MsgFits, BatchPhases
<1>2. MsgFits'
  BY DEF MsgFits, BatchPhases
<1>3. AbsentUnowned'
  BY DEF AbsentUnowned, MsgFits
<1>4. Locks'
  BY DEF Locks, HoldsAgent, MsgFits, BatchPhases, Storing
<1>5. Held'
  BY DEF Held, KeyHeld, AgentHeld, CheckpointHeld, SaveHeld, TouchHeld, Delivered, Locks,
       HoldsAgent, Promises, ExactlyOnce, MsgFits, BatchPhases, Storing
<1>6. Promises'
  BY DEF Promises, ExactlyOnce, AckMeansStored, CheckpointCountsRows, AgentCountsEvents
<1> QED BY <1>1, <1>2, <1>3, <1>4, <1>5, <1>6

\* A resume that finds the agent's row locks it, and only if no other
\* transaction has it; one that finds it owned by another user is refused.
LEMMA ResumeSelectInv ==
  ASSUME Inv, NEW c \in Conns, ResumeSelect(c)
  PROVE  Inv'
<1> DEFINE a == msg[c].wants
<1> USE StoreAssumption DEF ResumeSelect
<1>1. CASE agents[a].owner \notin {None, user[c]}
  <2>1. Nack(c) /\ spent' \in [dbError: Nat, crash: Nat]
    BY <1>1 DEF Inv, TypeOK
  <2> QED BY <2>1, NackInv
<1>2. CASE agents[a].owner \in {None, user[c]}
  <2> USE DEF Inv, TypeOK, ResumeMsg, AgentFree, AgentRow, connVars, tables, history
  <2>0. a \in AgentIds /\ agents[a].delivered \in Nat
    BY DEF MsgFits
  <2>1. TypeOK'
    <3>1. phase' \in [Conns -> Phases]
      BY <1>2 DEF Phases
    <3> QED BY <1>2, <2>0, <3>1
  <2>2. MsgFits'
    BY <1>2, <2>0 DEF MsgFits, BatchPhases
  <2>3. AbsentUnowned'
    BY <1>2, <2>0 DEF AbsentUnowned, MsgFits
  <2>4. Locks'
    BY <1>2, <2>0 DEF Locks, HoldsAgent, MsgFits, BatchPhases, Storing
  <2>5. Held'
    BY <1>2, <2>0 DEF Held, KeyHeld, AgentHeld, CheckpointHeld, SaveHeld, TouchHeld,
         Delivered, Locks, HoldsAgent, Promises, ExactlyOnce, MsgFits, BatchPhases,
         Storing
  <2>6. Promises'
    BY <1>2, <2>0 DEF Promises, ExactlyOnce, AckMeansStored, CheckpointCountsRows,
         AgentCountsEvents
  <2> QED BY <2>1, <2>2, <2>3, <2>4, <2>5, <2>6
<1> QED BY <1>1, <1>2

\* A replay that is under way stays right while the row it is of does.
LEMMA TouchKept ==
  ASSUME NEW d \in Conns, TouchHeld(d), UNCHANGED <<receipts, rows, pruned>>,
         phase'[d] = "touch" => phase[d] = "touch" /\ msg'[d] = msg[d]
  PROVE  TouchHeld(d)'
BY DEF TouchHeld

\* Writing the whole row back loses no count: the row was locked when it was read.
LEMMA ResumeSaveInv ==
  ASSUME Inv, NEW c \in Conns, ResumeSave(c)
  PROVE  Inv'
<1> USE StoreAssumption DEF Inv, TypeOK, ResumeSave, Finish, Bind, ResumeMsg, BatchMsg,
    AgentRow, connVars, tables, history
<1>1. TypeOK'
  BY DEF Phases, MsgFits, BatchPhases
<1>2. MsgFits'
  BY DEF MsgFits, BatchPhases, Held, SaveHeld
<1>3. AbsentUnowned'
  BY DEF AbsentUnowned, MsgFits, Held, SaveHeld
<1>4. Locks'
  BY DEF Locks, HoldsAgent, MsgFits, BatchPhases, Storing
<1>5. Held'
  <2> SUFFICES ASSUME NEW d \in Conns
               PROVE  (KeyHeld(d) /\ AgentHeld(d) /\ CheckpointHeld(d) /\ SaveHeld(d) /\ TouchHeld(d))'
    BY DEF Held
  <2>1. KeyHeld(d)'
    BY DEF Held, KeyHeld, Locks, HoldsAgent, MsgFits, BatchPhases, Storing
  <2>2. AgentHeld(d)'
    BY DEF Held, AgentHeld, Locks, HoldsAgent, MsgFits, BatchPhases, Storing
  <2>3. CheckpointHeld(d)'
    BY DEF Held, CheckpointHeld, Delivered, Locks, HoldsAgent, MsgFits, BatchPhases, Storing
  <2>4. SaveHeld(d)'
    BY DEF Held, SaveHeld, Locks, HoldsAgent, MsgFits, BatchPhases, Storing
  <2>5. TouchHeld(d)'
    <3>1. phase'[d] = "touch" => phase[d] = "touch" /\ msg'[d] = msg[d]
      OBVIOUS
    <3>2. TouchHeld(d) /\ UNCHANGED <<receipts, rows, pruned>>
      BY DEF Held
    <3> QED
      BY <3>1, <3>2, TouchKept, Zenon
  <2> QED BY <2>1, <2>2, <2>3, <2>4, <2>5
<1>6. Promises'
  <2>1. \A b \in AgentIds : agents'[b].delivered = agents[b].delivered
    BY DEF MsgFits, Held, SaveHeld
  <2> QED
    BY <2>1 DEF Promises, ExactlyOnce, AckMeansStored, CheckpointCountsRows, AgentCountsEvents
<1> QED BY <1>1, <1>2, <1>3, <1>4, <1>5, <1>6

\* A new row is created only where there is none, under a key nobody uses.
LEMMA ResumeCreateInv ==
  ASSUME Inv, NEW c \in Conns, ResumeCreate(c)
  PROVE  Inv'
<1> DEFINE a == msg[c].wants
<1> USE StoreAssumption DEF ResumeCreate
<1>1. CASE agents[a].pk # 0
  <2>1. Nack(c) /\ spent' \in [dbError: Nat, crash: Nat]
    BY <1>1 DEF Inv, TypeOK
  <2> QED BY <2>1, NackInv
<1>2. CASE agents[a].pk = 0
  <2> USE DEF Inv, TypeOK, ResumeMsg, BatchMsg, AgentRow, Finish
  <2>7. a \in AgentIds
    BY DEF MsgFits
  <2>8. /\ agents' = [agents EXCEPT ![a] = [pk |-> nextPk, owner |-> user[c], delivered |-> 0]]
        /\ nextPk' = nextPk + 1
        /\ credited' = [credited EXCEPT ![a] = 0]
        /\ boundId' = [boundId EXCEPT ![c] = a]
        /\ boundPk' = [boundPk EXCEPT ![c] = nextPk]
        /\ Finish(c)
        /\ UNCHANGED <<receipts, rows, eventRows, checkpoints, acked, pruned, spent>>
    BY <1>2 DEF Bind
  <2> HIDE DEF a, ResumeCreate
  <2>1. TypeOK'
    BY <1>2, <2>7, <2>8 DEF Phases, MsgFits, BatchPhases
  <2>2. MsgFits'
    BY <1>2, <2>7, <2>8 DEF MsgFits, BatchPhases
  <2>3. AbsentUnowned'
    BY <1>2, <2>7, <2>8 DEF AbsentUnowned
  <2>4. Locks'
    BY <1>2, <2>7, <2>8 DEF Locks, HoldsAgent, Held, AgentHeld, MsgFits, BatchPhases,
         Storing
  <2>5. Held'
    <3> SUFFICES ASSUME NEW d \in Conns
                 PROVE  (KeyHeld(d) /\ AgentHeld(d) /\ CheckpointHeld(d) /\ SaveHeld(d) /\ TouchHeld(d))'
      BY DEF Held
    <3>1. KeyHeld(d)'
      BY <1>2, <2>7, <2>8 DEF Held, KeyHeld, Locks, HoldsAgent, MsgFits, BatchPhases, Storing
    <3>2. AgentHeld(d)'
      BY <1>2, <2>7, <2>8 DEF Held, AgentHeld, Locks, HoldsAgent, MsgFits, BatchPhases, Storing
    <3>3. CheckpointHeld(d)'
      BY <1>2, <2>7, <2>8 DEF Held, CheckpointHeld, Delivered, Locks, HoldsAgent, MsgFits, BatchPhases, Storing
    <3>4. SaveHeld(d)'
      BY <1>2, <2>7, <2>8 DEF Held, SaveHeld, Locks, HoldsAgent, MsgFits, BatchPhases, Storing
    <3>5. TouchHeld(d)'
      <4>1. phase'[d] = "touch" => phase[d] = "touch" /\ msg'[d] = msg[d]
        BY <1>2, <2>7, <2>8
      <4>2. TouchHeld(d) /\ UNCHANGED <<receipts, rows, pruned>>
        BY <1>2, <2>7, <2>8 DEF Held
      <4> QED
        BY <4>1, <4>2, TouchKept, Zenon
    <3> QED BY <3>1, <3>2, <3>3, <3>4, <3>5
  <2>6. Promises'
    BY <1>2, <2>7, <2>8 DEF Promises, ExactlyOnce, AckMeansStored, CheckpointCountsRows,
         AgentCountsEvents
  <2> QED BY <2>1, <2>2, <2>3, <2>4, <2>5, <2>6
<1> QED BY <1>1, <1>2

\* A batch received has locked nothing yet.
LEMMA ReceiveBatchInv ==
  ASSUME Inv, NEW c \in Conns, NEW m \in BatchMsg, ReceiveBatch(c, m)
  PROVE  Inv'
<1> USE StoreAssumption DEF Inv, TypeOK, ReceiveBatch, BatchMsg, connVars, tables, history
<1>1. TypeOK'
  BY DEF Phases, MsgFits, BatchPhases
<1>2. MsgFits'
  BY DEF MsgFits, BatchPhases
<1>3. AbsentUnowned'
  BY DEF AbsentUnowned, MsgFits
<1>4. Locks'
  BY DEF Locks, HoldsAgent, MsgFits, BatchPhases, Storing
<1>5. Held'
  BY DEF Held, KeyHeld, AgentHeld, CheckpointHeld, SaveHeld, TouchHeld, Delivered, Locks,
       HoldsAgent, Promises, ExactlyOnce, MsgFits, BatchPhases, Storing
<1>6. Promises'
  BY DEF Promises, ExactlyOnce, AckMeansStored, CheckpointCountsRows, AgentCountsEvents
<1> QED BY <1>1, <1>2, <1>3, <1>4, <1>5, <1>6

\* The unique key: a fresh receipt is inserted by one transaction at a time.
LEMMA PersistReceiptInv ==
  ASSUME Inv, NEW c \in Conns, PersistReceipt(c)
  PROVE  Inv'
<1> DEFINE m == msg[c]
           reused == /\ receipts[m.key] # None
                     /\ receipts[m.key] # [cursor |-> m.cursor, content |-> m.content]
<1> USE StoreAssumption DEF PersistReceipt
<1>1. CASE reused
  <2>1. Nack(c) /\ spent' \in [dbError: Nat, crash: Nat]
    BY <1>1 DEF Inv, TypeOK
  <2> QED BY <2>1, NackInv
<1>2. CASE ~reused
  <2> USE DEF Inv, TypeOK, KeyFree, HoldsKey, BatchMsg, Receipt, connVars, tables, history
  <2>1. TypeOK'
    BY SMTT(60), <1>2 DEF Phases, MsgFits, BatchPhases
  <2>2. MsgFits'
    BY <1>2 DEF MsgFits, BatchPhases
  <2>3. AbsentUnowned'
    BY <1>2 DEF AbsentUnowned, MsgFits
  <2>4. Locks'
    BY <1>2 DEF Locks, HoldsAgent, MsgFits, BatchPhases, Storing
  <2>5. Held'
    BY <1>2 DEF Held, KeyHeld, AgentHeld, CheckpointHeld, SaveHeld, TouchHeld, Delivered,
         Locks, HoldsAgent, Promises, ExactlyOnce, MsgFits, BatchPhases, Storing
  <2>6. Promises'
    BY <1>2 DEF Promises, ExactlyOnce, AckMeansStored, CheckpointCountsRows,
         AgentCountsEvents
  <2> QED BY <2>1, <2>2, <2>3, <2>4, <2>5, <2>6
<1> QED BY <1>1, <1>2

\* A replay is acknowledged because the batch it repeats is stored.
LEMMA PersistTouchInv ==
  ASSUME Inv, NEW c \in Conns, PersistTouch(c)
  PROVE  Inv'
<1> USE StoreAssumption DEF Inv, TypeOK, PersistTouch, Finish, BatchMsg, connVars,
    connVars, tables, history
<1>1. TypeOK'
  BY DEF Phases, MsgFits, BatchPhases, Ack
<1>2. MsgFits'
  BY DEF MsgFits, BatchPhases
<1>3. AbsentUnowned'
  BY DEF AbsentUnowned, MsgFits
<1>4. Locks'
  BY DEF Locks, HoldsAgent, MsgFits, BatchPhases, Storing
<1>5. Held'
  BY DEF Held, KeyHeld, AgentHeld, CheckpointHeld, SaveHeld, TouchHeld, Delivered, Locks,
       HoldsAgent, Promises, ExactlyOnce, MsgFits, BatchPhases, Storing
<1>6. Promises'
  <2>1. acked' = acked \cup {<<msg[c].key, msg[c].cursor, msg[c].content>>}
    BY DEF Ack
  <2>2. /\ rows[msg[c].key] > 0
        /\ pruned[msg[c].key] = 0 =>
             receipts[msg[c].key] = [cursor |-> msg[c].cursor, content |-> msg[c].content]
    BY DEF Held, TouchHeld
  <2>3. AckMeansStored'
    <3> SUFFICES ASSUME NEW k \in Keys, NEW cursor \in Cursors, NEW content \in Contents,
                        <<k, cursor, content>> \in acked'
                 PROVE  /\ rows[k] > 0
                        /\ pruned[k] = 0 => receipts[k] = [cursor |-> cursor, content |-> content]
      BY DEF AckMeansStored
    <3>1. CASE <<k, cursor, content>> \in acked
      BY <3>1 DEF Promises, AckMeansStored
    <3>2. CASE <<k, cursor, content>> = <<msg[c].key, msg[c].cursor, msg[c].content>>
      BY <2>2, <3>2
    <3> QED BY <2>1, <3>1, <3>2
  <2> QED
    BY <2>3 DEF Promises, ExactlyOnce, CheckpointCountsRows, AgentCountsEvents
<1> QED BY <1>1, <1>2, <1>3, <1>4, <1>5, <1>6

\* The update of the agent locks its row, unless the row is gone.
LEMMA PersistAgentInv ==
  ASSUME Inv, NEW c \in Conns, PersistAgent(c)
  PROVE  Inv'
<1> USE StoreAssumption DEF PersistAgent
<1>1. CASE agents[boundId[c]].pk # boundPk[c]
  <2>1. Nack(c) /\ spent' \in [dbError: Nat, crash: Nat]
    BY <1>1 DEF Inv, TypeOK
  <2> QED BY <2>1, NackInv
<1>2. CASE agents[boundId[c]].pk = boundPk[c]
  <2> USE DEF Inv, TypeOK, AgentFree, BatchMsg, AgentRow, connVars, tables, history
  <2>0. agents[boundId[c]].delivered + Size[msg[c].content] \in Nat
    BY DEF MsgFits, BatchPhases
  <2>1. TypeOK'
    <3>1. /\ phase' = [phase EXCEPT ![c] = "checkpoint"]
          /\ stagedAgent' = [stagedAgent EXCEPT ![c] =
                               agents[boundId[c]].delivered + Size[msg[c].content]]
      BY <1>2
    <3> QED BY <1>2, <2>0, <3>1 DEF Phases
  <2>2. MsgFits'
    BY <1>2, <2>0 DEF MsgFits, BatchPhases
  <2>3. AbsentUnowned'
    BY <1>2, <2>0 DEF AbsentUnowned, MsgFits
  <2>4. Locks'
    BY <1>2, <2>0 DEF Locks, HoldsAgent, MsgFits, BatchPhases, Storing
  <2>5. Held'
    BY <1>2, <2>0 DEF Held, KeyHeld, AgentHeld, CheckpointHeld, SaveHeld, TouchHeld,
         Delivered, Locks, HoldsAgent, Promises, ExactlyOnce, MsgFits, BatchPhases,
         Storing
  <2>6. Promises'
    BY <1>2, <2>0 DEF Promises, ExactlyOnce, AckMeansStored, CheckpointCountsRows,
         AgentCountsEvents
  <2> QED BY <2>1, <2>2, <2>3, <2>4, <2>5, <2>6
<1> QED BY <1>1, <1>2

\* The checkpoint's row is locked while its new value is staged.
LEMMA PersistCheckpointInv ==
  ASSUME Inv, NEW c \in Conns, PersistCheckpoint(c)
  PROVE  Inv'
<1> USE StoreAssumption DEF Inv, TypeOK, PersistCheckpoint, CheckpointFree,
    HoldsCheckpoint, BatchMsg, Keys, Checkpoint, connVars, tables, history
<1>1. TypeOK'
  BY DEF Phases, MsgFits, BatchPhases
<1>2. MsgFits'
  BY DEF MsgFits, BatchPhases
<1>3. AbsentUnowned'
  BY DEF AbsentUnowned, MsgFits
<1>4. Locks'
  BY DEF Locks, HoldsAgent, MsgFits, BatchPhases, Storing
<1>5. Held'
  <2> SUFFICES ASSUME NEW d \in Conns
               PROVE  (KeyHeld(d) /\ AgentHeld(d) /\ CheckpointHeld(d) /\ SaveHeld(d) /\ TouchHeld(d))'
    BY DEF Held
  <2>1. KeyHeld(d)'
    BY DEF Held, KeyHeld, Locks, HoldsAgent, MsgFits, BatchPhases, Storing
  <2>2. AgentHeld(d)'
    BY DEF Held, AgentHeld, Locks, HoldsAgent, MsgFits, BatchPhases, Storing
  <2>3. CheckpointHeld(d)'
    BY DEF Held, CheckpointHeld, Delivered, Locks, HoldsAgent, MsgFits, BatchPhases, Storing
  <2>4. SaveHeld(d)'
    BY DEF Held, SaveHeld, Locks, HoldsAgent, MsgFits, BatchPhases, Storing
  <2>5. TouchHeld(d)'
    <3>1. phase'[d] = "touch" => phase[d] = "touch" /\ msg'[d] = msg[d]
      OBVIOUS
    <3>2. TouchHeld(d) /\ UNCHANGED <<receipts, rows, pruned>>
      BY DEF Held
    <3> QED
      BY <3>1, <3>2, TouchKept, Zenon
  <2> QED BY <2>1, <2>2, <2>3, <2>4, <2>5
<1>6. Promises'
  BY DEF Promises, ExactlyOnce, AckMeansStored, CheckpointCountsRows, AgentCountsEvents
<1> QED BY <1>1, <1>2, <1>3, <1>4, <1>5, <1>6

\* What a commit writes over is still what the transaction read.
LEMMA PersistCommitInv ==
  ASSUME Inv, NEW c \in Conns, PersistCommit(c)
  PROVE  Inv'
<1> USE StoreAssumption DEF Inv, TypeOK, PersistCommit, Ack, Finish, BatchMsg, Keys,
    AgentRow, Receipt, Checkpoint, connVars, tables, history
<1>1. TypeOK'
  BY DEF Phases, MsgFits, BatchPhases, Held, CheckpointHeld, Delivered
<1>2. MsgFits'
  BY DEF MsgFits, BatchPhases
<1>3. AbsentUnowned'
  BY DEF AbsentUnowned, MsgFits
<1>4. Locks'
  BY DEF Locks, HoldsAgent, MsgFits, BatchPhases, Storing
<1>5. Held'
  <2> SUFFICES ASSUME NEW d \in Conns
               PROVE  (KeyHeld(d) /\ AgentHeld(d) /\ CheckpointHeld(d) /\ SaveHeld(d) /\ TouchHeld(d))'
    BY DEF Held
  <2>1. KeyHeld(d)'
    BY DEF Held, KeyHeld, Locks, HoldsAgent, MsgFits, BatchPhases, Storing
  <2>2. AgentHeld(d)'
    BY DEF Held, AgentHeld, Locks, HoldsAgent, MsgFits, BatchPhases, Storing
  <2>3. CheckpointHeld(d)'
    BY DEF Held, CheckpointHeld, Delivered, Locks, HoldsAgent, MsgFits, BatchPhases, Storing
  <2>4. SaveHeld(d)'
    <3> SUFFICES ASSUME phase'[d] = "save" PROVE SaveHeld(d)'
      BY DEF SaveHeld
    <3>1. phase[d] = "save" /\ msg'[d] = msg[d] /\ user' = user /\ stagedAgent'[d] = stagedAgent[d] /\ d # c
      OBVIOUS
    <3>2. msg[d] \in ResumeMsg /\ msg[d].wants \in AgentIds
      BY <3>1 DEF MsgFits, ResumeMsg
    <3>3. boundId[c] # msg[d].wants
      BY <3>1, <3>2 DEF Locks, HoldsAgent, Held, AgentHeld
    <3>4. agents'[msg[d].wants] = agents[msg[d].wants]
      BY <3>2, <3>3
    <3> QED
      BY <3>1, <3>4 DEF Held, SaveHeld
  <2>5. TouchHeld(d)'
    <3>1. /\ phase'[d] = "touch" => phase[d] = "touch" /\ msg'[d] = msg[d] /\ d # c
          /\ msg[c] \in BatchMsg /\ msg[c].key \in Keys /\ receipts[msg[c].key] = None
      BY DEF MsgFits, BatchPhases, Held, KeyHeld, Storing
    <3>2. CASE msg[d].key = msg[c].key
      <4>1. TouchHeld(d) /\ rows[msg[c].key] = pruned[msg[c].key] /\ pruned' = pruned
            /\ rows'[msg[c].key] = rows[msg[c].key] + 1 /\ rows[msg[c].key] \in Nat
        BY <3>1 DEF Held, Promises, ExactlyOnce
      <4> QED
        BY <3>1, <3>2, <4>1 DEF TouchHeld
    <3>3. CASE msg[d].key # msg[c].key
      <4>1. /\ rows'[msg[d].key] = rows[msg[d].key] /\ receipts'[msg[d].key] = receipts[msg[d].key]
            /\ TouchHeld(d) /\ pruned' = pruned
        BY <3>1, <3>3 DEF Held
      <4> QED
        BY <3>1, <4>1 DEF TouchHeld
    <3> QED
      BY <3>2, <3>3
  <2> QED BY <2>1, <2>2, <2>3, <2>4, <2>5
<1>6. Promises'
  <2>1. ExactlyOnce'
    BY DEF Promises, ExactlyOnce, Held, KeyHeld, MsgFits, BatchPhases, Storing
  <2>2. AckMeansStored'
    BY DEF Promises, AckMeansStored, ExactlyOnce, Held, KeyHeld, MsgFits, BatchPhases, Storing
  <2>3. CheckpointCountsRows'
    BY DEF Promises, CheckpointCountsRows, Held, CheckpointHeld, Delivered, MsgFits, BatchPhases, Storing
  <2>4. AgentCountsEvents'
    BY DEF Promises, AgentCountsEvents, Held, AgentHeld, MsgFits, BatchPhases, Storing
  <2> QED BY <2>1, <2>2, <2>3, <2>4 DEF Promises
<1> QED BY <1>1, <1>2, <1>3, <1>4, <1>5, <1>6

\* A crash rolls every open transaction back.
LEMMA CrashInv ==
  ASSUME Inv, Crash
  PROVE  Inv'
<1> USE StoreAssumption DEF Inv, TypeOK, Crash, connVars, tables, history
<1>1. TypeOK'
  BY DEF Phases, MsgFits, BatchPhases
<1>2. MsgFits'
  BY DEF MsgFits, BatchPhases
<1>3. AbsentUnowned'
  BY DEF AbsentUnowned, MsgFits
<1>4. Locks'
  BY DEF Locks, HoldsAgent, MsgFits, BatchPhases, Storing
<1>5. Held'
  BY DEF Held, KeyHeld, AgentHeld, CheckpointHeld, SaveHeld, TouchHeld, Delivered, Locks,
       HoldsAgent, Promises, ExactlyOnce, MsgFits, BatchPhases, Storing
<1>6. Promises'
  BY DEF Promises, ExactlyOnce, AckMeansStored, CheckpointCountsRows, AgentCountsEvents
<1> QED BY <1>1, <1>2, <1>3, <1>4, <1>5, <1>6

\* A row is deleted only when no transaction holds it.
LEMMA DeleteAgentInv ==
  ASSUME Inv, NEW a \in AgentIds, DeleteAgent(a)
  PROVE  Inv'
<1> USE StoreAssumption DEF Inv, TypeOK, DeleteAgent, NoAgent, AgentRow, BatchMsg,
    ResumeMsg, connVars, tables, history
<1>1. TypeOK'
  BY DEF Phases, MsgFits, BatchPhases
<1>2. MsgFits'
  BY DEF MsgFits, BatchPhases
<1>3. AbsentUnowned'
  BY DEF AbsentUnowned, MsgFits
<1>4. Locks'
  BY DEF Locks, HoldsAgent, MsgFits, BatchPhases, Storing
<1>5. Held'
  BY DEF Held, KeyHeld, AgentHeld, CheckpointHeld, SaveHeld, TouchHeld, Delivered, Locks,
       HoldsAgent, Promises, ExactlyOnce, MsgFits, BatchPhases, Storing
<1>6. Promises'
  BY DEF Promises, ExactlyOnce, AckMeansStored, CheckpointCountsRows, AgentCountsEvents
<1> QED BY <1>1, <1>2, <1>3, <1>4, <1>5, <1>6

\* Neither is its owner.
LEMMA DeleteOwnerInv ==
  ASSUME Inv, NEW a \in AgentIds, DeleteOwner(a)
  PROVE  Inv'
<1> USE StoreAssumption DEF Inv, TypeOK, DeleteOwner, AgentRow, BatchMsg, ResumeMsg,
    connVars, tables, history
<1>1. TypeOK'
  BY DEF Phases, MsgFits, BatchPhases
<1>2. MsgFits'
  BY DEF MsgFits, BatchPhases
<1>3. AbsentUnowned'
  BY DEF AbsentUnowned, MsgFits
<1>4. Locks'
  BY DEF Locks, HoldsAgent, MsgFits, BatchPhases, Storing
<1>5. Held'
  BY DEF Held, KeyHeld, AgentHeld, CheckpointHeld, SaveHeld, TouchHeld, Delivered, Locks,
       HoldsAgent, Promises, ExactlyOnce, MsgFits, BatchPhases, Storing
<1>6. Promises'
  BY DEF Promises, ExactlyOnce, AckMeansStored, CheckpointCountsRows, AgentCountsEvents
<1> QED BY <1>1, <1>2, <1>3, <1>4, <1>5, <1>6

\* A pruned receipt is accounted for in `pruned`, which the promises take into account.
LEMMA PruneReceiptInv ==
  ASSUME Inv, NEW k \in Keys, PruneReceipt(k)
  PROVE  Inv'
<1> USE StoreAssumption DEF Inv, TypeOK, PruneReceipt, BatchMsg, connVars, tables, history
<1>1. TypeOK'
  BY DEF Phases, MsgFits, BatchPhases
<1>2. MsgFits'
  BY DEF MsgFits, BatchPhases
<1>3. AbsentUnowned'
  BY DEF AbsentUnowned, MsgFits
<1>4. Locks'
  BY DEF Locks, HoldsAgent, MsgFits, BatchPhases, Storing
<1>5. Held'
  BY DEF Held, KeyHeld, AgentHeld, CheckpointHeld, SaveHeld, TouchHeld, Delivered, Locks,
       HoldsAgent, Promises, ExactlyOnce, MsgFits, BatchPhases, Storing
<1>6. Promises'
  BY DEF Promises, ExactlyOnce, AckMeansStored, CheckpointCountsRows, AgentCountsEvents
<1> QED BY <1>1, <1>2, <1>3, <1>4, <1>5, <1>6

\* Every step keeps the invariant.
LEMMA NextInv == Inv /\ [Next]_vars => Inv'
<1> SUFFICES ASSUME Inv, [Next]_vars PROVE Inv'
  OBVIOUS
<1>1. ASSUME NEW c \in Conns, NEW u \in Users, Connect(c, u) PROVE Inv'
  BY <1>1, ConnectInv
<1>2. ASSUME NEW c \in Conns, HangUp(c) PROVE Inv'
  BY <1>2, HangUpInv
<1>3. ASSUME NEW c \in Conns, NEW a \in AgentIds, ReceiveResume(c, a) PROVE Inv'
  BY <1>3, ReceiveResumeInv
<1>4. ASSUME NEW c \in Conns, NEW m \in BatchMsg, ReceiveBatch(c, m) PROVE Inv'
  BY <1>4, ReceiveBatchInv
<1>5. ASSUME NEW c \in Conns, Handle(c) PROVE Inv'
  BY <1>5, ResumeSelectInv, ResumeSaveInv, ResumeCreateInv, PersistReceiptInv, PersistTouchInv,
     PersistAgentInv, PersistCheckpointInv, PersistCommitInv DEF Handle
<1>6. ASSUME NEW c \in Conns, DbError(c) PROVE Inv'
  <2>1. Nack(c) /\ spent' \in [dbError: Nat, crash: Nat]
    BY <1>6 DEF DbError, Inv, TypeOK
  <2> QED BY <2>1, NackInv
<1>7. CASE Crash
  BY <1>7, CrashInv
<1>8. ASSUME NEW a \in AgentIds, DeleteAgent(a) \/ DeleteOwner(a) PROVE Inv'
  BY <1>8, DeleteAgentInv, DeleteOwnerInv
<1>9. ASSUME NEW k \in Keys, PruneReceipt(k) PROVE Inv'
  BY <1>9, PruneReceiptInv
<1>10. CASE UNCHANGED vars
  <2> USE <1>10 DEF vars, connVars, tables, history
  <2>1. TypeOK'
    BY DEF Inv, TypeOK
  <2>2. MsgFits' /\ AbsentUnowned' /\ Locks'
    BY DEF Inv, MsgFits, AbsentUnowned, Locks, HoldsAgent
  <2>3. Held'
    BY DEF Inv, Held, KeyHeld, AgentHeld, CheckpointHeld, SaveHeld, TouchHeld, Delivered
  <2>4. Promises'
    BY DEF Inv, Promises, ExactlyOnce, AckMeansStored, CheckpointCountsRows, AgentCountsEvents
  <2> QED BY <2>1, <2>2, <2>3, <2>4 DEF Inv
<1> QED
  BY <1>1, <1>2, <1>3, <1>4, <1>5, <1>6, <1>7, <1>8, <1>9, <1>10 DEF Next

LEMMA InvHolds == Spec => []Inv
<1>1. Init => Inv
  BY InitInv
<1>2. Inv /\ [Next]_vars => Inv'
  BY NextInv
<1> QED BY <1>1, <1>2, PTL DEF Spec

-----------------------------------------------------------------------------

\* The tables and the handlers stay well formed, staged values included.
THEOREM TypeCorrect == Spec => []TypeOK
<1>1. Inv => TypeOK
  BY DEF Inv
<1> QED BY <1>1, InvHolds, PTL

\* The events of a batch are inserted once for each receipt it was given,
\* whatever the transactions that race for it.
THEOREM StoredExactlyOnce == Spec => []ExactlyOnce
<1>1. Inv => ExactlyOnce
  BY DEF Inv, Promises
<1> QED BY <1>1, InvHolds, PTL

\* An acknowledged batch is stored as it was sent.
THEOREM AcknowledgedIsStored == Spec => []AckMeansStored
<1>1. Inv => AckMeansStored
  BY DEF Inv, Promises
<1> QED BY <1>1, InvHolds, PTL

\* The counter of every checkpoint is the number of rows of its target.
THEOREM CheckpointIsExact == Spec => []CheckpointCountsRows
<1>1. Inv => CheckpointCountsRows
  BY DEF Inv, Promises
<1> QED BY <1>1, InvHolds, PTL

\* The counter of every agent is the number of events committed through it.
THEOREM AgentIsExact == Spec => []AgentCountsEvents
<1>1. Inv => AgentCountsEvents
  BY DEF Inv, Promises
<1> QED BY <1>1, InvHolds, PTL

\* No step gives an owned agent to another user.
THEOREM NoStepTakesOver == Spec => NoTakeover
<1> DEFINE Kept == \A a \in AgentIds :
                     agents[a].owner # None => agents'[a].owner \in {agents[a].owner, None}
<1>1. Inv /\ [Next]_vars => [Kept]_vars
  <2> SUFFICES ASSUME Inv, Next, NEW a \in AgentIds, agents[a].owner # None
               PROVE  agents'[a].owner \in {agents[a].owner, None}
    OBVIOUS
  <2> USE StoreAssumption DEF Inv, TypeOK, AgentRow
  <2>1. ASSUME NEW c \in Conns, ResumeSave(c) PROVE agents'[a].owner \in {agents[a].owner, None}
    <3>1. msg[c].wants \in AgentIds
      BY <2>1 DEF ResumeSave, MsgFits, ResumeMsg
    <3>2. agents' = [agents EXCEPT ![msg[c].wants] =
            [pk |-> agents[msg[c].wants].pk, owner |-> user[c], delivered |-> stagedAgent[c]]]
      BY <2>1 DEF ResumeSave
    <3>3. agents[msg[c].wants].owner \in {None, user[c]}
      BY <2>1 DEF ResumeSave, Held, SaveHeld
    <3> QED BY <3>1, <3>2, <3>3
  <2>2. ASSUME NEW c \in Conns, ResumeCreate(c) PROVE agents'[a].owner \in {agents[a].owner, None}
    <3>1. msg[c].wants \in AgentIds
      BY <2>2 DEF ResumeCreate, MsgFits, ResumeMsg
    <3>2. CASE agents[msg[c].wants].pk # 0
      BY <2>2, <3>2 DEF ResumeCreate, Nack, tables
    <3>3. CASE agents[msg[c].wants].pk = 0
      <4>1. a # msg[c].wants
        BY <3>1, <3>3 DEF AbsentUnowned
      <4>2. agents' = [agents EXCEPT ![msg[c].wants] =
              [pk |-> nextPk, owner |-> user[c], delivered |-> 0]]
        BY <2>2, <3>3 DEF ResumeCreate
      <4> QED BY <4>1, <4>2
    <3> QED BY <3>2, <3>3
  <2>3. ASSUME NEW c \in Conns, PersistCommit(c) PROVE agents'[a].owner \in {agents[a].owner, None}
    <3>1. boundId[c] \in AgentIds
      BY <2>3 DEF PersistCommit, MsgFits, BatchPhases, BatchMsg
    <3>2. agents' = [agents EXCEPT ![boundId[c]] =
            [pk |-> agents[boundId[c]].pk, owner |-> agents[boundId[c]].owner,
             delivered |-> stagedAgent[c]]]
      BY <2>3 DEF PersistCommit
    <3> QED BY <3>1, <3>2
  <2>4. ASSUME NEW b \in AgentIds, DeleteAgent(b) \/ DeleteOwner(b)
        PROVE  agents'[a].owner \in {agents[a].owner, None}
    BY <2>4 DEF DeleteAgent, DeleteOwner, NoAgent
  <2>5. ASSUME NEW c \in Conns,
               \/ ResumeSelect(c) \/ PersistReceipt(c) \/ PersistTouch(c) \/ PersistAgent(c)
               \/ PersistCheckpoint(c) \/ DbError(c) \/ HangUp(c)
        PROVE  agents' = agents
    BY <2>5 DEF ResumeSelect, PersistReceipt, PersistTouch, PersistAgent, PersistCheckpoint,
       DbError, HangUp, Nack, tables
  <2>6. ASSUME NEW c \in Conns, \/ \E u \in Users : Connect(c, u)
                                \/ \E b \in AgentIds : ReceiveResume(c, b)
                                \/ \E m \in BatchMsg : ReceiveBatch(c, m)
        PROVE  agents' = agents
    BY <2>6 DEF Connect, ReceiveResume, ReceiveBatch, tables
  <2>7. ASSUME Crash \/ \E k \in Keys : PruneReceipt(k) PROVE agents' = agents
    BY <2>7 DEF Crash, PruneReceipt, tables
  <2> QED
    BY <2>1, <2>2, <2>3, <2>4, <2>5, <2>6, <2>7 DEF Next, Handle
<1> QED BY <1>1, InvHolds, PTL DEF Spec, NoTakeover

-----------------------------------------------------------------------------
\* A commit is the one step that the ledger sees.
LEMMA CommitApplies ==
  ASSUME Inv, NEW c \in Conns, PersistCommit(c)
  PROVE  Ledger!Apply(msg[c].key, msg[c].cursor, msg[c].content)
<1> DEFINE m == msg[c]
<1> USE StoreAssumption DEF Inv, TypeOK
<1>1. /\ m \in BatchMsg
      /\ receipts[m.key] = None
      /\ stagedCheckpoint[c].cursor = m.cursor
  BY DEF PersistCommit, MsgFits, BatchPhases, Held, KeyHeld, CheckpointHeld, Storing
<1>2. m.key \in Keys /\ m.key[1] \in Targets
  BY <1>1 DEF BatchMsg, Keys
<1>3. stagedCheckpoint[c] # None
  BY <1>1, <1>2 DEF PersistCommit, Held, CheckpointHeld, Delivered, Checkpoint, BatchMsg
<1>4. /\ receipts' = [receipts EXCEPT ![m.key] = [cursor |-> m.cursor, content |-> m.content]]
      /\ rows' = [rows EXCEPT ![m.key] = @ + 1]
      /\ checkpoints' = [checkpoints EXCEPT ![m.key[1]] = stagedCheckpoint[c]]
  BY DEF PersistCommit
<1>5. StoredCursor' = [StoredCursor EXCEPT ![m.key[1]] = m.cursor]
  BY <1>1, <1>2, <1>3, <1>4 DEF StoredCursor
<1> QED
  BY <1>1, <1>2, <1>4, <1>5 DEF Ledger!Apply

\* Any other step leaves what the ledger sees alone.
LEMMA OthersStutter ==
  ASSUME Inv, MaxPrunes = 0, [Next]_vars, ~ \E c \in Conns : PersistCommit(c)
  PROVE  UNCHANGED <<receipts, rows, checkpoints>>
<1> USE DEF tables
<1>1. ASSUME NEW c \in Conns, Handle(c) PROVE UNCHANGED <<receipts, rows, checkpoints>>
  BY <1>1 DEF Handle, ResumeSelect, ResumeSave, ResumeCreate, PersistReceipt, PersistTouch,
     PersistAgent, PersistCheckpoint, Nack
<1>2. ASSUME NEW c \in Conns, \/ \E u \in Users : Connect(c, u)
                              \/ HangUp(c)
                              \/ \E a \in AgentIds : ReceiveResume(c, a)
                              \/ \E m \in BatchMsg : ReceiveBatch(c, m)
                              \/ DbError(c)
      PROVE UNCHANGED <<receipts, rows, checkpoints>>
  BY <1>2 DEF Connect, HangUp, ReceiveResume, ReceiveBatch, DbError, Nack
<1>3. CASE Crash
  BY <1>3 DEF Crash
<1>4. ASSUME NEW a \in AgentIds, DeleteAgent(a) \/ DeleteOwner(a)
      PROVE UNCHANGED <<receipts, rows, checkpoints>>
  BY <1>4 DEF DeleteAgent, DeleteOwner
<1>5. ASSUME NEW k \in Keys PROVE ~PruneReceipt(k)
  <2>1. pruned[k] \in Nat
    BY DEF Inv, TypeOK
  <2> QED BY <2>1 DEF PruneReceipt
<1>6. CASE UNCHANGED vars
  BY <1>6 DEF vars
<1> QED BY <1>1, <1>2, <1>3, <1>4, <1>5, <1>6 DEF Next

\* While no receipt is pruned, the transactions of any number of connections
\* implement the ledger: receipt, events and checkpoint change as one.
THEOREM StoreImplementsLedger ==
  ASSUME MaxPrunes = 0
  PROVE  Spec => LedgerSpec
<1>1. Init => Ledger!Init
  BY DEF Init, Ledger!Init, StoredCursor
<1>2. Inv /\ [Next]_vars => [Ledger!Next]_(Ledger!ledgerVars)
  <2> SUFFICES ASSUME Inv, [Next]_vars PROVE [Ledger!Next]_(Ledger!ledgerVars)
    OBVIOUS
  <2>1. CASE \E c \in Conns : PersistCommit(c)
    <3>1. PICK c \in Conns : PersistCommit(c)
      BY <2>1
    <3>2. msg[c] \in BatchMsg
      BY <3>1 DEF Inv, MsgFits, PersistCommit, BatchPhases
    <3>3. Ledger!Apply(msg[c].key, msg[c].cursor, msg[c].content)
      BY <3>1, CommitApplies
    <3> QED
      BY <3>2, <3>3 DEF Ledger!Next, BatchMsg
  <2>2. CASE ~ \E c \in Conns : PersistCommit(c)
    BY <2>2, OthersStutter, MaxPrunes = 0 DEF Ledger!ledgerVars, StoredCursor
  <2> QED BY <2>1, <2>2
<1> QED BY <1>1, <1>2, InvHolds, PTL DEF Spec, LedgerSpec, Ledger!Spec

\* While no receipt is pruned, a checkpoint is always the cursor of a stored batch
\* of its target: the commit that moves it also stores the batch, and a rollback
\* takes back both.
THEOREM CheckpointOfStoredBatch == Spec => []CheckpointBacked
<1>1. Init => CheckpointBacked
  BY DEF Init, CheckpointBacked
<1>2. Inv /\ CheckpointBacked /\ [Next]_vars => CheckpointBacked'
  <2> SUFFICES ASSUME Inv, CheckpointBacked, [Next]_vars, MaxPrunes = 0,
                      NEW t \in Targets, checkpoints'[t] # None
               PROVE  \E k \in Keys : /\ k[1] = t
                                       /\ receipts'[k] # None
                                       /\ receipts'[k].cursor = checkpoints'[t].cursor
    BY DEF CheckpointBacked
  <2>1. CASE \E c \in Conns : PersistCommit(c)
    <3>1. PICK c \in Conns : PersistCommit(c)
      BY <2>1
    <3> DEFINE m == msg[c]
               receipt == [cursor |-> m.cursor, content |-> m.content]
    <3>2. m \in BatchMsg /\ stagedCheckpoint[c].cursor = m.cursor
      BY <3>1, StoreAssumption DEF Inv, TypeOK, PersistCommit, MsgFits, BatchPhases, Held, CheckpointHeld
    <3>3. m.key \in Keys /\ receipt # None
      BY <3>2, StoreAssumption DEF BatchMsg, Receipt
    <3>4. receipts' = [receipts EXCEPT ![m.key] = receipt]
          /\ checkpoints' = [checkpoints EXCEPT ![m.key[1]] = stagedCheckpoint[c]]
      BY <3>1 DEF PersistCommit
    <3>t. receipts \in [Keys -> Receipt \cup {None}] /\ checkpoints \in [Targets -> Checkpoint \cup {None}]
      BY DEF Inv, TypeOK
    <3>5. CASE t = m.key[1]
      <4>1. receipts'[m.key] = receipt /\ checkpoints'[t] = stagedCheckpoint[c]
        BY <3>3, <3>4, <3>5, <3>t
      <4> QED
        BY <3>2, <3>3, <3>5, <4>1
    <3>6. CASE t # m.key[1]
      <4>1. checkpoints'[t] = checkpoints[t]
        BY <3>4, <3>6, <3>t
      <4>2. PICK k \in Keys : /\ k[1] = t
                              /\ receipts[k] # None
                              /\ receipts[k].cursor = checkpoints[t].cursor
        BY <4>1 DEF CheckpointBacked
      <4>3. receipts'[k] = receipts[k]
        BY <3>4, <3>6, <3>t, <4>2
      <4> QED
        BY <4>1, <4>2, <4>3
    <3> QED
      BY <3>5, <3>6
  <2>2. CASE ~ \E c \in Conns : PersistCommit(c)
    BY <2>2, OthersStutter DEF CheckpointBacked
  <2> QED
    BY <2>1, <2>2
<1> QED
  BY <1>1, <1>2, InvHolds, PTL DEF Spec
=============================================================================
