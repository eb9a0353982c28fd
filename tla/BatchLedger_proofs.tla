------------------------- MODULE BatchLedger_proofs --------------------------
(***************************************************************************)
(* The promises of the ledger, for any batches, targets and cursors.  With *)
(* StoreImplementsLedger they become promises of the indexer's tables.     *)
(***************************************************************************)
EXTENDS BatchLedger, TLAPS

Inv == TypeOK /\ OncePerId /\ CheckpointBacked

\* Storing a name for the first time keeps all three promises.
LEMMA ApplyInv ==
  ASSUME LedgerAssumption, Inv, NEW k \in Ids, NEW cursor \in Cursors, NEW content \in Contents,
         Apply(k, cursor, content)
  PROVE  Inv'
<1> USE DEF LedgerAssumption, Inv, TypeOK, Apply
<1>1. [cursor |-> cursor, content |-> content] \in Receipt
  BY DEF Receipt
<1>2. TypeOK'
  <2>1. receipts' \in [Ids -> Receipt \cup {NoReceipt}]
    BY <1>1
  <2>2. rows' \in [Ids -> Nat]
    OBVIOUS
  <2>3. checkpoint' \in [Targets -> Cursors \cup {NoCursor}]
    OBVIOUS
  <2> QED BY <2>1, <2>2, <2>3
<1>3. OncePerId'
  BY <1>1 DEF OncePerId, Receipt
<1>4. CheckpointBacked'
  <2> SUFFICES ASSUME NEW t \in Targets, checkpoint'[t] # NoCursor
               PROVE  \E j \in Ids : /\ TargetOf[j] = t
                                     /\ receipts'[j] # NoReceipt
                                     /\ receipts'[j].cursor = checkpoint'[t]
    BY DEF CheckpointBacked
  <2>1. CASE t = TargetOf[k]
    <3>1. checkpoint'[t] = cursor /\ receipts'[k] = [cursor |-> cursor, content |-> content]
      BY <2>1
    <3> QED BY <1>1, <2>1, <3>1 DEF Receipt
  <2>2. CASE t # TargetOf[k]
    <3>1. checkpoint'[t] = checkpoint[t]
      BY <2>2
    <3>2. PICK j \in Ids : /\ TargetOf[j] = t
                           /\ receipts[j] # NoReceipt
                           /\ receipts[j].cursor = checkpoint[t]
      BY <3>1 DEF CheckpointBacked
    <3>3. receipts'[j] = receipts[j]
      BY <2>2, <3>2
    <3> QED BY <3>1, <3>2, <3>3
  <2> QED BY <2>1, <2>2
<1> QED BY <1>2, <1>3, <1>4

\* The promises hold of every behaviour of the ledger.
LEMMA InvHolds == ASSUME LedgerAssumption PROVE Spec => []Inv
<1>1. Init => Inv
  BY DEF LedgerAssumption, Init, Inv, TypeOK, OncePerId, CheckpointBacked
<1>2. Inv /\ [Next]_ledgerVars => Inv'
  <2> SUFFICES ASSUME Inv, [Next]_ledgerVars PROVE Inv'
    OBVIOUS
  <2>1. CASE Next
    BY <2>1, ApplyInv DEF Next
  <2>2. CASE UNCHANGED ledgerVars
    BY <2>2 DEF ledgerVars, Inv, TypeOK, OncePerId, CheckpointBacked
  <2> QED BY <2>1, <2>2
<1> QED BY <1>1, <1>2, PTL DEF Spec

\* The events of a batch are stored exactly when its receipt is, and once.
THEOREM StoredOnce == ASSUME LedgerAssumption PROVE Spec => []OncePerId
<1>1. Inv => OncePerId
  BY DEF Inv
<1> QED BY <1>1, InvHolds, PTL

\* Every checkpoint is the cursor of a batch of its target that is stored.
THEOREM CheckpointIsBacked == ASSUME LedgerAssumption PROVE Spec => []CheckpointBacked
<1>1. Inv => CheckpointBacked
  BY DEF Inv
<1> QED BY <1>1, InvHolds, PTL
=============================================================================
