----------------------------- MODULE BatchLedger -----------------------------
(***************************************************************************)
(* What ingestion promises, with the machinery left out.                   *)
(*                                                                         *)
(* A shipper names every batch.  The indexer keeps one receipt per name,   *)
(* the event rows the batch brought in, and one checkpoint per target.     *)
(* The three change in one indivisible step, at most once per name, and    *)
(* nothing else ever changes them.  IndexerStore (transactions with row    *)
(* locks) and CheckpointedDelivery (plugin, queues, sender, socket) are    *)
(* both shown to implement this module.                                    *)
(***************************************************************************)
EXTENDS Naturals

CONSTANTS
  Ids,        \* the names of batches
  Targets,    \* the sources that have a checkpoint
  Cursors,    \* positions in a source
  Contents,   \* event payloads
  TargetOf,   \* the target each name belongs to
  NoReceipt,  \* the receipt of a name not stored yet
  NoCursor    \* the checkpoint of a target with nothing stored yet

\* What the ledger needs of the constants.
LedgerAssumption ==
  /\ TargetOf \in [Ids -> Targets]
  /\ NoCursor \notin Cursors
  /\ NoReceipt \notin [cursor: Cursors, content: Contents]

VARIABLES
  receipts,    \* the receipt stored for each name, or NoReceipt
  rows,        \* how many times the events of a name were inserted
  checkpoint   \* the cursor stored for each target, or NoCursor

ledgerVars == <<receipts, rows, checkpoint>>

Receipt == [cursor: Cursors, content: Contents]

Init ==
  /\ receipts = [k \in Ids |-> NoReceipt]
  /\ rows = [k \in Ids |-> 0]
  /\ checkpoint = [t \in Targets |-> NoCursor]

\* The only thing that ever happens: a name seen for the first time is stored.
Apply(k, cursor, content) ==
  /\ receipts[k] = NoReceipt
  /\ receipts' = [receipts EXCEPT ![k] = [cursor |-> cursor, content |-> content]]
  /\ rows' = [rows EXCEPT ![k] = @ + 1]
  /\ checkpoint' = [checkpoint EXCEPT ![TargetOf[k]] = cursor]

Next == \E k \in Ids, cursor \in Cursors, content \in Contents :
          Apply(k, cursor, content)

Spec == Init /\ [][Next]_ledgerVars

-----------------------------------------------------------------------------

\* Every table holds what its columns allow.
TypeOK ==
  /\ receipts \in [Ids -> Receipt \cup {NoReceipt}]
  /\ rows \in [Ids -> Nat]
  /\ checkpoint \in [Targets -> Cursors \cup {NoCursor}]

\* The events of a batch are in the store exactly when its receipt is, and
\* never twice, however often the batch was sent.
OncePerId == \A k \in Ids : rows[k] = IF receipts[k] = NoReceipt THEN 0 ELSE 1

\* A checkpoint is always the cursor of some batch of that target whose
\* events are stored: a shipper that resumes from it skips nothing unstored.
CheckpointBacked ==
  \A t \in Targets : checkpoint[t] # NoCursor =>
    \E k \in Ids : /\ TargetOf[k] = t
                   /\ receipts[k] # NoReceipt
                   /\ receipts[k].cursor = checkpoint[t]
=============================================================================
