\* The tables implement the ledger, and every record is stored in the end.
SPECIFICATION FairSpec
CONSTANTS
  NumTargets = 1
  MaxRecords = 2
  QueueSize = 2
  DrainLimit = 2
  MaxCopies = 2
  Plans <- OneOutage
PROPERTIES
  LedgerSpec
  EventuallyStored
\* A wedged agent waits for ever.
CHECK_DEADLOCK FALSE
