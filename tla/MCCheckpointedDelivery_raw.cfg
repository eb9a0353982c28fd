\* A heartbeat opens a list that swallows a complete batch.
SPECIFICATION Spec
CONSTANTS
  NumTargets = 1
  MaxRecords = 2
  QueueSize = 2
  DrainLimit = 2
  MaxCopies = 2
  Plans <- OnlyHeartbeats
INVARIANTS
  NoBatchStoredRaw
