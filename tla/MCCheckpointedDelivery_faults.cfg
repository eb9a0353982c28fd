\* Everything between plugin and database fails; the plugin dies and starts again
\* from the checkpoint; two targets, one refused for good, share the queue.
SPECIFICATION Spec
CONSTANTS
  NumTargets = 2
  MaxRecords = 3
  QueueSize = 2
  DrainLimit = 2
  MaxCopies = 2
  Plans <- FaultPlans
INVARIANTS
  TypeOK
  NoGap
  NoRecordTwice
  AnswersMatch
PROPERTIES
  CheckpointAdvances
