\* A kube_logs target refused for good is polled again.
SPECIFICATION Spec
CONSTANTS
  NumTargets = 2
  MaxRecords = 1
  QueueSize = 2
  DrainLimit = 2
  MaxCopies = 2
  Plans <- OneRefused
PROPERTIES
  FailedTargetStaysStopped
