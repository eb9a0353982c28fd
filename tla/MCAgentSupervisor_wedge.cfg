\* The indexer is away longer than the queue has room for heartbeats.
SPECIFICATION FairSpec
CONSTANTS
  NumManagers = 1
  QueueSize = 2
  PromptSenders = TRUE
  Unlimited = Unlimited
  RestartLimit <- NoLimits
  Backoff = 1
  BackoffMax = 2
  ResetAfter = 2
  MaxExits = 0
  MaxEvents = 0
  MaxOutage = 3
  MaxStartFailures = 0
  MaxInterrupts = 0
PROPERTY HeartbeatsGoOn
