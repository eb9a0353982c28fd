\* Two managers, one with a limit, and an outage shorter than their queues have
\* room for.  The agent may be interrupted, after which all may stop.
SPECIFICATION FairSpec
CONSTANTS
  NumManagers = 2
  QueueSize = 4
  PromptSenders = TRUE
  Unlimited = Unlimited
  RestartLimit <- OneLimited
  Backoff = 2
  BackoffMax = 3
  ResetAfter = 2
  MaxExits = 2
  MaxEvents = 1
  MaxOutage = 2
  MaxStartFailures = 1
  MaxInterrupts = 1
INVARIANTS
  TypeOK
  StartsLimited
  NeverForgotten
PROPERTIES
  BackoffRespected
  HeartbeatsGoOn
  PluginRestarts
CHECK_DEADLOCK FALSE
