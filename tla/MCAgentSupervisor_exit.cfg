\* SIGINT reaches the agent while it sleeps.
SPECIFICATION Spec
CONSTANTS
  NumManagers = 1
  QueueSize = 2
  PromptSenders = FALSE
  Unlimited = Unlimited
  RestartLimit <- NoLimits
  Backoff = 1
  BackoffMax = 2
  ResetAfter = 2
  MaxExits = 0
  MaxEvents = 0
  MaxOutage = 0
  MaxStartFailures = 0
  MaxInterrupts = 1
INVARIANT ExitStopsPlugins
CHECK_DEADLOCK FALSE
