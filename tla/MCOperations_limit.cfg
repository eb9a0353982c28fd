SPECIFICATION OperationsSpec
CONSTANTS
  Daemons = {"tail", "failed login", "gone"}
  Jobs = {"retention", "alerts"}
  Broken = {"gone"}
  RestartLimit <- MCRestartLimit
  HasSchedule = {"retention"}
  Period <- MCPeriod
  MaxLag = 2
  MaxDeaths = 3
  EndOfTime = 8
  Order <- MCOrder
  HasWards = {"indexer", "agent"}
  Checked = {"indexer", "web"}
  MaxInterrupts = 2
  MaxSpawns = 2
  Releases = 2
INVARIANT RestartsLimited
CHECK_DEADLOCK FALSE
