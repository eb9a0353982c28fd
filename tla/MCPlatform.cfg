SPECIFICATION PlatformSpec
CONSTANTS
  Hashes = {"x", "noise"}
  Relevant = {"x"}
  BatchSize = 1
  MaxLines = 3
  MaxTime = 2
  MaxContainerRestarts = 1
  MaxPods = 2
  MaxCrashes = 1
  KcEvents = {1, 2, 3, 4}
  PageSize = 1
  MaxPages = 3
  KcBatchSize = 1
  KcMaxTime = 1
  KcMaxFailures = 1
  SeekFromEnd = TRUE
  MaxPieces = 4
  MaxRotations = 1
  Sockets <- MCSockets
  MaxSocketChanges = 2
  MaxSocketPolls = 2
  MaxFailures = 1
  MaxSocketRestarts = 1
  Systems = {"Linux", "Darwin", "Windows", "FreeBSD"}
  Sessions <- MCSessions
  MaxHostChanges = 2
  MaxHostPolls = 3
  MaxHostRestarts = 1
  Events = {1}
  Logins = {1}
  IndexOf <- MCIndexOf
  Rules <- MCRules
  Retention = 2
  Scanners = {"p", "q"}
  Interval = 2
  Slack = 1
  Cooldown = 1
  MaxDeaths = 1
  MaxEdits = 1
  EndOfTime = 3
  Tables <- MCTables
  Fields <- MCFields
  DefaultModel = "events"
  Viewable = {"events"}
  Commands <- MCCommands
  MaxStages = 3
  Sample = 2
  MaxRows = 3
  Users = {"u", "v"}
  Names = {"n", "m"}
  MaxSaved = 2
  MaxRequests = 3
  MaxDepth = 2
  People = {"a", "b"}
  Usernames = {"ann", "Ann", "bob"}
  Folded <- MCFolded
  Roles = {"analyst", "chief"}
  GroupMap <- MCGroupMap
  StaffRoles = {}
  SuperuserRoles = {"chief"}
  MaxAccounts = 2
  MaxLogins = 2
  MaxAdmin = 2
INVARIANTS
  LinesCollected EventsCollected LinesWhole SocketsShown PostureShown
  EveryLoginFound CooldownPerProcess StagesCompose ProviderDecides
PROPERTIES OpenFindingsKept OwnersAlone
CHECK_DEADLOCK FALSE
