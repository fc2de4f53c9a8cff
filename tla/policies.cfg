SPECIFICATION OracleSpec
CONSTANTS
  NTasks = 3
  NCores = 2
  Priority <- MCPriority
  RelDeadline <- MCRelDeadline
  Work <- MCWork
  CanUseGpu = {2}
  ModelSize <- MCSize
  WorkingSet <- MCSize
  GpuAvailable = TRUE
  Freq <- BigLittleFreq
  RefFreq = 2
  Isolated = {}
  Quantum = 2
  CsMin = 0
  CsMax = 1
  DeadlineCheckInterval = 2
  MigrationCheckInterval = 3
  NearDeadline = 2
  SoonDeadline = 4
  CloseDeadline = 6
  EpisodeDuration = 25
  ArrivalTimes = {0, 2, 5}
  Actions <- AllActions
  CacheSize <- MCCache
  Performance = {0, 1}
  PowerWeight <- MCPower
  Unit = 10
  Policies = {"edf", "hybrid", "weighted"}
  LargeWorkingSet = 2
  BootPenalty = 100
  ActionsPerStep = 2
  MaxDecisions = 4
  Share = 2
VIEW UpToPushOrder
PROPERTIES
  ActionsAreObeyed
  EarlierDeadlineDisplaces
INVARIANTS
  OnlyBoundStrands
  NothingStranded
CHECK_DEADLOCK FALSE
