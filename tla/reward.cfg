SPECIFICATION RewardSpec
CONSTANTS
  NTasks = 3
  NCores = 2
  Priority <- MCPriority
  RelDeadline <- MCRelDeadline
  Work <- MCWork
  CanUseGpu = {2}
  ModelSize <- MCSize
  WorkingSet <- MCSize
  GpuAvailable = TRUE
  Freq <- MCFreq
  RefFreq = 2
  Isolated = {}
  Quantum = 2
  CsMin = 0
  CsMax = 1
  DeadlineCheckInterval = 3
  MigrationCheckInterval = 4
  NearDeadline = 1
  SoonDeadline = 2
  CloseDeadline = 4
  EpisodeDuration = 10
  ArrivalTimes = {0, 3}
  Actions <- AllActions
  CacheSize <- MCCache
  Performance = {1}
  PowerWeight <- MCPower
  Unit = 20
  ComponentType <- MCComponent
  Limit <- MCLimit
  TargetLatency <- MCTarget
VIEW UpToPushOrder
INVARIANTS
  PickedIsShownFirst
  RewardAgreesWithMetrics
CHECK_DEADLOCK FALSE
