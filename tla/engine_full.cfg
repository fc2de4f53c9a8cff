SPECIFICATION FairSpec
CONSTANTS
  NTasks = 3
  NCores = 2
  Priority <- MCPriority
  RelDeadline <- MCRelDeadline
  Work <- MCWork
  CanUseGpu <- MCCanUseGpu
  ModelSize <- MCModelSize
  WorkingSet <- MCWorkingSet
  GpuAvailable = TRUE
  Freq <- MCFreq
  RefFreq = 1
  Isolated = {}
  Quantum = 3
  CsMin = 0
  CsMax = 1
  DeadlineCheckInterval = 3
  MigrationCheckInterval = 5
  NearDeadline = 2
  SoonDeadline = 4
  CloseDeadline = 6
  EpisodeDuration = 13
  ArrivalTimes = {0, 2}
  Actions <- AllActions
VIEW UpToPushOrder
INVARIANTS
  TypeOK
  Mutex
  NothingInThePast
  CompletedOnce
  MemoryBalanced
  RewardedOnce
  BusyWithinElapsed
  WorkConserving
PROPERTIES
  SharesCores
  EpisodeEnds
CHECK_DEADLOCK FALSE
