SPECIFICATION EvalSpec
CONSTANTS
  NTasks = 3
  NCores = 2
  Priority <- MCPriority
  RelDeadline <- MCRelDeadline
  Work <- MCWork
  CanUseGpu = {2}
  ModelSize <- MCSize
  WorkingSet <- MCSize
  GpuAvailable = TRUE
  Freq <- MCFreq
  RefFreq = 1
  Isolated = {}
  Quantum = 2
  CsMin = 0
  CsMax = 0
  DeadlineCheckInterval = 5
  MigrationCheckInterval = 3
  NearDeadline = 1
  SoonDeadline = 2
  CloseDeadline = 4
  EpisodeDuration = 11
  ArrivalTimes = {0, 1}
  Actions <- QueueOnly
  CacheSize <- MCOnes
  Performance = {0}
  PowerWeight <- MCOnes
  Unit = 20
  None = None
  Starving = 2
  AverageTarget = 3
INVARIANT P99CoversHalf
CHECK_DEADLOCK FALSE
