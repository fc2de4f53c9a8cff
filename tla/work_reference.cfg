SPECIFICATION WorkSpec
CONSTANTS
  NTasks = 3
  NCores = 2
  Priority <- MCPriority
  RelDeadline <- MCRelDeadline
  Work <- MCWork
  CanUseGpu = {}
  ModelSize <- MCSize
  WorkingSet <- MCSize
  GpuAvailable = FALSE
  Freq <- ReferenceFreq
  RefFreq = 1
  Isolated = {}
  Quantum = 2
  CsMin = 0
  CsMax = 1
  DeadlineCheckInterval = 3
  MigrationCheckInterval = 4
  NearDeadline = 2
  SoonDeadline = 4
  CloseDeadline = 6
  EpisodeDuration = 16
  ArrivalTimes = {0, 1}
  Actions <- CpuKeepNoPreempt
VIEW WithoutAccounts
INVARIANTS
  WorkDone
  ProgressKept
CHECK_DEADLOCK FALSE
