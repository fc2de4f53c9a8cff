SPECIFICATION Spec
CONSTANTS
  NTasks = 4
  NCores = 2
  Priority <- LongPriority
  RelDeadline <- LongRelDeadline
  Work <- LongWork
  CanUseGpu = {}
  ModelSize <- LongSize
  WorkingSet <- LongSize
  GpuAvailable = FALSE
  Freq <- BigLittleFreq
  RefFreq = 2
  Isolated = {}
  Quantum = 2
  CsMin = 0
  CsMax = 1
  DeadlineCheckInterval = 2
  MigrationCheckInterval = 5
  NearDeadline = 2
  SoonDeadline = 4
  CloseDeadline = 6
  EpisodeDuration = 8
  ArrivalTimes = {0, 1}
  Actions <- CpuKeepNoPreempt
VIEW UpToPushOrder
INVARIANTS
  OneEventPerBusyCore
CHECK_DEADLOCK FALSE
