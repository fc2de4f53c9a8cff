SPECIFICATION Spec
CONSTANTS
  None = None
  Scenarios <- MCScenarios
  Interval <- MCInterval
  Gaps = {3, 8}
  BurstCounts = {2}
  BurstOffsets = {0, 2}
  BURST_INTERVAL_NS = 20
  BURST_DURATION_NS = 12
  BurstStep = 10
  BURST_OVERLAY_INTERVAL_NS = 25
  BURST_OVERLAY_DURATION_NS = 8
  MaxArrivals = 12
  Combos <- MCCombos
  NEpisodes <- MCEpisodes
  Workers = {w1, w2}
  BaseSeeds = {0, 7}
  Decisions <- MCDecisions
  MaxGenerations = 2
  RawFiles <- MCRawFiles
  EpisodeIds = {0, 1, 2, 3}
  MaxSplits = 2
  MaxGroups = 4
  MaxGroupRows = 3
  MaxRows <- MCMaxRows
  TaskIds = {7, 9}
  RingSize = 3
  MaxRecords = 4
  CoresRecorded = {1, 16}
  MAX_ACTION_CORE = 16
  n_iterations = 3
  episodes_per_iteration = 3
  base_seed = 100
  MaxDecisions = 2
INVARIANTS
  InWindow
  RoundRobin
  EpisodesWhole
  WrittenFilesPartition
  FillsItsArrays
  OwnOutcome
  LabelledOnce
PROPERTY
  GenerationEnds
CHECK_DEADLOCK FALSE
