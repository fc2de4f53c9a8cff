SPECIFICATION Spec
CONSTANTS
  None = None
  NaN = NaN
  Infinity = Infinity
  MaxCores = 8
  Platforms = {"jetson_orin_nano", "raspberry_pi5"}
  SizeOf <- MCSizeOf
  DataSizes = {0, 24, 36}
  GivenPaths <- MCGivenPaths
  Losses = {0, 1}
  n_epochs = 4
  patience = 2
  MaxJobs = 2
  n_envs = 2
  n_steps = 5
  total_timesteps = 200
  save_every = 6
  phases <- MCPhases
  initial_scenario = "light_single"
  use_curriculum = TRUE
  Trees <- MCTrees
  Height <- MCHeight
  Models <- MCCascades
  Inputs <- MCInputs
  Logit <- MCLogit
  MaxTrees = 20
  MaxNodes = 28
  MaxClasses = 8
  MaxSaves = 2
  n_features = 2
  hidden1 = 2
  hidden2 = 2
  hidden3 = 2
  n_actions = 1
  Linears <- MCLinears
  Norms <- MCNorms
  States <- MCStates
  ExportPlatforms = {"jetson_orin_nano", "raspberry_pi5"}
  ActionSpaceSize <- MCActionSpaceSize
  ActionSpaces = {42, 24}
  WeightsSuffixes = {"", "_real"}
  MaxTrainings = 2
  MaxExports = 3
  Experts <- MCExperts
  Trained <- MCTrained
  scenarios <- MCScenarios
  n_episodes = 2
  base_seed = 500
  baseline = "hybrid"
INVARIANTS
  RoundTrip
  NamedForItsSize
  BaselineKept
  ReturnsBest
  StopsForPatience
  CheckpointsInTime
  ExportMatchesVectors
  ExportedVerifies
  FoldingIsExact
  PairsShareEpisode
CHECK_DEADLOCK FALSE
