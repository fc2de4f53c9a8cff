SPECIFICATION SplitSpec
CONSTANTS
  None = None
  RawFiles <- MCRawFiles
  EpisodeIds = {0, 1, 2, 3}
  MaxSplits = 2
INVARIANT NoEpisodeInTwoSplits
CHECK_DEADLOCK FALSE
