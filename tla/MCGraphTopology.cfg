CONSTANTS
  MaxChunkSize = 4
  MaxChunks = 3
  Endless = 12
  Sizes = {1, 2}
  MaxLive = 4
  Graphs <- TwoTopologies
  MaxSrc = 2
  MaxRounds = 2
  AnyTopology = TRUE
SPECIFICATION GraphAllocSpec
CHECK_DEADLOCK FALSE
INVARIANT ReadsInEveryGraph
