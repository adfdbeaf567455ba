CONSTANTS
  MaxChunkSize = 4
  MaxChunks = 3
  Endless = 12
  Sizes = {1, 2}
  MaxLive = 4
  Graphs <- SomeGraphs
  MaxSrc = 2
  MaxRounds = 2
  AnyTopology = FALSE
SPECIFICATION MCSpec
CHECK_DEADLOCK FALSE
INVARIANTS
  NoOverlap
  WithinBuffer
  HolesAreWhole
  ReadsWhatWasWritten
  OutputsStay
  InBuffer
