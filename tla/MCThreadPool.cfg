CONSTANTS
  MaxThreads = 3
  Nodes <- SmallGraph
  MulChunks = 8
  MaxGraphs = 2
  MayAbort = TRUE
SPECIFICATION PoolSpec
CHECK_DEADLOCK FALSE
INVARIANTS
  WorkersQuiet
PROPERTIES
  BarrierSpec
  BarrierHolds
  ComputesGraph
  CallsReturn
