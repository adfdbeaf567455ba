CONSTANTS
  MaxRecordings = 1
  MaxInFlight = 1
  MaxDeviceEvents = 1
  EngineMayFail = FALSE
SPECIFICATION FairPipelineSpec
CHECK_DEADLOCK FALSE
INVARIANT FlagsAgreeAtRest
