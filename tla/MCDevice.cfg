CONSTANTS
  MaxRecordings = 2
  MaxInFlight = 2
  MaxDeviceEvents = 2
  EngineMayFail = TRUE
SPECIFICATION PipelineSpec
CHECK_DEADLOCK FALSE
INVARIANTS
  FlagFollowsRecording
  NoStaleAudio
  NothingLeftBehind
