CONSTANTS
  MaxRecordings = 2
  MaxInFlight = 2
  MaxDeviceEvents = 0
  EngineMayFail = TRUE
SPECIFICATION MCSpec
CHECK_DEADLOCK FALSE
INVARIANTS
  FlagsAgreeAtRest
PROPERTIES
  FeedbackFollowsMic
  DeliveredThenIdle
  CallsReturn
