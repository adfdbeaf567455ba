CONSTANTS
  MaxRecordings = 1
  MaxInFlight = 2
  MaxDeviceEvents = 0
  EngineMayFail = TRUE
SPECIFICATION FairSpec
CHECK_DEADLOCK FALSE
PROPERTY HandsFreeMicOpen
