CONSTANTS
  Keys = {RightOption, LeftOption, Shift, F5}
  FlagKeys = {RightOption, LeftOption, Shift}
  OptionKeys = {RightOption, LeftOption}
  RepeatKeys = {F5}
  DefaultKey = RightOption
  Windows = {20, 22}
  WindowMax = 22
  EdgeInterval = 5
  MinTap = 8
  MaxLate = 2
  DupJitter = 1
  MinSameEdge = 5
  RebindBusy = FALSE
  BothOptions = FALSE
SPECIFICATION FairSpec
INVARIANTS
  TimerMatchesState
  RecordingNeedsHeldKey
  OnePressOneEdge
PROPERTIES
  PttAfterFullHold
  SessionProtocol
  PressResolves
