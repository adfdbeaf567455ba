CONSTANTS
  Keys = {RightOption}
  FlagKeys = {RightOption}
  OptionKeys = {RightOption}
  RepeatKeys = {}
  DefaultKey = RightOption
  Windows = {20}
  WindowMax = 22
  EdgeInterval = 5
  MinTap = 8
  MaxLate = 2
  DupJitter = 1
  MinSameEdge = 1
  RebindBusy = FALSE
  BothOptions = FALSE
SPECIFICATION FairSpec
PROPERTY PttAfterFullHold
