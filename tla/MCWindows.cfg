CONSTANTS
  Models = {tiny, phi}
  AsrModels = {tiny}
  FailingSteps = {"directory", "copy", "delete"}
  Tasks = {t1, t2, t3}
  NoModel = NoModel
  NoTask = NoTask
  HotkeyActions = {"default", "popover", "injectLast"}
  DefaultAction = "default"
  TapActions = {"popover", "injectLast"}
  Combos <- MCCombos
  DefaultCombo <- MCDefaultCombo
  Reserved <- MCReserved
  NotSet = NotSet
  Triggers = {"brb", "omw"}
  MaxIds = 3
  MaxUses = 1
  Entries = {1, 2, 3}
  Retained = 2
  Loops = {l1, l2}
  MaxPanelLoads = 2
SYMMETRY MCSymmetry
SPECIFICATION MCSpec
INVARIANTS
  ProgressHasTask
  KnownTaskIsAlive
  ActiveIsDownloaded
  CombosUnique
  OneRowRecords
  ListIsTable
  KeepsWhatIsSaved
PROPERTIES
  InjectedOncePerTap
CHECK_DEADLOCK FALSE
