CONSTANTS
  Calls = {c1, c2}
  Files = {a, b}
  MaxLoads = 2
  Cleanups = {d1, d2}
  NCtx = 3
  MaxTokens = 2
  MaxPrompt = 4
  Deliveries = {d1, d2}
  UserContents = {"string", "picture"}
  MaxCopies = 1
SPECIFICATION MCSpec
CHECK_DEADLOCK FALSE
INVARIANTS
  FreedOnce
  UsesSelectedModel
  OwnPromptOnly
  InjectedOnce
  PastesItsText
  ClipboardReturns
PROPERTIES
  TranscribeEnds
  CleanupEnds
