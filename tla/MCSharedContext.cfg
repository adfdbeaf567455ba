CONSTANTS
  Calls = {c1, c2}
  Files = {a, b}
  MaxLoads = 1
  Cleanups = {d1}
  NCtx = 3
  MaxTokens = 1
  MaxPrompt = 1
  Deliveries = {d1}
  UserContents = {"string"}
  MaxCopies = 0
SPECIFICATION MCSpec
CHECK_DEADLOCK FALSE
INVARIANT ContextUsedAlone
