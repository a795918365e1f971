SPECIFICATION Spec
CONSTANTS
  Ids = {a, b}
  Recurring = {}
  Early = {a}
  Gone = Gone
  Torn = Torn
  MaxTime = 3
  MaxAge = 0
  MaxFires = 2
  MaxStarts = 1
  MayDelete = FALSE
  MayFail = FALSE
  MayWait = FALSE
  PromptWrites = TRUE
  PromptReloads = TRUE
CHECK_DEADLOCK FALSE
INVARIANTS
  KeptUntilFired
