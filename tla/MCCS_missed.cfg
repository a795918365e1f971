SPECIFICATION Spec
CONSTANTS
  Ids = {a}
  Recurring = {}
  Early = {a}
  Gone = Gone
  Torn = Torn
  MaxTime = 3
  MaxAge = 0
  MaxFires = 2
  MaxStarts = 1
  MayDelete = FALSE
  MayFail = TRUE
  MayWait = TRUE
  PromptWrites = TRUE
  PromptReloads = TRUE
CHECK_DEADLOCK FALSE
PROPERTIES
  AskedIsNotRun
