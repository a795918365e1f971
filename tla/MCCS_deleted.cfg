SPECIFICATION Spec
CONSTANTS
  Ids = {r}
  Recurring = {r}
  Early = {r}
  Gone = Gone
  Torn = Torn
  MaxTime = 3
  MaxAge = 0
  MaxFires = 2
  MaxStarts = 1
  MayDelete = TRUE
  MayFail = FALSE
  MayWait = FALSE
  PromptWrites = FALSE
  PromptReloads = FALSE
CHECK_DEADLOCK FALSE
INVARIANTS
  DeletedStaysDeleted
