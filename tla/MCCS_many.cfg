SPECIFICATION Spec
CONSTANTS
  Ids = {a, r}
  Recurring = {r}
  Early = {a, r}
  Gone = Gone
  Torn = Torn
  MaxTime = 3
  MaxAge = 3
  MaxFires = 2
  MaxStarts = 1
  MayDelete = TRUE
  MayFail = TRUE
  MayWait = TRUE
  PromptWrites = TRUE
  PromptReloads = TRUE
CHECK_DEADLOCK FALSE
INVARIANTS
  FileSound
PROPERTIES
  OncePerPeriod
