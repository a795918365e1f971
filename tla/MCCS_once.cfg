SPECIFICATION FairSpec
CONSTANTS
  Ids = {a}
  Recurring = {}
  Early = {}
  Gone = Gone
  Torn = Torn
  MaxTime = 6
  MaxAge = 0
  MaxFires = 2
  MaxStarts = 3
  MayDelete = FALSE
  MayFail = FALSE
  MayWait = FALSE
  PromptWrites = FALSE
  PromptReloads = TRUE
CHECK_DEADLOCK FALSE
PROPERTIES
  RunOrAsk
  EveryTaskHandled
