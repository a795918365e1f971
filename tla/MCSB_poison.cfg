SPECIFICATION FairSpec
CONSTANTS
  c1 = c1
  c2 = c2
  Callers = {c1, c2}
  Program <- Writes
  Awaits = {c1, c2}
  Bad <- OneBad
  MaxBatchSize = 2
  MaxQueueSize = 3
  Bytes <- Sizes
  MaxBatchBytes = 0
  MaxFailures = 0
  MayClose = FALSE
CHECK_DEADLOCK FALSE
PROPERTIES
  CallsReturn
