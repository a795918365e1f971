SPECIFICATION Spec
CONSTANTS
  c1 = c1
  c2 = c2
  Callers = {c1}
  Program <- Burst
  Awaits = {}
  Bad <- None
  MaxBatchSize = 2
  MaxQueueSize = 2
  Bytes <- Sizes
  MaxBatchBytes = 3
  MaxFailures = 0
  MayClose = FALSE
CHECK_DEADLOCK FALSE
INVARIANTS
  SerialOrder
