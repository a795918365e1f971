SPECIFICATION FairSpec
CONSTANTS
  c1 = c1
  c2 = c2
  Callers = {c1, c2}
  Program <- Two
  Awaits = {c2}
  Bad <- TwoBad
  MaxBatchSize = 2
  MaxQueueSize = 2
  Bytes <- Sizes
  MaxBatchBytes = 3
  MaxFailures = 2
  MayClose = TRUE
CHECK_DEADLOCK FALSE
INVARIANTS
  QueueSound
  WaitersSound
PROPERTIES
  ClosedSendsNothing
  CallsReturn
