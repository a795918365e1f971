SPECIFICATION Spec
CONSTANTS
  Runtimes = {"bun", "node"}
  Reconnects = {TRUE, FALSE}
  BufferSize = 3
  MaxMessages = 4
  MaxFaults = 3
  None = None
CHECK_DEADLOCK FALSE
INVARIANTS
  ConnectionSound
  NoGap
PROPERTIES
  StaysClosed
  Delivered
