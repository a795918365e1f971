SPECIFICATION Spec
CONSTANTS
  Runtimes = {"bun", "node"}
  Reconnects = {TRUE, FALSE}
  BufferSize = 2
  MaxMessages = 2
  MaxFaults = 1
  None = None
CHECK_DEADLOCK FALSE
PROPERTIES
  ClosedForGood
