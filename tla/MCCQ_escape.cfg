CONSTANTS
  N = 3
  Kinds = {"prompt", "slash", "bash"}
  MaxCalls = 3
  MaxEscapes = 1
SPECIFICATION Spec
CHECK_DEADLOCK FALSE
INVARIANT AlwaysInterruptible
