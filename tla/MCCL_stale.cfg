SPECIFICATION LockSpec
CONSTANTS
  Processes = {p1, p2, p3}
  Sessions = {s1, s2}
  NoFile = NoFile
CHECK_DEADLOCK FALSE
PROPERTIES
  OneRecovery
