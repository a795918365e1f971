SPECIFICATION LockSpec
CONSTANTS
  Processes = {p1, p2}
  Sessions = {s1, s2}
  NoFile = NoFile
CHECK_DEADLOCK FALSE
INVARIANTS
  OneOwner
