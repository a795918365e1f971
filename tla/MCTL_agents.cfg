SPECIFICATION FairSpec
CONSTANTS
  p1 = p1
  p2 = p2
  p3 = p3
  Procs = {p1, p2, p3}
  Nobody = Nobody
  Gone = Gone
  Torn = Torn
  MaxId = 2
  MaxCalls = 2
  Scenarios <- AllScenarios
  Changes <- ChangesEnd
  MayCrash = TRUE
  GivesUp = TRUE
INVARIANTS
  FilesSound
PROPERTIES
  ClaimExclusive
  CallsEnd
