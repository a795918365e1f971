SPECIFICATION Spec
CONSTANTS
  p1 = p1
  p2 = p2
  p3 = p3
  Procs = {p1, p2}
  Nobody = Nobody
  Gone = Gone
  Torn = Torn
  MaxId = 2
  MaxCalls = 2
  Scenarios <- BusyClaiming
  Changes <- ChangesStart
  MayCrash = FALSE
  GivesUp = FALSE
PROPERTIES
  ClaimExclusive
