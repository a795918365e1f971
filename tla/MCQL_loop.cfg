SPECIFICATION Spec
CONSTANTS
  MaxTurns = 2
  RecoveryLimit = 1
  FailureLimit = 2
  Answers = 3
INVARIANTS
  LoopSound
  NoSpiral
  TurnLimit
  AbortStops
PROPERTIES
  LoopEnds
