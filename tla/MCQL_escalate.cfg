SPECIFICATION Spec
CONSTANTS
  MaxTurns = 2
  RecoveryLimit = 3
  FailureLimit = 3
  Answers = 3
INVARIANTS
  EscalatesOnce
