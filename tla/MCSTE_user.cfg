SPECIFICATION Spec
CONSTANTS
  MaxTools = 2
  MaxProgress = 1
  Kinds <- KindsAll
  Events = {"interrupt", "cancel", "reject", "throw", "gate", "fallback"}
INVARIANTS
  TypeOK
  ObserversAreCurrent
  ResultsSound
PROPERTIES
  DiscardStopsQueue
