CONSTANTS
    N = 3
    Kinds = {"prompt", "slash", "bash", "note", "meta", "agent", "mail"}
    MaxCalls = 3
    MaxEscapes = 1
SPECIFICATION Spec
CHECK_DEADLOCK FALSE
INVARIANTS
  CallsSound
  OneLiveTurn
  NothingForgotten
PROPERTIES
  QueueMoves
