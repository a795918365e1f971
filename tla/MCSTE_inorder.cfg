SPECIFICATION Spec
CONSTANTS
  MaxTools = 2
  MaxProgress = 0
  Kinds <- KindsSafe
  Events = {}
PROPERTY
  ResultsInOrder
