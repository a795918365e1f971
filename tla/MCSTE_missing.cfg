SPECIFICATION Spec
CONSTANTS
  MaxTools = 2
  MaxProgress = 0
  Kinds <- KindsSafe
  Events = {"cancel"}
PROPERTY
  MissingMeansMissing
