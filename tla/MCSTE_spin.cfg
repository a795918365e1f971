SPECIFICATION FairSpec
CONSTANTS
  MaxTools = 2
  MaxProgress = 0
  Kinds <- KindsSpin
  Events = {}
PROPERTY
  DrainEnds
