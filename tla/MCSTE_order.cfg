SPECIFICATION FairSpec
CONSTANTS
  MaxTools = 3
  MaxProgress = 0
  Kinds <- KindsQueued
  Events = {"gate"}
INVARIANTS
  RunsInOrder
PROPERTIES
  UnsafeIsBarrier
  WaitsEnd
