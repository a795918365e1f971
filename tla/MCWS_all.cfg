SPECIFICATION FairStateSpec
CONSTANTS
  status = status
  pendingAction = pendingAction
  model = model
  v = v
  null = null
  Keys <- MCKeys
  Values = {v, null}
  Unset = Unset
  NoPatch = NoPatch
  Metadata <- MCMetadata
  Reports <- MCReports
  MaxReports = 3
CHECK_DEADLOCK FALSE
INVARIANTS
  PatchesLeadToLatest
PROPERTIES
  KeepsPromise
  Delivered
