SPECIFICATION Spec
CONSTANTS
  stop = stop
  lead = lead
  peer = peer
  leader = leader
  mate = mate
  Writers <- Agents
  Messages <- Mail
  Shutdowns <- StopRequests
  Sender <- SenderOf
  Lead = leader
  Routed <- StopRequests
  Readers = {"runner", "repl", "print"}
  Markers = {k1}
  MaxTroubles = 0
  None = None
CHECK_DEADLOCK FALSE
INVARIANTS
  MarkedAfterDelivery
