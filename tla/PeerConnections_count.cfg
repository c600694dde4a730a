SPECIFICATION PeersSpec
CONSTANTS
  k1 = k1
  k2 = k2
  d1 = d1
  PeerKeys = {k1}
  Devices = {d1}
  Owner <- MCOwner
  MaxSockets = 2
  QueueDepth = 1
  MaxMissed = 1
  AnonCap = 1
  SameMillisecond = FALSE
INVARIANT CountIsReported
CHECK_DEADLOCK FALSE
