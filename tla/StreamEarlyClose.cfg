CONSTANTS
  MaxPayload = 1
  FdRoom = 1
  MaxId = 1
  MaxSend <- SendOneWay
  Initiators <- FromHost
  MaxDrops = 0
  MaxRestarts = 0
  HalfClose = FALSE
SPECIFICATION Spec
CHECK_DEADLOCK FALSE
INVARIANTS FromTheStart
