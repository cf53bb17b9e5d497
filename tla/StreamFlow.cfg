CONSTANTS
  MaxPayload = 2
  FdRoom = 1
  MaxId = 1
  MaxSend <- SendBoth
  Initiators <- FromBoth
  MaxDrops = 0
  MaxRestarts = 1
  HalfClose = TRUE
SPECIFICATION Spec
CHECK_DEADLOCK FALSE
INVARIANTS TypeOK SocketSafe OneCredit Contiguous
