CONSTANTS
  MaxPayload = 1
  FdRoom = 1
  MaxId = 2
  MaxSend <- SendHost
  Initiators <- FromHost
  MaxDrops = 0
  MaxRestarts = 1
  HalfClose = FALSE
SPECIFICATION Spec
CHECK_DEADLOCK FALSE
INVARIANTS OfflineHasNoStreams NoOrphan
