CONSTANTS
  MaxPayload = 1
  FdRoom = 1
  MaxId = 1
  MaxSend <- SendOneWay
  Initiators <- FromHost
  MaxDrops = 1
  MaxRestarts = 0
  HalfClose = FALSE
SPECIFICATION FairSpec
CHECK_DEADLOCK FALSE
PROPERTIES OpenIsAnswered CloseReachesBothEnds DataArrives
