CONSTANTS
  t1 = t1
  t2 = t2
  nullptr = nullptr
  Transports = {t1}
  Kind <- OneTcp
  Serial <- OneDevice
  Host = TRUE
  kMaxAttempts = 1
  MaxConns = 2
  MaxCnxn = 1
  MaxSocks = 0
SPECIFICATION FairSpec
PROPERTIES StopReturns LostIsResolved
CHECK_DEADLOCK FALSE
