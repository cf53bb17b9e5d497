CONSTANTS
  t1 = t1
  t2 = t2
  nullptr = nullptr
  Transports = {t1, t2}
  Kind <- UsbAndEmulator
  Serial <- TwoDevices
  Host = FALSE
  kMaxAttempts = 0
  MaxConns = 1
  MaxCnxn = 1
  MaxSocks = 0
SPECIFICATION FairSpec
INVARIANTS OneOwner NothingDangles
PROPERTIES KickReturns LostIsResolved
CHECK_DEADLOCK FALSE
