CONSTANTS
  t1 = t1
  t2 = t2
  nullptr = nullptr
  Transports = {t1, t2}
  Kind <- TcpAndEmulator
  Serial <- SameDevice
  Host = TRUE
  kMaxAttempts = 1
  MaxConns = 2
  MaxCnxn = 1
  MaxSocks = 1
SPECIFICATION Spec
INVARIANTS TypeOK OneOwner OneError NothingDangles Handover OnePerDevice
CHECK_DEADLOCK FALSE
