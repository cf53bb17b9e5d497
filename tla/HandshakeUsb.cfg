SPECIFICATION FairSpec
CONSTANTS
  k1 = k1
  k2 = k2
  HostKeys <- TwoKeys
  Known <- LaterKnown
  nullptr = nullptr
  auth_required = TRUE
  Tcp = FALSE
  DeviceVersion <- NewDevice
  Failing = {}
  MaxSessions = 3
  MaxFrameworks = 2
INVARIANTS OneQuestion UnauthorizedIsExhausted
PROPERTIES KnownKeyConnects UserIsAsked
CHECK_DEADLOCK FALSE
