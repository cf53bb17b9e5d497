SPECIFICATION Spec
CONSTANTS
  k1 = k1
  k2 = k2
  HostKeys <- TwoKeys
  Known <- LaterKnown
  nullptr = nullptr
  auth_required = TRUE
  Tcp = TRUE
  DeviceVersion <- UpdatedDevice
  Failing = {"token", "sign", "publickey", "prompt"}
  MaxSessions = 3
  MaxFrameworks = 2
INVARIANTS TypeOK  
CHECK_DEADLOCK FALSE
