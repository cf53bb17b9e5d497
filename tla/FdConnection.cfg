SPECIFICATION FairSpec
CONSTANTS
  Incoming <- SomePackets
  Outgoing <- TwoPackets
  HeaderSize = 2
  KernelSize = 3
INVARIANTS  PacketsReassembled WritesInOrder BuffersExact
PROPERTY StopOfRunningReturns
CHECK_DEADLOCK FALSE
