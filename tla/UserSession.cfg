SPECIFICATION FairSpec
CONSTANTS
  Sessions = {"s1", "s2"}
  KeepAliveLimit = 2
  ReconnectLimit = 2
  FlapLimit = 2
  MaxKeys = 2
  MaxFaults = 2
  MaxLost = 1
INVARIANTS TypeOK SessionInCharge ClosedIsQuiet NoKeyLeak
PROPERTY KeepsDelivering
CHECK_DEADLOCK FALSE
