SPECIFICATION FairSpec
CONSTANTS
  Reads = {r1}
  Writes = {w1, w2}
  MaxPending = 1
  MaxDrops = 2
  MaxAuthDrops = 1
  MaxLogouts = 1
  MaxLogoutFails = 1
INVARIANTS
  TypeOK
  SessionTruthful
  NoStrandedWaiter
PROPERTIES
  ImplementsRpc
  EveryCallEnds
  ComesBack
CHECK_DEADLOCK FALSE
