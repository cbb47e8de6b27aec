SPECIFICATION Spec
CONSTANTS
  i1 = i1
  i2 = i2
  i3 = i3
  k1 = k1
  c1 = c1
  c2 = c2
  Intents <- ThreeIntents
  Cancels <- NoCancel
  Ids <- TwoIds
  ClientId <- SharedId
  AckCarriesFills = FALSE
  MaxPolls = 2
  MaxRetries = 1
  MaxLedger = 3
  MaxOpen = 1
  MaxFailures = 1
  MaxRequests = 3
  MaxLookups = 0
  MaxRepeats = 0
  MaxLost = 0
  MaxLate = 0
  MaxServerErrors = 0
INVARIANTS
  OvershootBounded
PROPERTIES
  BreakerHolds
CHECK_DEADLOCK FALSE
