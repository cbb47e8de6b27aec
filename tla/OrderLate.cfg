SPECIFICATION Spec
CONSTANTS
  i1 = i1
  i2 = i2
  i3 = i3
  k1 = k1
  c1 = c1
  c2 = c2
  Intents <- OneIntent
  Cancels <- NoCancel
  Ids <- OneId
  ClientId <- OnlyId
  AckCarriesFills = FALSE
  MaxPolls = 2
  MaxRetries = 1
  MaxLedger = 2
  MaxOpen = 2
  MaxFailures = 1
  MaxRequests = 2
  MaxLookups = 0
  MaxRepeats = 0
  MaxLost = 0
  MaxLate = 1
  MaxServerErrors = 0
INVARIANTS
  NeverDoubled
CHECK_DEADLOCK FALSE
