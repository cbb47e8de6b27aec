SPECIFICATION Spec
CONSTANTS
  Streams = {"a", "b"}
  Subs = {"a1", "a2", "b1"}
  StreamOf <- MCStreamOf
  MaxFaults = 3
INVARIANTS
  TypeOK
  LiveIsDelivered
  ConfirmedTruthful
  Converged
CHECK_DEADLOCK FALSE
