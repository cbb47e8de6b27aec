SPECIFICATION FairSpec
CONSTANTS
  Streams = {"a", "b"}
  Subs = {"a1", "a2"}
  StreamOf <- MCStreamOf
  MaxFaults = 5
PROPERTIES
  GoesLive
CHECK_DEADLOCK FALSE
