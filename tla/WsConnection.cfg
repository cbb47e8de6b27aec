SPECIFICATION FairSpec
CONSTANTS
  RotationMs = 1
  StaleMs = 1
  MaxCalls = 3
  MaxStale = 1
  MaxRotations = 2
  MaxDrops = 2
  MaxRaces = 1
  MaxNoUrl = 1
INVARIANTS
  TypeOK
  OneConnection
  StateTruthful
PROPERTIES
  GaplessRotation
  ComesBack
CHECK_DEADLOCK FALSE
