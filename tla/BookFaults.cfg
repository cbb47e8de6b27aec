SPECIFICATION FairSpec
CONSTANTS
  w1 = w1
  w2 = w2
  Watches <- TwoWatches
  Products <- Both
  MaxBuffered = 2
  MaxUpdateId = 3
  MaxDrops = 1
  MaxCloses = 1
  MaxRotations = 2
  MaxErrors = 1
INVARIANTS
  TypeOK
  BookExact
PROPERTIES
  LiveAfterFrame
  SpotOverlapGoesLive
  LiveOrGivenUp
CHECK_DEADLOCK FALSE
