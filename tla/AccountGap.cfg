SPECIFICATION Spec
CONSTANTS
  Orders = {"o1", "o2"}
  Sells <- MCSells
  Lots = 2
  MaxRecords = 2
  MaxGaps = 1
  MaxPasses = 2
INVARIANT GapClosed
CHECK_DEADLOCK FALSE
