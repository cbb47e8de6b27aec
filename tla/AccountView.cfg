SPECIFICATION Spec
CONSTANTS
  Orders = {"o1", "o2"}
  Sells <- MCSells
  Lots = 2
  MaxRecords = 1
  MaxGaps = 1
  MaxPasses = 2
INVARIANTS TypeOK ViewCurrent TerminalExact
CHECK_DEADLOCK FALSE
