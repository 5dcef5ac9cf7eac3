SPECIFICATION ObsSpec
CONSTANTS
  GruSeqA = 1
  GruSeqB = 1
  MaxCellRows = 7
  MaxClock = 1
INVARIANT
  TotalOfLastEvent
CHECK_DEADLOCK FALSE
