SPECIFICATION CollapseSpec
CONSTANTS
  Samples <- MCSamples
  Gaps <- MCGaps
  Confirm = 4
  FastPath = 3
  Recovery = 3
  Span = 6
  Hold = 2
  DecayWin = 3
  OnSlots = 4
  VarRolling = 2
  RachHist = 1
INVARIANT
  CollapseReported
