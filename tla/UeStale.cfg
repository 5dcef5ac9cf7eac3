SPECIFICATION UeMetricsSpec
CONSTANTS
  Rnti = {r1}
  Stages = {1, 2}
  StaleAfter = 1
  MaxAlerts = 1
  MaxFiles = 1
INVARIANT
  StaleGone
CHECK_DEADLOCK FALSE
