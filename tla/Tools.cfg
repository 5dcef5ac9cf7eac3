SPECIFICATION ToolsSpec
CONSTANTS
  Kpis <- MCKpis
  SeqLen = 8
  RulesEnabled = TRUE
  DlLow = 0

  Scripts = {"lstm", "gru", "lstm_ue", "gru_ue"}
  Loss = {1, 2, 4}
  NaN = NaN
  MinDelta = 2
  Patience = 2
  MaxEpochs = 3
  MaxRuns = 2

  RowKinds <- MCRowKinds
  W = 2
  Need <- MCNeed
  Threshold = 1
  Cycle = 1
  MaxRows = 5
  TargetFpr = 400
  Cooldown = 2
  Percentiles = {1000, 900, 500, 250}
  LinSteps = 3
  MaxFpr = 400
  Roq = 2
  RoqRule = 2
  RoqNeed = 2
  SkippedRows = 1
  CurrentThresh = 1

  Drivers = {"lstm", "gru"}
  CellPlan <- MCCellPlan
  MaxStarts = 3
  Of <- MCOf
  Baseline = "full_19"
  AblationSeed = 42

  Rows <- MCRows
  RowGaps = {1, 2}
  History = 2
  TriggerSpan = 3
  StormHold = 4
  OnSpan = 6
  BurstHold = 3
  SatPersist = 4
  SatFast = 2
  SatForget = 3

  Dataset <- MCDataset
  SeqWindow = 1
  SmoothN = 2
  MinConsec = 3
  Thresh <- MCThresh
  QuietThresh <- MCQuietThresh
  LstmPersist = 3
  MaxData = 6

  Rnti = {r1}
  Stages = {1, 2}
  StaleAfter = 1
  MaxAlerts = 2
  MaxFiles = 2

  GruSeqA = 2
  GruSeqB = 3
  MaxCellRows = 5
  MaxClock = 1

  EvalAttacks = {"ul_flood", "burst"}
  Detectors = {"m1", "m2"}
  MaxWrites = 2

  Samples <- MCSamples
  Gaps <- MCGaps
  Confirm = 4
  FastPath = 3
  Recovery = 3
  Span = 6
  Hold = 2
  DecayWin = 3
  OnSlots = 4
  VarRolling = 2
  RachHist = 1

  RNTI = {r1, r2, r3}
  MaxTracked = 2
  AlertConsecutive = 2
  NewRntiThr = 2
  MinPeriods = 2
INVARIANTS
  ToolsTypeOK
  LstmNeverFirst
  BestWeightsKept
  FilesMatch
  RulesOnOwnRows
  LatencyFromOnset
  CountsAgree
  FalseAlarmsExplained
  ThresholdsBest
  
  CellsRecorded
  TablesOfOneStudy
  PortHolds
  NoAlertOnOneSpike
  BlockedNotInflated
  ShownIsLastRead
  GruWindowsAlike
  ResultsNotMissed
  OneModelActive
  OnlyStormLatches
  SaturationSustained
  BurstRingExact
  CalmClears
  NewUesExact
PROPERTIES
  VerdictsStand
  FloodReported
CHECK_DEADLOCK FALSE
