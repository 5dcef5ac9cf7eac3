SPECIFICATION FairSpec
CONSTANTS
  UE = {u1}
  DefaultUe = u1
  NoUe = NoUe
  Cooldown = 1
  Grace = 1
  UeCalm = 1
  AckTicks = 0
  CellEnabled = FALSE
  MaxAcks = 2
  MaxRestarts = 1
  MaxThreads = 2
  MaxFaults = 1
  MaxUnread = 2
  Prompt = TRUE
PROPERTIES
  LoopRecovers
