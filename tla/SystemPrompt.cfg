SPECIFICATION FairSpec
CONSTANTS
  UE = {u1, u2}
  DefaultUe = u1
  NoUe = NoUe
  Cooldown = 2
  Grace = 1
  UeCalm = 1
  AckTicks = 0
  CellEnabled = TRUE
  MaxAcks = 2
  MaxRestarts = 0
  MaxThreads = 2
  MaxFaults = 0
  MaxUnread = 2
  Prompt = TRUE
INVARIANTS
  SystemTypeOK
  LastCommandInForce
PROPERTIES
  AttackReachesGnb
  CalmReachesGnb
