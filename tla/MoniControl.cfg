SPECIFICATION FairSpec
CONSTANTS
  UE = {u1, u2}
  DefaultUe = u1
  NoUe = NoUe
  Cooldown = 3
  Grace = 2
  UeCalm = 2
  AckTicks = 1
  CellEnabled = TRUE
  MaxAcks = 1
  MaxRestarts = 1
INVARIANTS
  TypeOK
  ControlInv
PROPERTIES
  RefinesThrottleCycle
  PersistentAttackThrottled
  CalmReleases
