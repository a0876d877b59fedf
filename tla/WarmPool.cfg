SPECIFICATION FairSpec
CONSTANTS
  None = None
  Containers = {1, 2, 3, 4, 5, 6, 7, 8, 9}
  Images = {python, node}
  Jobs = {j1, j2}
  ConcFloor = 1
  ConcMax = 2
  WarmFloor = 0
  WarmMax = 1
  Loads = {0, 2}
  BURST = 1
  MaxRuns = 2
  MaxRetunes = 2
  MaxFaults = 1
  MaxCrashes = 1
  MaxLists = 1
  MaxTroubles = 2
INVARIANTS
  TypeOK
  SoleOwner
  PermitAccounting
  HostBound
PROPERTIES
  Converges
CHECK_DEADLOCK FALSE
