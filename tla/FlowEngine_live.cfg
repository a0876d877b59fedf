SPECIFICATION FairSpec
CONSTANTS
  e1 = e1
  e2 = e2
  Engines <- OneEngine
  Steps <- MapStepIds
  DependsOn <- MapDeps
  Kids <- MapKids
  Gated = {"b"}
  Compensable = {"a"}
  Cached = {"z"}
  Retries <- FirstRetries
  Served = {}
  Runs = {1, 2, 3, 4, 5, 6, 7}
  MAX_ATTEMPTS = 2
  MaxCrashes = 0
  MaxLapses = 1
  MaxFaults = 0
PROPERTIES
  EveryFlowSettles
CHECK_DEADLOCK FALSE
