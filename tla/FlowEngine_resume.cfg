SPECIFICATION FairSpec
CONSTANTS
  e1 = e1
  e2 = e2
  Engines <- OneEngine
  Steps <- PairIds
  DependsOn <- PairDeps
  Kids <- NoKids
  Gated = {}
  Compensable = {}
  Cached = {}
  Retries <- NoRetries
  Served = {}
  Runs = {1, 2, 3, 4}
  MAX_ATTEMPTS = 1
  MaxCrashes = 1
  MaxLapses = 0
  MaxFaults = 0
PROPERTIES
  EveryFlowSettles
CHECK_DEADLOCK FALSE
