SPECIFICATION Spec
CONSTANTS
  e1 = e1
  e2 = e2
  Engines <- OneEngine
  Steps <- PairIds
  DependsOn <- PairDeps
  Kids <- NoKids
  Gated = {}
  Compensable = {}
  Cached = {}
  Retries <- NoRetries
  Served = {"a", "b"}
  Runs = {1, 2}
  MAX_ATTEMPTS = 1
  MaxCrashes = 0
  MaxLapses = 0
  MaxFaults = 0
INVARIANTS
  RetryBudget
CHECK_DEADLOCK FALSE
