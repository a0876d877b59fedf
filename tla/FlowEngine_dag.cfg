SPECIFICATION Spec
CONSTANTS
  e1 = e1
  e2 = e2
  Engines <- TwoEngines
  Steps <- RowIds
  DependsOn <- RowDeps
  Kids <- MapKids
  Gated = {"z"}
  Compensable = {"a", "m"}
  Cached = {}
  Retries <- FirstRetries
  Served = {"z"}
  Runs = {1, 2, 3, 4, 5, 6, 7}
  MAX_ATTEMPTS = 1
  MaxCrashes = 1
  MaxLapses = 0
  MaxFaults = 1
INVARIANTS
  TypeOK
  DriverExclusive
  DependenciesFirst
  JoinComplete
  SuccessComplete
  
  
  
  EngineBudget

  
SYMMETRY EngineSymmetry
CHECK_DEADLOCK FALSE
