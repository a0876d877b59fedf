SPECIFICATION Spec
CONSTANTS
  s1 = s1
  s2 = s2
  e1 = e1
  e2 = e2
  d1 = d1
  d2 = d2
  none = none
  Runs = {1, 2}
  Slots <- TwoSlots
  Executors <- TwoExecs
  NoSlot = none
  ExecutorOf <- SplitSlots
  DockerOf <- TwoDockers
  Serves <- SplitCaps
  Declared = {2}
  MAX_ATTEMPTS = 2
  MaxCrashes = 1
  MaxLapses = 0
  MaxDbFaults = 0
  MaxSweepFaults = 0
  Retention = TRUE
INVARIANTS
  TypeOK
  ClaimExclusive
  ActiveTracksJob
  DeclaredTimeoutFinal
  NoLostRetry
PROPERTIES
  RetriesBounded
  Lifecycle
CHECK_DEADLOCK FALSE
