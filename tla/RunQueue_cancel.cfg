SPECIFICATION Spec
CONSTANTS
  s1 = s1
  s2 = s2
  e1 = e1
  e2 = e2
  d1 = d1
  d2 = d2
  none = none
  Runs = {1}
  Slots <- OneSlot
  Executors <- OneExec
  NoSlot = none
  ExecutorOf <- OneSlotOf
  DockerOf <- OneDocker
  Serves <- AllCaps
  Declared = {}
  MAX_ATTEMPTS = 3
  MaxCrashes = 0
  MaxLapses = 0
  MaxDbFaults = 0
  MaxSweepFaults = 0
  Retention = FALSE
PROPERTIES
  CancelAuthoritative
CHECK_DEADLOCK FALSE
