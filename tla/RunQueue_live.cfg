SPECIFICATION FairSpec
CONSTANTS
  s1 = s1
  s2 = s2
  e1 = e1
  e2 = e2
  d1 = d1
  d2 = d2
  none = none
  Runs = {1, 2}
  Slots <- OneSlot
  Executors <- OneExec
  NoSlot = none
  ExecutorOf <- OneSlotOf
  DockerOf <- OneDocker
  Serves <- FirstOnly
  Declared = {}
  MAX_ATTEMPTS = 2
  MaxCrashes = 1
  MaxLapses = 1
  MaxDbFaults = 1
  MaxSweepFaults = 1
  Retention = FALSE

  
PROPERTIES
  EveryRunSettles
CHECK_DEADLOCK FALSE
