SPECIFICATION Spec
CONSTANTS
  w1 = w1
  w2 = w2
  Requests = 3
  Sweep = {}
  Worker = {w1}
  Slots = 1
  KeepFull = 1
  KeepIncremental = 1
  Refresh = FALSE
  MaxOpen = 3
  MaxFaults = 0
INVARIANTS RecoveryPointsRestorable
CHECK_DEADLOCK FALSE
