SPECIFICATION FairSpec
CONSTANTS
  w1 = w1
  w2 = w2
  Requests = 1
  Sweep = {}
  Worker = {w1}
  Slots = 1
  KeepFull = 1
  KeepIncremental = 1
  Refresh = FALSE
  MaxOpen = 1
  MaxFaults = 0
PROPERTIES RequestIsExecuted
CHECK_DEADLOCK FALSE
