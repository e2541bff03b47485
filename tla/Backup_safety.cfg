SPECIFICATION Spec
CONSTANTS
  w1 = w1
  w2 = w2
  Requests = 4
  Sweep = {4}
  Worker = {w1}
  Slots = 2
  KeepFull = 1
  KeepIncremental = 1
  Refresh = TRUE
  MaxOpen = 1
  MaxFaults = 1
INVARIANTS TypeOK BaseSnapshotKept SnapshotsAccounted ObjectsAccounted BasesStored
CHECK_DEADLOCK FALSE
