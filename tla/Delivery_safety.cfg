SPECIFICATION Spec
CONSTANTS
  i1 = i1
  w1 = w1
  d1 = d1
  d2 = d2
  NoWorker = NoWorker
  Incident = {i1}
  Worker = {w1}
  Dispatcher = {d1,d2}
  MAX_ATTEMPTS = 1
  MaxRetries = 2
  MaxVerify = 2
  MaxCopies = 1
  MaxCrashes = 1
SYMMETRY Processes
INVARIANTS TypeOK NoSilentLoss
PROPERTIES SettledIsFinal OutboxKept
CHECK_DEADLOCK FALSE
CONSTRAINT OneDifficultyAtATime
