SPECIFICATION Spec
CONSTANTS
  a1 = a1
  a2 = a2
  a3 = a3
  w1 = w1
  w2 = w2
  NoAction = NoAction
  Action = {a1, a2, a3}
  Worker = {w1, w2}
  Unlimited = {}
  Idempotent = {}
  Grace = FALSE
  MaxHour = 1
  MaxVerify = 1
  MaxCopies = 0
  MaxCrashes = 1
SYMMETRY Alike
INVARIANTS TypeOK OneInTime RunsOnce LimitOvershoot
CHECK_DEADLOCK FALSE
CONSTRAINT TwoInDifficulty
