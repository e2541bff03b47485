SPECIFICATION Spec
CONSTANTS
  a1 = a1
  w1 = w1
  NoAction = NoAction
  Action = {a1}
  Worker = {w1}
  Unlimited = {}
  Idempotent = {}
  Grace = TRUE
  MaxHour = 1
  MaxVerify = 0
  MaxCopies = 0
  MaxCrashes = 1
INVARIANTS GraceNotClosed
CHECK_DEADLOCK FALSE
