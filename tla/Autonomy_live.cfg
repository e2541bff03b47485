SPECIFICATION FairSpec
CONSTANTS
  a1 = a1
  w1 = w1
  NoAction = NoAction
  Action = {a1}
  Worker = {w1}
  Unlimited = {a1}
  Idempotent = {a1}
  Grace = TRUE
  MaxHour = 1
  MaxVerify = 1
  MaxCopies = 1
  MaxCrashes = 1
PROPERTIES ExecutionConcluded GraceConcluded
CHECK_DEADLOCK FALSE
