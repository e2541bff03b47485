SPECIFICATION Spec
CONSTANTS
  h1 = h1
  o1 = o1
  w1 = w1
  Incident = {h1}
  Requested = {}
  Manual = {}
  Rbd = {}
  Worker = {w1}
  Operator = {o1}
  MaxVerify = 1
  MaxApprovals = 1
  MaxRestarts = 1
INVARIANTS NeverRerun
