SPECIFICATION Spec
CONSTANTS
  o1 = o1
  h1 = h1
  h2 = h2
  r1 = r1
  w1 = w1
  Incident = {h1, h2, r1}
  Requested = {r1}
  Manual = {h2}
  Rbd = {r1}
  Worker = {w1}
  Operator = {o1}
  MaxVerify = 2
  MaxApprovals = 2
  MaxRestarts = 2
INVARIANTS TypeOK InterruptedIsFound OneRunPerApproval
PROPERTIES ApprovalKept
CONSTRAINT OneTwice
