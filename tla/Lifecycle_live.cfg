SPECIFICATION FairSpec
CONSTANTS
  h1 = h1
  o1 = o1
  w1 = w1
  w2 = w2
  Incident = {h1}
  Requested = {}
  Manual = {}
  Rbd = {}
  Worker = {w1, w2}
  Operator = {o1}
  MaxVerify = 2
  MaxApprovals = 2
  MaxRestarts = 2
INVARIANTS DiagnosisConcludes
PROPERTIES ZombieEventuallyCancelled RecoveryIsClosed
