SPECIFICATION Spec
CONSTANTS
  h1 = h1
  h2 = h2
  h3 = h3
  g1 = g1
  g2 = g2
  f1 = f1
  f2 = f2
  NoGate = NoGate
  Operator = Operator
  Host = {h1, h2, h3}
  Mon = {h1, h2}
  Osd = {h1}
  Flag = {f1, f2}
  Gate = {g1, g2}
SYMMETRY Alike
INVARIANTS TypeOK MidFlightHoldsLock LockExplained MonOutAccounted EarlierFlagsSurvive
PROPERTIES FailedPrepareUndone
CHECK_DEADLOCK FALSE
CONSTRAINT OneInDifficulty
