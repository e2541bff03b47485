SPECIFICATION FairSpec
CONSTANTS
  i1 = i1
  w1 = w1
  d1 = d1
  NoWorker = NoWorker
  Incident = {i1}
  Worker = {w1}
  Dispatcher = {d1}
  MAX_ATTEMPTS = 2
  MaxRetries = 1
  MaxVerify = 1
  MaxCopies = 1
  MaxCrashes = 1
PROPERTIES NewIncidentDiagnosed SentEventuallySettled
CHECK_DEADLOCK FALSE
