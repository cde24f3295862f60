SPECIFICATION Spec
CONSTANTS
  Mains = {m1}
  Handlers = {h1, h2}
  MaxStarts = 2
  MaxRequests = 2
  MaxMarks = 2
  MaxAtOnce = 2
CHECK_DEADLOCK FALSE
INVARIANTS StoppedMeansReleased OneTimeoutTask TablesExist
PROPERTIES WaitClosedReturns
