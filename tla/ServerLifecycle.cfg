SPECIFICATION Spec
CONSTANTS
  Mains = {m1}
  Handlers = {h1}
  MaxStarts = 2
  MaxRequests = 1
  MaxAtOnce = 2
  MaxMarks = 1
CHECK_DEADLOCK FALSE
INVARIANTS TypeOK StoppedMeansReleased OneChecker AnsweredIsStored
PROPERTIES EveryStopReturns
