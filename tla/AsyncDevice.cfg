SPECIFICATION Spec
CONSTANTS
  Mains = {m1, m2}
  MaxRetries = 1
  MaxStarts = 2
  MaxBeats = 1
  MaxReports = 1
  MaxCancels = 1
CHECK_DEADLOCK FALSE
INVARIANTS ClosedMeansReleased NoSessionOrphaned OneHeartbeatTask RetryCountExact
PROPERTIES WaitClosedReturns
