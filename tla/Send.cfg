SPECIFICATION Spec
CONSTANTS
  hb = hb
  r1 = r1
  r2 = r2
  Threads = {hb, r1, r2}
  Endpoint <- Paths
  Pipeline <- RetryThenCache
  MaxRetries = 1
  MaxEntries = 1
  Truncation = TRUE
  MaxSends <- Sends
  MaxTries = 3
CONSTRAINT OnePairSends
CHECK_DEADLOCK FALSE
INVARIANTS AckedIsStored CopiesBounded RetryBudget FailedIsCached
 
