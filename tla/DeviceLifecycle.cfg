SPECIFICATION Spec
CONSTANTS
  Mains = {m1, m2}
  MaxStarts = 2
  MaxSends = 2
  MaxAtOnce = 2
CHECK_DEADLOCK FALSE
INVARIANTS StoppedMeansReleased
PROPERTIES StopEndsEveryThread
