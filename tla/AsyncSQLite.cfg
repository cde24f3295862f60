SPECIFICATION Spec
CONSTANTS
  Tasks = {t1, t2}
  Devices = {d1}
  DeviceTimeout = 0
  MaxTime = 1
  MaxCalls = 2
  MaxFaults = 1
  MaxCancels = 1
CHECK_DEADLOCK FALSE
INVARIANTS RegisteredOnce ConcurrencySafe OnlineCallsTrue
PROPERTIES OfflineListExact EveryCallEnds
