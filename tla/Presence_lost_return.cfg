SPECIFICATION Spec
CONSTANTS
  Devices = {d1, d2}
  Handlers = {h1, h2}
  Backends = {"memory"}
  DeviceTimeout = 1
  OneAtATime = TRUE
  MaxTime = 4
  MaxHeartbeats = 3
  MaxFaults = 0
  MaxCrashes = 0
INVARIANTS ReturnAnnounced
