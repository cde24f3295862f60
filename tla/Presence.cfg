SPECIFICATION Spec
CONSTANTS
  Devices = {d1, d2}
  Handlers = {h1, h2}
  Backends = {"memory", "sqlite", "async"}
  DeviceTimeout = 0
  OneAtATime = FALSE
  MaxTime = 2
  MaxHeartbeats = 3
  MaxFaults = 1
  MaxCrashes = 1
SYMMETRY Symmetry
INVARIANTS TypeOK OfflineMeansSilent RegisteredOnce CallbacksAccounted OneOfflinePerOutage ReturnsExactOnLoop
PROPERTIES LastHeartbeatMonotone PresenceImplemented
