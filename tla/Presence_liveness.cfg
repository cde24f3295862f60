SPECIFICATION Spec
CONSTANTS
  Devices = {d1, d2}
  Handlers = {h1, h2}
  Backends = {"memory", "sqlite", "async"}
  DeviceTimeout = 1
  OneAtATime = TRUE
  MaxTime = 2
  MaxHeartbeats = 2
  MaxFaults = 1
  MaxCrashes = 0
INVARIANTS OnlineOnlyAfterOffline
PROPERTIES SilentGoesOffline OfflineAnnounced
