SPECIFICATION Spec
CONSTANTS
  CentralKeys = {k1}
  MaxTimestamp = 2
  MaxFrames = 2
  MaxCentral = 2
  MaxQueued = 3
INVARIANTS TypeOK FramesAreWatched CentralDangerAlerts
PROPERTIES SilenceClears
CHECK_DEADLOCK FALSE
