SPECIFICATION Spec
CONSTANTS
  CentralKeys = {k1}
  MaxTimestamp = 1
  MaxFrames = 1
  MaxCentral = 0
  MaxQueued = 3
INVARIANT LogIsLive
CHECK_DEADLOCK FALSE
