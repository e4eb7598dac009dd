SPECIFICATION DisplaySpec
CONSTANTS
  Ids = {"a", "b", "c"}
  NoOne = NoOne
  SyncOffset = 1
  Retention = 1
  Rollback = 2
  SourceRestartGap = 4
  WarningRepeat = 2
  DangerRepeat = 3
  MaxHistory = 2
  Channels = {1, 2}
  CentralKeys = {"k"}
  ChannelOf <- MCChannelOf
  Contents <- MCContents
  Delays = {0, 3}
  PublishGap = 2
  FrameExpiry = 4
  ExpiryPoll = 2
  WarningLife = 3
  DangerLife = 4
  MaxPulses = 2
  MaxRows = 3
  MaxNow = 6
  MaxFrames = 3
  MaxCentral = 1
INVARIANTS DangerPulses BordersCatchUp DangerIsLogged
CHECK_DEADLOCK FALSE
