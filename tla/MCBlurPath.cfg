SPECIFICATION Spec
CONSTANTS
  HistoryWindow = 2
  MaximumHistory = 2
  MatchTolerance = 1
  HoldLast = 2
  SyncOffset = 1
  Channels = {0, 1}
  Camera = 0
  Published <- MCPublished
  Taken = {1, 2, 3, 4}
  DropThreshold = 1
  Delays = {2}
  Bases = {0, 1}
  MaxAccepted <- MCMaxAccepted
  MaxRefusals = 1
  MaxSessions = 3
INVARIANTS TypeOK NoLostWakeup PicturesMatch
CHECK_DEADLOCK FALSE
PROPERTY ImplementsChannel
