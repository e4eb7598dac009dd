SPECIFICATION SpecWithEmpties
CONSTANTS
  HistoryWindow = 2
  MaximumHistory = 2
  MatchTolerance = 1
  HoldLast = 2
  SyncOffset = 1
  Channels = {0}
  Camera = 0
  Published <- MCPublished
  Taken = {1, 2, 3, 4}
  DropThreshold = 1
  Delays = {2}
  Bases = {0, 1}
  MaxAccepted <- MCMaxAccepted
  MaxRefusals = 0
  MaxSessions = 3
INVARIANT EmptyFrameEnds
CHECK_DEADLOCK FALSE
