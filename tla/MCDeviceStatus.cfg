SPECIFICATION Spec
CONSTANTS
  Channels = {1, 2}
  Outputs <- MCOutputs
  Reports <- MCReports
  MaximumRecentReportKeys = 1
  MaxReports = 3
  MaxSessions = 2
  MaxStarts = 2
  MaxQueued = 3
  NoStatus = NoStatus
INVARIANTS TypeOK ValidInThisSession HandledOnce
PROPERTY Converges
CHECK_DEADLOCK FALSE
