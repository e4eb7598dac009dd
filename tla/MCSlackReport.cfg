SPECIFICATION Spec
CONSTANTS
  Channels = {1, 2}
  MaxReports = 4
  NoRequest = NoRequest
  NextReport = NextReport
  Nowhere = Nowhere
INVARIANTS TypeOK ButtonsMeanIdle FinishesTheHead PostsSomewhere
PROPERTY AnsweredOnce
CHECK_DEADLOCK FALSE
