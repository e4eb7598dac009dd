SPECIFICATION Spec
CONSTANTS
  Layouts <- MCLayouts
  Targets = {"both", "face"}
  Default = "both"
  MaxWorkers = 3
  MaxCalls = 4
  NoLayout = NoLayout
INVARIANTS TypeOK NoneLeftRunning TargetsAgree OneChain
PROPERTY EveryCameraStarts
CHECK_DEADLOCK FALSE
