SPECIFICATION Spec
CONSTANTS
  MaxOutages = 1
  MaxBuildFailures = 0
  NoPipeline = NoPipeline
INVARIANT ReconnectShowsLoading
CHECK_DEADLOCK FALSE
