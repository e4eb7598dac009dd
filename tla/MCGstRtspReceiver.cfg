SPECIFICATION Spec
CONSTANTS
  MaxOutages = 2
  MaxBuildFailures = 1
  NoPipeline = NoPipeline
INVARIANT TypeOK
INVARIANT Supervised
INVARIANT ReadyMeansPlaying
PROPERTY BackoffKept
PROPERTY Recovers
CHECK_DEADLOCK FALSE
