SPECIFICATION Spec
CONSTANTS
  Timestamps <- MCTimestamps
  Clock <- MCClock
  RestartGap = 1
  RollbackReset = 2
  MaxAccepted = 4
  MaxRefusals = 1
  NoFrame = NoFrame
INVARIANT TypeOK
INVARIANT NoLostWakeup
INVARIANT StopLeavesNothing
INVARIANT IInv
PROPERTY ShownNeverGoesBack
PROPERTY ImplementsChannel
