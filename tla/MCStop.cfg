CONSTANTS
  Delays <- MCDelays
  Period = 10
  CatchupAfter = 1
  Grace <- MCGrace
  DayAge = 10
  MaxAge = 15
  StopGrace = 2
  MaxRun = 1
  Lag = 1
  MayFail = 2
  MaxNow = 12
  Never = Never
SPECIFICATION Spec
INVARIANTS StopSparesAttempts
