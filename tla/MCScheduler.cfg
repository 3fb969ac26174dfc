CONSTANTS
  Delays <- MCDelays
  Period = 6
  CatchupAfter = 1
  Grace <- MCGrace
  DayAge = 6
  MaxAge = 9
  StopGrace = 2
  MaxRun = 1
  Lag = 1
  MayFail = 2
  MaxNow = 40
  Never = Never
SPECIFICATION Spec
INVARIANTS TypeOK DailyReportKept CatchupServes StopSparesFirstAttempts
