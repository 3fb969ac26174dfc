CONSTANTS
  a = a
  cron = cron
  catchup = catchup
  Runs = {cron}
  Mints = {a}
  DayLen = 2
  Stale = 2
  SnapKeep = 4
  ReportKeep = 1
  Top = 0
  Budget <- MCBudget
  MaxNow = 5
SPECIFICATION FairSpec
INVARIANTS TypeOK PatternsCoverReport
PROPERTIES ImplementsBook ReportsOnlyGrow JobEnds
