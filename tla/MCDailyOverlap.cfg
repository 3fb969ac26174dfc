CONSTANTS
  a = a
  cron = cron
  catchup = catchup
  Runs = {cron, catchup}
  Mints = {a}
  DayLen = 1
  Stale = 2
  SnapKeep = 3
  ReportKeep = 0
  Top = 1
  Budget <- MCBudget
  MaxNow = 1
SYMMETRY Alike
SPECIFICATION Spec
INVARIANTS ListedAreReported LoneRunAgrees ReportsAreTrue
