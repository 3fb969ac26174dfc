CONSTANTS
  a = a
  b = b
  c = c
  cron = cron
  catchup = catchup
  Runs = {cron, catchup}
  Mints = {a}
  Creators = {c}
  CreatorOf <- MCCreatorOf
  TenDays = 2
  SevenDays = 1
  OneDay = 1
  TwoDays = 2
  Rows <- MCTwoRows
  Stale = 2
  Window = 2
  Lookback = 2
  Keep = 2
  HistoryLimit = 1
  Budget <- MCBudget
  MaxNow = 2
SPECIFICATION Spec
INVARIANTS EventsSpaced
