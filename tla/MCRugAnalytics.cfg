CONSTANTS
  a = a
  b = b
  c = c
  cron = cron
  catchup = catchup
  Runs = {cron}
  Mints = {a, b}
  Creators = {c}
  CreatorOf <- MCCreatorOf
  TenDays = 2
  SevenDays = 1
  OneDay = 1
  TwoDays = 2
  Rows <- MCRows
  Stale = 2
  Window = 2
  Lookback = 2
  Keep = 2
  HistoryLimit = 1
  Budget <- MCBudget
  MaxNow = 3
SYMMETRY MCSymmetry
SPECIFICATION Spec
INVARIANTS TypeOK EventsSpaced WalletsCountRugs
PROPERTIES FlagsAreLabelled SignalsAreRecorded SuspicionIsPermanent
