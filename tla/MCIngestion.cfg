CONSTANTS
  a = a
  b = b
  Mints = {a, b}
  cron = cron
  cli = cli
  Runs = {cron, cli}
  Free = Free
  Never = Never
  Stale = 2
  Budget <- MCBudget
  MaxNow = 2
  Listings <- MCListings
SPECIFICATION FairSpec
INVARIANTS TypeOK SnapshotsSpaced NothingReadIsOutdated LocksAreOwned WaitsEnd
PROPERTIES ImplementsTable EveryTransactionEnds
