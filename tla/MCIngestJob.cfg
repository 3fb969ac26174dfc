CONSTANTS
  a = a
  b = b
  x = x
  Coins = {a, b, x}
  Mints = {a, b}
  Nameless = {x}
  PageSize = 2
  MaxPages = 2
  Feeds <- MCFeeds
  Stale = 2
  Gap = 2
  Window = 3
  Lags = {0, 1}
  TopNs = {1, 2}
  Concurrency = 1
  Quotes <- MCQuotes
  Replies <- MCReplies
  Failed = Failed
  Unreadable = Unreadable
  Null = Null
  Unsent = Unsent
  Sent = Sent
  Delays = {1, 3}
  MaxNow = 4
  MovesUntil = 1
SPECIFICATION Spec
INVARIANTS TypeOK OnlyMoversAreMissed VolumesAreDistances ShownWereCurrent
PROPERTIES OldRowsKeep JobEnds
