CONSTANTS
  t1 = t1
  t2 = t2
  Tables = {t1, t2}
  Turns <- MCTurns
  HandOf <- MCHandOf
  Shown <- MCShown
  Situations <- MCSituations
  FoldsCase = FALSE
  HasToken = TRUE
  Understood = {"table", "hand"}
  Malformed = {t2}
  Attempts = 2
  MaxLate = 1
SPECIFICATION FairSpec
INVARIANTS TypeOK PendingAreSubmitted DoubleMovesNeedDoubt OnlyListedActions
PROPERTIES NeverResubmitted StopIsHeeded
CHECK_DEADLOCK FALSE
