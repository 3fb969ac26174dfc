CONSTANTS
  t1 = t1
  t2 = t2
  Tables = {t1, t2}
  Turns <- MCTurns
  HandOf <- MCHandOf
  Shown <- MCShown
  Situations <- MCSituations
  FoldsCase = TRUE
  HasToken = FALSE
  Understood = {"hand"}
  Malformed = {}
  Attempts = 2
  MaxLate = 1
SPECIFICATION Spec
INVARIANTS PendingAreSubmitted
CHECK_DEADLOCK FALSE
