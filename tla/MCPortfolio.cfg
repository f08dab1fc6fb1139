SPECIFICATION FairSpec
CONSTANTS
  Workers = {w1, w2}
  N = 3
  Tasks = {1, 2, 3}
  NoTask = 0
  Ranking = {2, 3}
  Misconfigured = {3}
  InitMayThrow = {2}
  Interruptible = {1, 2, 3}
  SlowInit = {}
  HasLimit = TRUE
INVARIANTS WinnerIsStored ReportIsRight UnknownIsHonest NoLostCancel PortfolioInv
PROPERTIES FirstAnswerWins ImplementsPromise JoinReturnsUnlessAbandoned
CHECK_DEADLOCK FALSE
