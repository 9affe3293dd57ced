SPECIFICATION Spec
CONSTANTS
  Sessions = {"s1", "s2"}
  Preloaded = {"s1"}
  Beat = 2
  Budget = 3
  Barrier = 2
  Margin = 1
  LongTTL = 2
  ShortTTL = 1
  MaxPasses = 1
  MaxTime = 3
  MaxReqs = 2
  MaxReads = 1
  MaxRuns = 2
  MaxMishaps = 1
INVARIANTS PauseWithinBudget PauseReleased LiveHoldsAcked
PROPERTIES CutIsClean
CHECK_DEADLOCK FALSE
