SPECIFICATION FairSpec
CONSTANTS
  p = p
  a = a
  Lanes = {p, a}
  Parent = p
  Tunnel = {a}
  Twins = {}
  MaxRecords = 1
  MaxResends = 0
  MaxBlanks = 1
  MaxFaults = 1
  MaxCrashes = 0
  MaxReindex = 0
  MayDelete = TRUE
  MayOutgrow = {p, a}
  JudgeBound = 0
  RepairBound = 0
PROPERTIES ArchiveSpec Converges
CHECK_DEADLOCK FALSE
