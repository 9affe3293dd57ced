SPECIFICATION Spec
CONSTANTS
  p = p
  a = a
  Lanes = {p}
  Parent = p
  Tunnel = {}
  Twins = {2}
  MaxRecords = 2
  MaxResends = 1
  MaxBlanks = 0
  MaxFaults = 1
  MaxCrashes = 1
  MaxReindex = 1
  MayDelete = FALSE
  MayOutgrow = {}
  JudgeBound = 0
  RepairBound = 0
INVARIANTS IndexSound
CHECK_DEADLOCK FALSE
