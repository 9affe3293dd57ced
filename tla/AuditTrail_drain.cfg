SPECIFICATION FairTrailSpec
CHECK_DEADLOCK FALSE
CONSTANTS
  Clis = {"c1","c2"}
  RotateAt = 2
  Cap = 1
  MaxAppends = 2
  MaxFiles = 5
  MaxFaults = 1
  MaxShort = 1
  MaxCrashes = 1
  MaxTrouble = 1
INVARIANTS TrailComplete
PROPERTIES EveryRecordDrained
