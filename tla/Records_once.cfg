SPECIFICATION Spec
CONSTANTS
  Clis = {}
  RotateAt = 2
  Cap = 2
  MaxAppends = 3
  MaxFiles = 4
  MaxFaults = 0
  MaxShort = 1
  MaxCrashes = 1
  MaxTrouble = 2
  Keys = {"k1", "k2", "k3"}
  Ceiling = 2
  MaxAttempts = 3
  MaxFlushes = 3
  MaxRefusals = 1
  Browsers = {b1, b2}
  MaxGrants = 1
  MaxKeys = 2
  MaxClock = 3
  MaxPushes = 2
  MaxCommitted = 3
  Attempts = 4
  CompactAt = 2
  MaxLost = 1
  Shells = {"sh1", "sh2"}
  Consoles = {"c1", "c2", "c3"}
  Verbs = {"enable", "disable", "rotate", "update"}
  MaxRetries = 2
  Grace = 0
  Stale = 1
  Period = 1
  MaxEvents = 3
  MaxBoots = 1
  Readers = {r1, r2}
  MaxChanges = 4
  MaxReads = 2
INVARIANTS ConsoleTrailSound WindowsSound EntrySound AppendSafe LocksHold ReadsJust
CHECK_DEADLOCK FALSE
