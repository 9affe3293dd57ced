SPECIFICATION FairSpec
CONSTANTS
  Tabs = {"t1", "t2"}
  FreeAttempts = 0
  MaxConcurrent = 2
  Reserved = 1
  QueueLimit = 1
  SessionCap = 1
  UserCap = 1
  MaxEvents = 4
INVARIANTS RevokedRefused LockoutIsCurrent
PROPERTIES RevokedStreamsClose
CHECK_DEADLOCK FALSE
