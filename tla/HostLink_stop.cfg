SPECIFICATION Spec
CONSTANTS
    MaxDials = 2
    MaxQueries = 2
    InFlight = 1
    MaxAttempts = 1
    LoadFails = TRUE
    FirstDrops = TRUE
INVARIANT ClosedForGood
PROPERTIES LinkLive FinalStatusKept
CHECK_DEADLOCK FALSE
