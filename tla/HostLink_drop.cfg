SPECIFICATION Spec
CONSTANTS
    MaxDials = 2
    MaxQueries = 0
    InFlight = 1
    MaxAttempts = 0
    LoadFails = FALSE
    FirstDrops = TRUE
PROPERTY OpenSettlesOnClose
CHECK_DEADLOCK FALSE
