SPECIFICATION Spec
CONSTANTS
  Cmds = {c1}
  Credentialed = {}
  MaxCrashes = 1
  MaxFaults = 0
CHECK_DEADLOCK FALSE
INVARIANT FencePrecedesPoll
