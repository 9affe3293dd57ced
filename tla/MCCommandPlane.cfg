SPECIFICATION MCSpec
CONSTANTS
  Cmds = {c1, c2}
  Credentialed = {c2}
  PlainRow = c1
  MaxCrashes = 2
  MaxFaults = 2
CHECK_DEADLOCK FALSE
INVARIANTS TypeOK RunningIsRecognizable OneRunPerBoot CredentialedRunsOnce NoHonestDispute
PROPERTIES LifecycleSpec FenceSealsPreboot EveryRequestSettles
