SPECIFICATION Spec
CONSTANTS
  Calls = {c1, c2}
  SelfTest = c1
  RebuildAfter = 2
  ExhaustAfter = 2
  StallAfter = 2
  MaxGenerations = 4
  Sessions = {s1}
  MaxCommits = 2
  MaxPauses = 2
  MaxDrops = 1
  MaxDeaths = 1
  MaxMigrations = 2
  Rows = {r1, r2}
  Probe = r1
  RunBudget = 2
  ExtraWaits = 0
  MaxAudits = 1
  MaxToggles = 2
  MaxErrors = 1
  MaxBoots = 3
  MaxPgFaults = 2
  MaxRuns = 6
  MaxTurns = 2
  MaxPerPass = 2
  DeadAfter = 2
  DailyBudget = 2
  MaxTroubles = 2
  Knobs <- SetKnobs
INVARIANTS AuditHonest BootSafe EmbedSafe PoolsBounded
PROPERTIES Heals  UpkeepProgress
CHECK_DEADLOCK FALSE
