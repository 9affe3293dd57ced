SPECIFICATION Spec
CONSTANTS
  Shells = {"sh1"}
  Consoles = {"c1", "c2", "c3"}
  Verbs = {"enable", "disable", "rotate", "update"}
  MaxRetries = 2
  Grace = 0
  Stale = 1
  Period = 1
  MaxEvents = 3
  MaxBoots = 1
  Readers = {r1}
  MaxChanges = 4
  MaxReads = 2
  MaxTokens = 2
  MaxAsks = 1
  MaxTroubles = 2
INVARIANTS TabSafe
PROPERTIES SupervisorJust FollowsCoordinates TabSettles
CHECK_DEADLOCK FALSE
