CONSTANTS
  c1 = c1
  c2 = c2
  Callers = {c1, c2}
  MaxSearches = 3
  Variants = 2
  FinalizeAttempts = 2
  MaxCrashes = 1
  MaxFaults = 1
CHECK_DEADLOCK FALSE
SPECIFICATION Spec
SYMMETRY CallerSymmetry
INVARIANTS RunningHasTask FailedWebsetIsAnnounced IdleEventIsTrue
PROPERTIES IdleIsEarned
