CONSTANTS
  c1 = c1
  c2 = c2
  Callers = {c1, c2}
  MaxSearches = 3
  Variants = 2
  FinalizeAttempts = 2
  MaxCrashes = 1
  MaxFaults = 0
CHECK_DEADLOCK FALSE
SPECIFICATION FairSpec
PROPERTIES WebsetSettles LoneSearchSettles IdleIsAnnouncedUnlessCrashed FailureIsAnnouncedUnlessCrashed
