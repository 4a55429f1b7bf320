CONSTANTS
  i1 = i1
  Items = {i1}
  kept = kept
  late = late
  Initial = {kept}
  Late = {late}
  Removable = {late}
  Concurrency = 1
  Target = 1
  Variants = 1
  FinalizeAttempts = 2
  MaxSearches = 2
  MaxMishaps = 0
CHECK_DEADLOCK FALSE
SPECIFICATION Spec
INVARIANTS IdleIsFullySettled
