CONSTANTS
  i1 = i1
  i2 = i2
  Items = {i1, i2}
  kept = kept
  late = late
  Initial = {kept}
  Late = {late}
  Removable = {late}
  Concurrency = 2
  Target = 2
  Variants = 1
  FinalizeAttempts = 2
  MaxSearches = 2
  MaxMishaps = 0
CHECK_DEADLOCK FALSE
SPECIFICATION Spec
SYMMETRY ItemSymmetry
INVARIANTS VerifiedIsAnnounced EnrichedIsTrue RestingIdleIsComplete
PROPERTIES FieldIsFinal
