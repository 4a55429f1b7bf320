CONSTANTS
  s1 = s1
  s2 = s2
  i1 = i1
  i2 = i2
  h1 = h1
  h2 = h2
  h3 = h3
  c1 = c1
  c2 = c2
  c3 = c3
  b1 = b1
  b2 = b2
  b3 = b3
  Sessions = {s1, s2}
  RunIds = {i1, i2}
  Handlers = {h1, h2, h3}
  ActiveTtl = 2
  RunIdTtl = 3
  MaxKeys = 1
  Callers = {c1, c2, c3}
  Threshold = 2
  RecoveryTimeout = 2
  Buckets = {b1, b2, b3}
  MaxRequests = 2
  Window = 2
  SweepInterval = 3
SPECIFICATION FairSpec
INVARIANTS OneRunPerSession IdOpenOnce QuotaHolds
PROPERTIES SessionComesFree EarlyCloseIsStale OpenEnds SweepIsComplete
