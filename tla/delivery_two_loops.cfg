CONSTANTS
  p1 = p1
  p2 = p2
  r1 = r1
  r2 = r2
  w1 = w1
  w2 = w2
  e1 = e1
  e2 = e2
  NoOne = NoOne
  Procs = {p1, p2}
  Runners = {r1, r2}
  Home <- OnePerProcess
  Webhooks = {w1}
  Events = {e1}
  Subscribed <- AllSubscribed
  CallAttempts = 1
  MaxAttempts = 3
  Batch = 2
  MaxCrashes = 1
  MaxFaults = 1
  MaxAppends = 2
CHECK_DEADLOCK FALSE
SPECIFICATION FairSpec
INVARIANT OkMeansAcknowledged
PROPERTY FailedRowsSettle
