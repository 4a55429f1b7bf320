CONSTANTS
  p1 = p1
  p2 = p2
  r1 = r1
  r2 = r2
  w1 = w1
  w2 = w2
  e1 = e1
  e2 = e2
  NoOne = NoOne
  Procs = {p1}
  Runners = {r1}
  Home <- AllInP1
  Webhooks = {w1, w2}
  Events = {e1}
  Subscribed <- AllSubscribed
  CallAttempts = 2
  MaxAttempts = 2
  Batch = 1
  MaxCrashes = 1
  MaxFaults = 1
  MaxAppends = 3
CHECK_DEADLOCK FALSE
SPECIFICATION Spec
PROPERTY RepeatOnlyAfterLoss
