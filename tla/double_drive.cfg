CONSTANTS
  s1 = s1
  s2 = s2
  w1 = w1
  r1 = r1
  r2 = r2
  t1 = t1
  k1 = k1
  k2 = k2
  u1 = u1
  x1 = x1
  x2 = x2
  None = None
  Sessions = {s1}
  Websets = {w1}
  Requests = {r1, r2}
  Tick = t1
  Slots = {k1, k2}
  Urls = {u1}
  Turns = {x1, x2}
  SeenRuns = 2
  MaxVersion = 2
SPECIFICATION FairSpec
INVARIANT OneDriver
CHECK_DEADLOCK FALSE
