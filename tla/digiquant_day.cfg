CONSTANTS
  k1 = k1
  k2 = k2
  w1 = w1
  w2 = w2
  e1 = e1
  e2 = e2
  p1 = p1
  p2 = p2
  Jobs = {k1, k2}
  Workers = {w1, w2}
  MaxMishaps = 2
  Messages = {e1, e2}
  Passes = {p1, p2}
  MaxNotifyFaults = 2
SPECIFICATION FairSpec
INVARIANTS GraphRunsOnce RunningIsHeld SentOnce SlotIsNotBurnt
PROPERTIES SettledStays ClaimedJobSettles
