\* A timer runs a tick early.
SPECIFICATION Spec
CONSTANTS
  p1 = p1
  p2 = p2
  p3 = p3
  g1 = g1
  g2 = g2
  g3 = g3
  v1 = v1
  v2 = v2
  None = None
  Puts = {p1, p2, p3}
  Gets = {g1, g2}
  TimedGets = {}
  CancelGets = {}
  CancelPuts = {}
  Values = {v1}
  MaxTime = 2
  MaxSize = 0
  Slack = 1
  Unique = FALSE
INVARIANT NoLostWakeup
