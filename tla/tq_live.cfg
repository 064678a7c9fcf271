\* A fair event loop; one writer may be cancelled, one reader too
\* (timeouts are in tq_unique).
SPECIFICATION FairSpec
CONSTANTS
  p1 = p1
  p2 = p2
  p3 = p3
  g1 = g1
  g2 = g2
  g3 = g3
  v1 = v1
  v2 = v2
  None = None
  Puts = {p1, p2, p3}
  Gets = {g1, g2}
  TimedGets = {}
  CancelGets = {g1}
  CancelPuts = {p3}
  Values = {v1}
  MaxTime = 1
  MaxSize = 1
  Slack = 0
  Unique = FALSE
INVARIANTS NoEarlyDelivery Backpressure
PROPERTIES DueItemServed
