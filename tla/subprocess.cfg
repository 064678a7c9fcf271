\* The runner and a user task, two starts and a stop, with and without a daemon.
SPECIFICATION FairSpec
CONSTANTS
  r = r
  u = u
  k1 = k1
  k2 = k2
  s1 = s1
  p1 = p1
  p2 = p2
  None = None
  Jobs = {r, u}
  Runner = r
  Keepers = {k1, k2}
  Stops = {s1}
  Procs = {p1, p2}
  Settings <- MCSettings
INVARIANTS DaemonStaysDown
PROPERTIES StopEndsKnown StopReturns
CHECK_DEADLOCK FALSE
