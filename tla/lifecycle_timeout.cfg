\* connect_timeout is set and nothing raises.
SPECIFICATION Spec
CONSTANTS
  k1 = k1
  k2 = k2
  a = a
  b = b
  x = x
  g = g
  h = h
  main = main
  t1 = t1
  t2 = t2
  Connectors = {k1, k2}
  Workers = {a, b, x}
  Groups <- MCGroups
  Include = {g}
  Exclude = {}
  All = FALSE
  Default = TRUE
  Sync = {b}
  Failing = {}
  Main = main
  Terms = {}
  ConnectTimeout = TRUE
  SentStart = TRUE
INVARIANT StartedConnected
CHECK_DEADLOCK FALSE
