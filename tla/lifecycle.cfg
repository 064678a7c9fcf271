\* Two connectors and three workers, one of them inactive and one with plain
\* functions for handlers; two SIGTERMs.
SPECIFICATION FairSpec
CONSTANTS
  k1 = k1
  k2 = k2
  a = a
  b = b
  x = x
  g = g
  h = h
  main = main
  t1 = t1
  t2 = t2
  Connectors = {k1, k2}
  Workers = {a, b, x}
  Groups <- MCGroups
  Include = {g}
  Exclude = {}
  All = FALSE
  Default = TRUE
  Sync = {b}
  Failing = {k2, a, b}
  Main = main
  Terms = {t1, t2}
  ConnectTimeout = TRUE
  SentStart = TRUE
INVARIANTS TypeOK StartedServed ExitLeavesNothing
PROPERTIES TermEnds
CHECK_DEADLOCK FALSE
