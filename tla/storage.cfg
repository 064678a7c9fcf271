\* Three calls of any kind, all of which may be cancelled, on a disk of four
\* units of which one is to stay free.
SPECIFICATION Spec
CONSTANTS
  c1 = c1
  c2 = c2
  c3 = c3
  k1 = k1
  k2 = k2
  a = a
  b = b
  None = None
  Empty = Empty
  Calls = {c1, c2, c3}
  Keys = {k1, k2}
  Values = {a, b}
  Size <- MCSize
  Limited = {k1}
  Capacity = 4
  Limit = 1
  Cancels = {c1, c2, c3}
  Faulty = {}
  Programs <- MCPrograms
  Replicas <- MCReplicas
  Store = k1
  Source = k2
  WithField <- MCWithField
  ExistsSet = FALSE
SYMMETRY CallSymmetry
INVARIANTS TypeOK RoomOffered LimitKept WholeValues ReplicasAgree
  WaitersReachable
PROPERTIES WritesBackRaced
CHECK_DEADLOCK FALSE
