\* A request that nothing rejects, its body in two pieces.
SPECIFICATION Spec
CONSTANTS
  Last = 1
  Pieces = 2
  Keep = {}
  Bad = {}
  Asks = {}
  Streamed = {}
  Pending = Pending
  Lost = Lost
INVARIANT OnlyBadFails
CHECK_DEADLOCK FALSE
