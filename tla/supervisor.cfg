\* Two children with an input, one of which may crash, a persistent supervisor
\* that is started and stopped twice.
SPECIFICATION SvFairSpec
CONSTANTS
  w1 = w1
  w2 = w2
  i1 = i1
  i2 = i2
  None = None
  Workers = {w1, w2}
  Controllers = {w1, w2}
  Items = {i1}
  Inputs = {w1, w2}
  Outputs = {}
  Sleeps = {}
  SleepStarts = {}
  Crons = {}
  Persists = {}
  Crashing = {w1}
  Forced = {TRUE, FALSE}
  MaxRuns = 2
  SvPersist = TRUE
  MaxSvRuns = 2
INVARIANTS NoOrphan
PROPERTIES StopLeavesNobody AllDownRestarted SvStopCompletes
