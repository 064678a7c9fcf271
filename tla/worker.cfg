\* A worker with an input, an output and every kind of sleep; two controllers
\* that start and stop it in any way.
SPECIFICATION FairSpec
CONSTANTS
  w1 = w1
  w2 = w2
  c1 = c1
  c2 = c2
  c3 = c3
  i1 = i1
  i2 = i2
  None = None
  Workers = {w1}
  Controllers = {c1, c2}
  Items = {i1, i2}
  Inputs = {w1}
  Outputs = {w1}
  Sleeps = {w1}
  SleepStarts = {w1}
  Crons = {w1}
  Persists = {w1}
  Forced = {TRUE, FALSE}
  MaxRuns = 3
INVARIANTS TypeOK OneRunner SleepFlagTrue
PROPERTIES LostOnlyByForce StopCompletes
