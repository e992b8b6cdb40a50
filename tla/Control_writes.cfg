SPECIFICATION FairSpec
CONSTANTS
  w1 = w1
  w2 = w2
  a1 = a1
  a2 = a2
  v0 = v0
  v1 = v1
  v2 = v2
  None = None
  Writers = {w1, w2}
  LaunchWriters = {}
  Appliers = {a1, a2}
  Values = {v0, v1, v2}
  Initial = v0
  Valid = {v0, v1}
  Final = FALSE
  MaxRev = 3
INVARIANTS AppliedUnlessReported CommitMeansLive GaugeFollows
PROPERTIES RevsIncrease SetReturns
CHECK_DEADLOCK FALSE
