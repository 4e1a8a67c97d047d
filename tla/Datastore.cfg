CONSTANTS
  Stores = {w1}
  Routers = {r1}
  MaxKeys = 4
  RingLimit = 2
  MaxRuns = 3
  MaxGens = 2
  MaxDeaths = 1
  MayTimeOut = TRUE
  MetricRuns = TRUE
  Dead = Dead
  None = None
SPECIFICATION FairSpec
INVARIANTS FacadeSound KeysAccounted
PROPERTIES SnapshotSpec UpdateEnds RoutersSettle
CHECK_DEADLOCK FALSE
