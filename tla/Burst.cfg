SPECIFICATION BurstSpec
CONSTANTS
  Slots = {w1, w2}
  Rows = {r1, r2}
  LowRows = {r1}
  BadRows = {}
  MaxJobs = 2
  MaxAttempts = 1
  MaxFaults = 1
  MaxReclaims = 1
  SweepBatch = 2
  StallPolls = 2
  Threshold = 1
INVARIANTS
  PassedMeansCovered
  DrainedMeansWrittenBack
  SweepReachesEveryRow
PROPERTIES
  GateSpec
  BarrierHeals
CHECK_DEADLOCK FALSE
