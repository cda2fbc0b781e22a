\* Two slots, three rows (one quarantined, one refused), two jobs, two faults,
\* one reclaim per job.
SPECIFICATION Spec
CONSTANTS
  Slots = {w1, w2}
  Rows = {r1, r2, r3}
  LowRows = {r1}
  BadRows = {r3}
  MaxJobs = 2
  MaxAttempts = 1
  MaxFaults = 2
  MaxReclaims = 1
SYMMETRY SlotSymmetry
INVARIANTS
  NoJobVanishes
  BoundedRetries
  AckedIsWritten
  DuplicatesExplained
CHECK_DEADLOCK FALSE
