SPECIFICATION Spec
CONSTANTS
  Boxes = {1, 2}
  Commands = {c1}
  Files <- MCFiles
  Seeds <- MCSeeds
  Edits = {e1}
  Watchdog = 1
  DrainMax = 1
  Again = FALSE
  MaxUp = 1
  MaxFailures = 1
INVARIANTS
  ArchivedIsKept
  PromotedIsKept
PROPERTIES
  SnapshotGrows
  ProdGrows
  BoxEnds
CHECK_DEADLOCK FALSE
