\* One new year and one historical year, two quarters, two slots, two jobs.
SPECIFICATION Spec
CONSTANTS
  Years = {y1, y2}
  Legacy = {y2}
  y1 = y1
  y2 = y2
  Files <- NewAndLegacy
  MaxQuarter = 2
  Slots = {s1, s2}
  Attempts = 2
  MaxStalls = 1
  MaxJobs = 2
  HarvestFaults = 1
  IngestFaults = 1
  MaxReclaims = 1
  PollWhileBusy = FALSE
INVARIANTS
  YearIsExact
  QuartersAdvance
PROPERTIES
  HistoryKept
  ListedIsIngested
CHECK_DEADLOCK FALSE
