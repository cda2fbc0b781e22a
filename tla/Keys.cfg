SPECIFICATION ApiSpec
CONSTANTS
  None = None
  key = key
  Keys = {key}
  Limit <- MCLimit
  Window = 4
  Second = 2
  MaxTime = 8
  MaxRequests = 7
  MaxRestarts = 1
INVARIANTS
  InAnyDay
  RemainingIsDistinct
  ResetIsEnough
CHECK_DEADLOCK FALSE
