SPECIFICATION MCSpec
CONSTANTS
  Interfaces = {e1, e2}
  Sessions <- Unfiltered
  MaxRuns = 2
  RunBound = 2
CHECK_DEADLOCK FALSE
PROPERTY CapturesEnd
