SPECIFICATION MCSpec
CONSTANTS
  Interfaces = {e1, e2}
  Sessions <- TwoCollectors
  MaxRuns = 2
  RunBound = 2
CHECK_DEADLOCK FALSE
INVARIANTS
  Types
  ErrChanRoom
  ClosedBeforeReturn
  RunsInOrder
PROPERTIES
  RunEnds
  SignalsAnswered
