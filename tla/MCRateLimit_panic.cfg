SPECIFICATION Spec
CONSTANTS
  Collectors = {c1}
  Keys = {k1}
  WitnessesPerEpoch = 2
  Epoch = 3
  MaxDuration = 4
  LastTime = 7
SYMMETRY Symmetry
CHECK_DEADLOCK FALSE
INVARIANT
  NoPanic
