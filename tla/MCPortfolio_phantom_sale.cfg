SPECIFICATION Spec
CONSTANTS
  Prices = {1}
  MaxTime = 4
  Skew = 2
  Window = 3
  Stamps = {"feed"}
  MaxMoves = 1
  Faults = {}
CHECK_DEADLOCK FALSE
INVARIANT BookedWasOurs
