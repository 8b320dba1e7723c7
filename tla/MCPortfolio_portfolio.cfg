SPECIFICATION FairSpec
CONSTANTS
  Prices = {1}
  MaxTime = 4
  Skew = 2
  Window = 3
  Stamps = {"feed"}
  MaxMoves = 1
  Faults = {"page", "shift", "crash", "foreign"}
CHECK_DEADLOCK FALSE
INVARIANTS
  ExecutedBookedRight
PROPERTIES
  SettlesDown
  SaleIsBooked
