SPECIFICATION StreamSpec
CONSTANTS
  MaxEvents = 5
  Page = 2
  MaxPages = 3
  BufferCap = 1
  SeenCap = 2
  Lag = 2
  Stored = {1}
  Faults = {"socket", "page", "handler", "save", "crash"}
  MaxFaults = 3
  None = None
CHECK_DEADLOCK FALSE
INVARIANTS
  CursorBehindTape
  KeptIsWhole
PROPERTIES
  AppliedInOrder
  EveryEventSettles
