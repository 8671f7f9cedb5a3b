SPECIFICATION FairSpec
CONSTANTS
  SegLens = {1, 2}
  ReadSizes = {1, 3}
  Wnd = 4
  MaxBytes = 7
INVARIANTS
  ChainOK
  WindowAccounting
  StreamOrder
PROPERTIES
  WindowReopens
CHECK_DEADLOCK FALSE
