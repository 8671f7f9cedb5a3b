SPECIFICATION FairSpec
CONSTANTS
  SegLens = {1, 2}
  ReadSizes = {1, 3}
  Wnd = 4
  MaxBytes = 7
PROPERTIES
  ChainsToUnreadData
CHECK_DEADLOCK FALSE
