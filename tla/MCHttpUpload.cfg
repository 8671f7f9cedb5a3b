SPECIFICATION UploadFairSpec
CONSTANTS
  SndBuf = 3
  SizeT = 16
  Sizes = {1}
  MaxQueued = 4
  BodySizes = {0, 3}
  BuffSize = 2
INVARIANTS
  ReportsAcknowledged
  UploadSound
PROPERTIES
  UploadEnds
CHECK_DEADLOCK FALSE
