SPECIFICATION I2sSpec
CONSTANTS
  BufCnt = 3
  BufLen = 2
  MaxSamples = 6
  MaxRuns = 2
INVARIANTS
  RingSound
PROPERTIES
  EverySampleOnce
CHECK_DEADLOCK FALSE
