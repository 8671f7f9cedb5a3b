SPECIFICATION OutputFairSpec
CONSTANTS
  BufCnt = 3
  BufLen = 2
  MaxSamples = 4
  MaxRuns = 1
PROPERTIES
  ResumesWhenRoom
CHECK_DEADLOCK FALSE
