SPECIFICATION Spec
CONSTANTS
  Word = 4
  Sec = 8
  FsSectors = 2
  Sizes <- MCSizes
  Places <- MCPlaces
  Values <- MCValues
  Calls <- MCCalls
  Buf = 4
  MaxCalls = 1
INVARIANTS
  CleanIsStored
  Durable
  WriteExact
  AlignedReadExact
