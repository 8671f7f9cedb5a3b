SPECIFICATION Spec
CONSTANTS
  Byte = {a, b}
  Junk = Junk
  MaxSize = 4
  MaxSource = 3
  Chunks <- MCChunks
  Counts <- MCCounts
  Sizes <- MCSizes
  SizeT = 65536
  ShrinkToFit = FALSE
INVARIANTS
  InBounds
  RoomExact
PROPERTIES
  ImplementsFifo
CHECK_DEADLOCK FALSE
