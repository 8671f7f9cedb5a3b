SPECIFICATION MultiFairSpec
CONSTANTS
  MaxNets = 7
  MaxScans = 2
  Int8 = 6
  MaxAPs = 2
  Ssids = {"A", "B"}
  Levels = {1, 2}
INVARIANTS
  ResultsSound
  JoinsBest
  ReportsLastScan
PROPERTIES
  RunReturns
