SPECIFICATION Spec
CONSTANTS
  MatchCount = 2
  PageSize = 1
  Overlap = 1
  Lookback = 1
  MaxTime = 2
  MaxWrites = 3
  MaxFaults = 1
INVARIANTS
  WindowCovers
  ScanCovers
PROPERTIES
  ChangesArrive
