SPECIFICATION FairSpec
CONSTANTS
  Symbols = {s1}
  Pocs = {p1}
  Terms = {}
  ZeroQty = {}
  None = None
  SquareOffBoundary = 3
  MaxCrashes = 1
  MaxRevisions = 0
  MaxFaults = 1
PROPERTIES
  DayCloses
CHECK_DEADLOCK FALSE
