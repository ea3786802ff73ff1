SPECIFICATION Spec
CONSTANTS
  Symbols = {s1, s2}
  Pocs = {p1}
  Terms = {t1}
  ZeroQty = {}
  None = None
  SquareOffBoundary = 3
  MaxCrashes = 0
  MaxRevisions = 0
  MaxFaults = 0
INVARIANTS
  ExitFollowsTrigger
CHECK_DEADLOCK FALSE
