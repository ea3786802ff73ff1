SPECIFICATION Spec
CONSTANTS
  Symbols = {s1}
  Pocs = {p1}
  Terms = {t1, t2, t0}
  ZeroQty = {t0}
  None = None
  SquareOffBoundary = 4
  MaxCrashes = 0
  MaxRevisions = 2
  MaxFaults = 0
INVARIANTS
  SecondThoughtsAreMarked
  ShownIsAnnounced
PROPERTIES
  OnlyRefusalsWalkBack
CHECK_DEADLOCK FALSE
