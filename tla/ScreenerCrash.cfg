SPECIFICATION Spec
CONSTANTS
  Symbols = {s1}
  Pocs = {p1, p2}
  Terms = {t1}
  ZeroQty = {}
  None = None
  SquareOffBoundary = 3
  MaxCrashes = 1
  MaxRevisions = 1
  MaxFaults = 0
SYMMETRY Permuted
INVARIANTS
  TypeOK
  SentOnce
  SentIsRecorded
  OnePocQuoted
  ShownIsAnnounced
CHECK_DEADLOCK FALSE
