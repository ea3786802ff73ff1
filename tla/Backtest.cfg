SPECIFICATION Spec
CONSTANTS
  NoRow = NoRow
  SessionMinutes = 12
  MaxMissing = 2
  CandleMinutes = 2
  ProfileCandles = 2
  RowSize = 3
  ReferenceBar = 2
  FirstTriggerBar = 3
  LastTriggerBar = 4
  SquareOffBar = 5
  SessionBars = 6
  TargetRiskMultiple = 3
  RiskPerTrade = 70
  Cost = 7
  Capital = 1000
  SymbolOrder <- MCSymbolOrder
  DaysPerYear = 4
  Start = 3
  End = 5
  Worlds <- MCWorlds
  Versions = {v1, v2}
  MaxDeaths = 1
  MaxLaunches = 2
SYMMETRY MCSymmetry
CHECK_DEADLOCK FALSE
INVARIANTS
  TypeOK
  LedgerIsOneRun
  GatesAreExact
  VolumeConserved
  BiasIsWarranted
  BooksAgree
  ChecksPass
  BenchmarkIsHeld
