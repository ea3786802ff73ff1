SPECIFICATION RecoverySpec
CONSTANTS
  SealedWindowStart = 3
  RebuildFetchDate = 6
  None = None
  VolSlack = 1
  MinEstimatorDays = 2
  MaxFloorProbes = 16
  MaxUndecidedSteps = 2
  WindowDays = 3
  MonthDays = 4
  ProbeDaysPerEra = 2
  MinCliffDays = 2
  CliffPercent = 95
  QuarantinePercent = 80
  HuntPercent = 98
  MinFailurePercent = 10
  HuntRounds = 2
  QuarantineCeiling = 1
  MaxAttempts = 3
  MaxRelogins = 1
  MaxRuns = 3
  MaxDeaths = 1
  Symbols <- MCSymbols
  RunDates <- MCRunDates
  Versions <- MCVersions
CHECK_DEADLOCK FALSE
INVARIANT
  SameCommandResumes
