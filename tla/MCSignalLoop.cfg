SPECIFICATION Spec
CONSTANTS
  ReferenceBar = 2
  FirstTriggerBar = 3
  LastTriggerBar = 4
  SquareOffBar = 5
  SessionBars = 6
  TargetRiskMultiple = 3
  Candle <- MCCandle
  Poc2 <- MCPoc2
  MinuteCloses <- MCMinuteCloses
INVARIANTS
  TypeOK
  LoopIsRule
  UnsizableContradicts
  PocSplitsTheTrade
CHECK_DEADLOCK FALSE
