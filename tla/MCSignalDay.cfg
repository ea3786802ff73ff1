SPECIFICATION ParitySpec
CONSTANTS
  ReferenceBar = 1
  FirstTriggerBar = 2
  LastTriggerBar = 4
  SquareOffBar = 5
  SessionBars = 6
  TargetRiskMultiple = 3
  Candle <- MCCandle
  Poc2 <- MCPoc2
  RiskPerTrade = 4
INVARIANTS
  TypeOK
  LiveIsBacktest
PROPERTIES
  OneTradeADay
  AnswersOnlyGrow
  SeenOnTime
CHECK_DEADLOCK FALSE
