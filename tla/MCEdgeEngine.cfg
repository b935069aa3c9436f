SPECIFICATION HaltSpec
CONSTANTS
  a = a
  b = b
  NoQuote = NoQuote
  SymbolOrder <- MCOrder
  Tapes <- MCTapes
  SpreadFillPct = 50
  SlippagePct = 10
  Commission = 500
  Multiplier = 1
  DayLength = 3
  InitialEquity = 20
  LatencyTicks = 1
  RiskRPct = 25
  StopR = 1
  MaxHold = 1
  EodTime = 2
  PerTradeCapPct = 20
  DailyHaltPct = 10
  Convictions = {1, 4}
  MaxEmits = 1
INVARIANTS LedgerHonest 
PROPERTIES RunEnds KeepsTradeBook
CHECK_DEADLOCK FALSE
