SPECIFICATION BenchSpec
CONSTANTS
  StartCash = 200
  Commission = 1
  Slips <- MCSlips
  FloorPct = 68
  HeatPct = 38
  HedgePct = 10
  BufferPct = 30
  MinAddPct = 25
  DailyHaltPct = 10
  WeeklyHaltPct = 15
  MaxCorrelated = 2
  Correlated <- MCCorrelated
  DaysPerWeek = 2
  Bets <- MCBets
  Scheduled <- MCScheduled
  Puts <- MCPuts
  MaxSessions = 4
  Proposals <- MCProposals
  Closes <- MCCloses
  EodFlatten = 5
  Staleness = 0
  HaircutPct = 90
  Paces <- MCPaces
  MaxIntraday = 1
  NoMid = NoMid
INVARIANTS BooksAgree MoneyKept BetsKept IntradayKept
PROPERTIES  KeepsTradeBook MinutesKept
