SPECIFICATION ResearchSpec
CONSTANTS
  PLAN <- MCPlan
  Solo <- MCSolo
  HEAVY <- MCHeavy
  Gated = {"a", "c"}
  SPECS <- MCSpecs
  MaxProcs = 2
  HeavyProcs = 1
  Onlys <- MCOnlys
  MaxEvents <- MCEvents
  idx = idx
  nam = nam
  NoMemo = NoMemo
  NoPrice = NoPrice
  NoSignal = NoSignal
  SymbolOrder <- MCOrder
  Tapes <- MCTapes
  IndexSymbol = idx
  MaxRuns = 2
  DayLength = 5
  SESSION_OPEN = 0
  OrMinutes = 1
  EntryStart = 2
  EntryEnd = 3
  Lookback = 2
  BARS_PER_SESSION_CEILING = 3
  RelVolPct = 100
  MaxHistory = 4
  MinSessionBars = 2
  ZEntry = 1
  VwapUnit = 2520
  RET_WINDOW_BARS = 1
  MIN_ATR_OBSERVATIONS = 1
  BETA_WINDOW_DAYS = 2
  MIN_BETA_DAYS = 2
  INDEX_SYNC_WINDOW = 3
  RetUnit = 4
  Replays <- MCReplays
  RthMinutes = 5
  LastAsk = 4
  RangeBars = 2
  MinOpening = 1
  MinAfter = 1
  MinRangePct = 8
  MaxRangePct = 55
  BreakPct = 5
  EntryFrom = 2
  EntryUntil = 4
  MinRelVolume = 130
  VolumeSessions = 2
  AtrSessions = 1
  Warmup = 2
  MinObservations = 1
  HoldBars = 2
  MinPremium = 1
  MaxQuoteSpread = 50
  AimDelta = 45
  EntryFriction = 0
  Decay = 0
  MinEdgePct = 25
  Deltas <- MCDeltas
  Books <- MCBooks
  MaxReplays = 2
  NoBar = NoBar
  SpreadFillPct = 50
  SlippagePct = 1
  Commission = 2
  Multiplier = 10
  Chains <- MCChains
  Calls <- MCCalls
  SpotTicks = 100
  TargetDelta = 4
  FatTailedTargetDelta = 2
  MaxRelSpread = 15
  MaxRelSpread0dte = 9
  MinSize = 5
  MinOi = 6
  NoTape = NoTape
  Sessions <- MCSessions
  Lead = "a"
  TICKS = 2
  VolumePerBar = 4
  DollarPerBar = 18
  EwmaUnit = 64
  ExpectedTicks = 128
  ExpectedImbalance = 32
  MinExpectedImbalance = 32
  ImbalanceWindow = 2
  VpinBucket = 3
  VpinBuckets = 2
  MinPeriods = 2
  PriorClose <- MCPrior
  Samples <- MCSamples
  Folds = {1, 2, 3, 5}
  EmbargoPcts = {0, 30}
  Windows <- MCWindows
  Matrices <- MCMatrices
  BlockCounts = {2, 4}
  Lengths = {2, 3, 4}
  BlockLens = {1, 2, 3}
  ReturnSamples <- MCReturns
  Targets = {0, 1, 2, 4}
  One = 4
  Horizons <- MCHorizons
  BlockLenDays = 2
  Missing = Missing
  TrendWindow = 2
  VolRows <- MCVol
  BarRows <- MCBars
  Undefined = Undefined
  MinOosTrades = 4
  Sheeted = "x"
  Ledgers <- MCLedgers
  Equities <- MCEquities
  SeriesSet <- MCSeries
  Classes <- MCClasses
  SignalConfigs = {1}
  Specs <- MCRunSpecs
  BaseConfigs <- MCBase
  MIN_HYPOTHESIS_CHARS = 2
  MaxTrials = 2
  Modules <- MCModules
  Sources <- MCSources
  Requests <- MCRequests
  TrainPct = 70
  MIN_TRUSTWORTHY_N = 3
  BaselineMonthly = 8
  DIVERGENCE_TOLERANCE = 100
  EquityTolerancePct = 35
  MonthLengths <- MCMonthLengths
  Walks <- MCWalks
INVARIANT VpinCausal
CHECK_DEADLOCK FALSE
