SPECIFICATION PlaneSpec
CONSTANTS
  sym = sym
  other = other
  NoValue = NoValue
  NoSignal = NoSignal
  Symbol = sym
  Holidays = {3, 11}
  AvailabilityLag = 1
  RollingWindow = 3
  RollingMinPeriods = 2
  ZWindowWeeks = 2
  WinsorWindow = 3
  WinsorMinPeriods = 2
  WinsorLowPct = 60
  WinsorHighPct = 250
  PcZWindow = 3
  SlopeZWindow = 3
  HyOasZWindow = 2
  InsiderWindow = 3
  RatioUnit = 4
  ZThreshold = 1
  CotWindow = 2
  MaxEntryAgeDays = 4
  MinOfficers = 2
  MinSustainedDays = 2
  AfternoonStart = 12
  SessionClose = 16
  MinToClose = 2
  PinPermille = 300
  FlowStart = 10
  FlowEnd = 15
  FlowMaxAge = 0
  ImbalanceThreshold = 2
  VpinThreshold = 5
  MinIntensity = 1
  Worlds <- MCWorlds
  Spot = 10
  Start = 7
  End = 18
  Walls = {7, 16}
  BarHours = {10, 13, 14}
  NoFrame = NoFrame
  Procs = {p1, p2}
  Symbols = {s1, s2}
  Days0 = 0
  LastClock = 4
  SeedDays = {0}
  Pages = 3
  TickAttempts = 2
  MaxCalls = 3
  MaxFaults = 2
  Rows <- MCRows
  Issuers = {1, 2}
  QuarterDays = 2
  Today0 = 1
  LastDay = 4
  Ranges <- MCRanges
  MaxAttempts = 2
  Interval = 2
  Backoff = 3
  MaxDamages = 1
  MaxCrashes = 1
  MaxRuns = 3
  SlotsPerDay = 4
  LastSlot = 2
  DateAhead = 1
  DailyRanges <- MCDailyRanges
  PageRows = 1
  PageAttempts = 2
  LastInstant = 7
  MaxRequests = 2
  NotCached = NotCached
  ListedOn <- MCListedOn
  Smiles <- MCSmiles
  Snapshots <- MCSnapshots
  MonthDays = 5
  ThirdFriday = 3
  NearDays = 1
  DteMin = 3
  DteTarget = 4
  DteMax = 8
  Lookback = 3
  Moneyness = 10
  YearDays = 9
  MaxDte = 1
  MemoSize = 1
  TerminalRetries = 1
  FirstOptDay = 6
  LastOptDay = 9
  SeriesAsked <- MCSeriesAsked
  ChainsAsked <- MCChainsAsked
  MaxOptJobs = 2
  MaxOptFaults = 1
  Unread = Unread
INVARIANTS CachesHonest BackfillHonest RowsAsLive DecisionsAsLive LockedBlind
PROPERTIES BackfillEnds
CHECK_DEADLOCK FALSE
