SPECIFICATION DeskSpec
CONSTANTS
  Refs = {c1, c2}
  Brokers = {"alpaca"}
  StartCash = 7
  Cost = 2
  FloorPct = 30
  MaxCycles = 3
  MaxOrders = 2
  MaxOdd = 0
  MaxFlips <- MCFlips
  MaxManual <- MCManual
  MaxRestarts = 0
  Lifetimes = {3, 6}
  REFRESH_MARGIN = 2
  MaxTransit = 1
  RefreshUntil = 5
  LastTick = 7
  MaxBrokerCalls = 1
  NoToken = NoToken
  NoOrder = NoOrder
PROPERTY NeverDropsOpen
CHECK_DEADLOCK FALSE
