SPECIFICATION DeskSpec
CONSTANTS
  Refs = {c1, c2}
  Brokers = {"simulated", "alpaca", "schwab"}
  StartCash = 7
  Cost = 2
  FloorPct = 30
  MaxCycles = 3
  MaxOrders = 3
  MaxOdd = 1
  MaxFlips <- MCFlips
  MaxManual <- MCManual
  MaxRestarts = 1
  Lifetimes = {3, 6}
  REFRESH_MARGIN = 2
  MaxTransit = 1
  RefreshUntil = 5
  LastTick = 7
  MaxBrokerCalls = 3
  NoToken = NoToken
  NoOrder = NoOrder
INVARIANTS EntriesBounded FillsManaged 
PROPERTIES StepsSafe DueIsClosed
CHECK_DEADLOCK FALSE
