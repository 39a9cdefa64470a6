SPECIFICATION FairSpec
CONSTANTS
  LastDay = 1
  TradingDays = {1}
  EarlyDays = {}
  Ticks = 5
  Open = 1
  Close = 3
  EarlyClose = 1
  Step = 2
  UpdateTick = 4
  EnrichTick = 1
  InitTick = 2
  Grace = 1
  InitGrace = 2
  CoveragePct = 90
  DelayedPct = 50
  TotalSlots = 2
  Launches <- mcIdle
  MaxStarts = 1
  MaxFaults = 1
PROPERTY ExitsWhenIdle
CHECK_DEADLOCK FALSE
