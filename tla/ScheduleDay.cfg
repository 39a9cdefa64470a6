SPECIFICATION Spec
CONSTANTS
  LastDay = 2
  TradingDays = {1, 2}
  EarlyDays = {2}
  Ticks = 4
  Open = 1
  Close = 2
  EarlyClose = 1
  Step = 1
  UpdateTick = 3
  EnrichTick = 1
  InitTick = 2
  Grace = 0
  InitGrace = 1
  CoveragePct = 90
  DelayedPct = 50
  TotalSlots = 2
  Launches <- mcLaunches
  MaxStarts = 1
  MaxFaults = 1
INVARIANT TypeOK
INVARIANT NoJobTwice
INVARIANT ExitTellsTheTruth
INVARIANT VerdictStands
PROPERTY ScheduledJobsStay
CHECK_DEADLOCK FALSE
