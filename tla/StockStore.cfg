SPECIFICATION StockSpec
CONSTANTS
  Universe = {"AAPL"}
  LastDay = 4
  MonthDays = 2
  KeepMonths = 1
  Window = 2
  MaxCommands = 3
  MaxCrashes = 1
INVARIANT NoHoles
PROPERTY DeletedIsMerged
CHECK_DEADLOCK FALSE
