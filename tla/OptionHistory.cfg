SPECIFICATION HistorySpec
CONSTANTS
  Contracts <- mcContracts
  Universe = {"AAPL"}
  LastDay = 4
  FullDays = {1, 2}
  Reach <- mcReach
  TopExpiries = 1
  StrikesPerSide = 1
  Prices = {104}
  MaxRuns = 3
  MaxCrashes = 1
INVARIANT FoldersJoin
INVARIANT HolesAreOld
CHECK_DEADLOCK FALSE
