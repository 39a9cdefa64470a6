SPECIFICATION FairSpec
CONSTANTS
  Universe <- MCUniverse
  Wanted <- MCWanted
  LastDay = 3
  TradingDays = {1, 3}
  UpdateDays = {1}
  Faulty = {"x"}
  Limits = {0, 1}
  MaxFaults = 2
  MaxPlans = 1
INVARIANTS NothingForgotten SettledIsWhole
PROPERTIES OthersProceed
CHECK_DEADLOCK FALSE
