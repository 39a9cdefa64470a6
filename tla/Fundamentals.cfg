SPECIFICATION FairSpec
CONSTANTS
  Tickers = {"AAPL", "MSFT"}
  Types = {"info", "financials"}
  Statements = {"financials"}
  Commands <- mcCommands
  Limit = 4
  MinDays = 1
  InfoDays = 2
  StatementDays = 2
  Attempts = 2
  PeriodAges = {0}
  MaxSpecial = 1
  MaxFaults = 1
INVARIANT BudgetKept
INVARIANT OncePerDay
PROPERTY EveryoneServed
CHECK_DEADLOCK FALSE
