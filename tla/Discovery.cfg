SPECIFICATION Spec
CONSTANTS
  p1 = p1
  p2 = p2
  Procs <- mcProcs
  AAPL = AAPL
  MSFT = MSFT
  FOO = FOO
  Listed = {AAPL, MSFT}
  Known = {MSFT}
  Wanted <- mcWanted
  Chains <- mcChains
  Expiries <- mcExpiries
  Kinds <- mcKinds
  Prices = {0, 101, 104}
  MoneynessPct = 30
  Cap = 1
  Cutoff = 90
  MaxStarts = 2
  MaxCrashes = 1
SYMMETRY Alike
INVARIANT TypeOK
INVARIANT OneListPerDay
INVARIANT CheckedStaysUsable
INVARIANT UniverseKept
CHECK_DEADLOCK FALSE
