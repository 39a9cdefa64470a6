SPECIFICATION Spec
CONSTANTS
  r1 = r1
  r2 = r2
  r3 = r3
  c1 = c1
  s1 = s1
  Runs <- MCRuns
  Symbols <- MCSymbols
  Conids <- MCConids
  Slots <- MCSlots
  MaxClock = 5
INVARIANTS NothingLost CleanBehindRaw 
CHECK_DEADLOCK FALSE
