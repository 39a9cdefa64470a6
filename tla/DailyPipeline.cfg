SPECIFICATION Spec
CONSTANTS
  s1 = s1
  c1 = c1
  c2 = c2
  j1 = j1
  j2 = j2
  NoRow = NoRow
  Symbols <- MCSymbols
  Conids <- MCConids
  Slots <- MCSlots
  LastSlot = 14
  SlotParams <- MCSlotParams
  CapturedOI <- MCCapturedOI
  AllowFallback = TRUE
  Forces = {TRUE, FALSE}
  Jobs <- MCJobs
  MaxClock = 2
  MaxStarts = 3
SYMMETRY Alike
INVARIANTS TypeOK AdjustedMatches SelectionKept EnrichmentLogged
CHECK_DEADLOCK FALSE
