SPECIFICATION FairSpec
CONSTANTS
  p1 = p1
  p2 = p2
  NoProc = NoProc
  NoId = NoId
  Proc <- MCProc
  Ids <- MCIds
  Configured <- MCConfigured
  Randomize = TRUE
  Limit = 2
  MaxAttempts = 2
  TTL = 0
INVARIANTS ClaimBacked Exclusive
PROPERTIES OpeningEnds ImplementsLease
