SPECIFICATION FairSpec
CONSTANTS
  Listed <- MCListed
  ExchangeOf <- MCExchangeOf
  DistanceOf <- MCDistanceOf
  Preferences <- MCPreferences
  StrikesPerSide = 2
  Modes <- MCModes
  Concurrency = 2
  BatchSize = 2
  Timeout = 2
  Capacity = 2
  Refill = 2
INVARIANTS AnsweredOnce LinesReturned FirstUsableExchange Pacing
PROPERTIES CollectEnds
CHECK_DEADLOCK FALSE
