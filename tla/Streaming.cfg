SPECIFICATION FairSpec
CONSTANTS
  Strikes <- MCStrikes
  Unlistings <- MCUnlistings
  Spots <- MCSpots
  PerSide = 1
  Threshold = 1
  MaxBuffer = 2
  MaxRows = 2
INVARIANTS TypeOK NoLeakedLine LinesMatchWindow RowsInOrder
PROPERTIES WindowFollows
CHECK_DEADLOCK FALSE
