SPECIFICATION FairSpec
CONSTANTS
  t1 = t1
  t2 = t2
  Tiles <- TwoTiles
  IsLocal = TRUE
  MaxTicks = 4
INVARIANTS
  ViewFollowsMap
PROPERTIES
  EveryoneLeaves
  WaitingEnds
