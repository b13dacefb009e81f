SPECIFICATION Spec
CONSTANTS
  MaxPlayers = 2
  Height = 5
  Width = 2
  Walls <- RingWalls
  MaxTicks = 4
  MaxOperations = 3
INVARIANTS
  TypeOK
  SnakesAreTrails
  TailCacheFollows
  ChangelogLeadsToMap
  ChangelogFits
  NoDeadTilesBetweenTicks
  FruitsLast
PROPERTIES
  OnlyADeadGameEnds
  PausedSnakesStay
  ImplementsLifecycle
