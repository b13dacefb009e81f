SPECIFICATION Spec
CONSTANTS
  MaxPlayers = 2
  Height = 2
  Width = 3
  Walls <- OneWall
  MaxTicks = 7
  MaxOperations = 2
INVARIANTS
  AlgorithmsAgree
PROPERTY ImplementsGame
