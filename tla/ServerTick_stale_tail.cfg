SPECIFICATION ScriptedSpec
CONSTANTS
  MaxPlayers = 3
  Height = 5
  Width = 3
  Walls <- FieldWalls
  MaxTicks = 8
  MaxOperations = 12
INVARIANT NeverFails
