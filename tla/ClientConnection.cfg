SPECIFICATION FairSpec
CONSTANTS
  MaxPlayers = 1
  BufferSize = 1
  MapVersions = 1
  KeyMessages <- TwoKeys
PROPERTIES
  ImplementsProtocol
  StatusIsTold
  ShutdownFreesTheSlot
  GameEndEndsThreads
CHECK_DEADLOCK FALSE
