SPECIFICATION FairSpec
CONSTANTS
  MaxPlayers = 1
  BufferSize = 1
  MaxQueue = 1
  Contents <- OneContent
  PlayerStates <- Life
  KeyMessages <- RightKey
PROPERTIES
  LeavingEnds
CHECK_DEADLOCK FALSE
