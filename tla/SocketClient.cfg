SPECIFICATION FairSpec
CONSTANTS
  MaxPlayers = 1
  BufferSize = 1
  MaxQueue = 2
  Contents <- TwoContents
  PlayerStates <- Life
  KeyMessages <- RightKey
INVARIANTS
  ScreenFollowsMap
  ControlsFollowStatus
  UpdatesAreUpdates
  NobodySleepsOverCommands
PROPERTIES
  ExitIsSeen
  GameEndIsSeen
CHECK_DEADLOCK FALSE
