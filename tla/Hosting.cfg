\* Two clients and two servers; a client may leave for good, or wait for a dead server.
CONSTANTS
  Hash <- MCHash
  MaxServers = 2
  Clients = {1, 2}
  RoomNames <- MCRoomNames
  MapFiles <- MCMapFiles
  MinWidth = 2  MaxWidth = 5
  MinHeight = 2  MaxHeight = 3
  TypedNames <- MCTypedNames
  TypedPaths <- MCTypedPaths
  TypedPorts <- MCTypedPorts
  TypedSizes <- MCTypedSizes
  PrivateNames <- MCPrivateNames
  CommandLines <- MCCommandLines
  MaxPlayers = 1
SPECIFICATION Spec
INVARIANTS LaunchedMeansReady RoomsBelongToServers ServersGetTheirSettings
CHECK_DEADLOCK FALSE
