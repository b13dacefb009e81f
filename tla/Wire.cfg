SPECIFICATION FairWireSpec
CONSTANTS
  Base = 13
  OrderSize = 3
  PlayerSize = 2
  CoordinateSize = 2
  Outgoing <- EveryForm
  Garbage <- SomeGarbage
  MaxMessages = 2
  MaxShort = 2
INVARIANT MessagesArrive
PROPERTY AllIsRead
CHECK_DEADLOCK FALSE
