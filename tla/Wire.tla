-------------------------------- MODULE Wire --------------------------------
(***************************************************************************)
(* The messages as bytes: libsnake/socket/socket_message.c, and the loops  *)
(* of socket_read and socket_write in socket.c, in one direction of a      *)
(* connection.  Socket takes a message for one step of each side; this is  *)
(* when it may.                                                            *)
(*                                                                         *)
(* The kernel may take or give a part of what it is asked for.  The next   *)
(* call then asks for the rest only, but from the start of the buffer: a   *)
(* short write is followed by bytes that have been sent before, and a      *)
(* short read is overwritten by what comes next.                           *)
(*                                                                         *)
(* Left out: a signal that ends a read, or a write before its first byte   *)
(* (ClientConnection has both, of whole messages).                         *)
(***************************************************************************)
EXTENDS Integers, SequencesExt

CONSTANTS
  Base,         \* the values of a byte, 256 in the code
  OrderSize, PlayerSize, CoordinateSize,  \* the bytes of a number: 8, 2 and 4
  Outgoing,     \* the messages that are sent, as Socket has them
  Garbage,      \* what a buffer may hold before it is read into
  MaxMessages,  \* bound of the model: how many messages are sent
  MaxShort      \* bound of the model: how many transfers are cut short

\* socket_message_type_t
Types == <<"magicBytes", "gameFull", "connected", "map", "tileChange", "playerState",
           "direction", "disconnect", "gameEnd", "pause", "unpause", "respawn">>

\* The sizes of the data, as far as the type tells them: of a map, its dimensions.
DimensionsSize == 2 * CoordinateSize
SizePerTile == OrderSize + 1 + PlayerSize
BodySizes == [magicBytes |-> 4, map |-> DimensionsSize, tileChange |-> DimensionsSize + SizePerTile,
              playerState |-> 2, direction |-> 1]

\* How many numbers so many bytes tell apart.
Capacity[count \in Nat] == IF count = 0 THEN 1 ELSE Base * Capacity[count - 1]

Bytes == 0 .. Base - 1
Unsigned(count) == 0 .. Capacity[count] - 1
Tiles == [order : Unsigned(OrderSize), type : Bytes, player : Unsigned(PlayerSize)]

\* socket_message_map_data_t, with as many tiles as a coordinate can count.
IsMap(m) ==
  /\ m \in [type : {"map"}, width : Unsigned(CoordinateSize), height : Unsigned(CoordinateSize),
            map : {m.map}]
  /\ m.width * m.height \in Unsigned(CoordinateSize)
  /\ m.map \in [(0 .. m.height - 1) \X (0 .. m.width - 1) -> Tiles]

\* What the functions socket_message_init_... make.
IsMessage(m) ==
  \/ m \in [type : ToSet(Types) \ DOMAIN BodySizes]
  \/ m \in [type : {"magicBytes"}, bytes : [1 .. 4 -> Bytes]]
  \/ m.type = "map" /\ IsMap(m)
  \/ m \in [type : {"tileChange"}, row : Unsigned(CoordinateSize),
            column : Unsigned(CoordinateSize), tile : Tiles]
  \/ m \in [type : {"playerState"}, status : Bytes, direction : Bytes]
  \/ m \in [type : {"direction"}, direction : Bytes]

ASSUME WireAssumption ==
  /\ Base \in Nat /\ Base > Len(Types)
  /\ {OrderSize, PlayerSize, CoordinateSize} \subseteq Nat \ {0}
  /\ \A m \in Outgoing : IsMessage(m)
  /\ Garbage \subseteq Bytes
  /\ MaxMessages \in Nat /\ MaxShort \in Nat

VARIABLES
  buffer,    \* what the writer has still to write, from its first byte
  written,   \* written_bytes
  stream,    \* bytes on their way
  broken,    \* the connection has been reset
  stage,     \* what the reader is reading
  size,      \* buffer_length of its socket_read
  got,       \* read_bytes
  held,      \* the bytes at the start of its buffer
  garbage,   \* what the rest of its buffer holds
  dims,      \* the width and the height of the map it is reading
  sent,      \* history: the messages sent
  received,  \* history: the messages received
  cut,       \* history: which messages had a transfer cut short
  torn       \* history: one of them was cut in the dimensions of a map

writerVars == <<buffer, written>>
readerVars == <<stage, size, got, held, garbage, dims>>
wireVars == <<writerVars, readerVars, stream, broken, sent, received, cut, torn>>

-----------------------------------------------------------------------------
(* Serialisation.  A number is written with its least byte first.          *)

Digits(n, count) ==
  LET rest[i \in 1 .. count] == IF i = 1 THEN n ELSE rest[i - 1] \div Base
  IN  [i \in 1 .. count |-> rest[i] % Base]

Shift(digit, n) == digit + Base * n
Number(bytes) == FoldRight(Shift, bytes, 0)

TypeCode(type) == SelectInSeq(Types, LAMBDA t : t = type) - 1

\* socket_message_init_map takes the tiles row by row.
TilesOf(m) ==
  [i \in 1 .. m.width * m.height |-> m.map[<<(i - 1) \div m.width, (i - 1) % m.width>>]]

TileBytes(t) == Digits(t.order, OrderSize) \o <<t.type>> \o Digits(t.player, PlayerSize)

Coordinate(n) == Digits(n, CoordinateSize)

DataBytes(m) ==
  CASE m.type = "magicBytes"  -> m.bytes
    [] m.type = "map"         ->
         Coordinate(m.width) \o Coordinate(m.height)
           \o FlattenSeq([i \in DOMAIN TilesOf(m) |-> TileBytes(TilesOf(m)[i])])
    [] m.type = "tileChange"  -> Coordinate(m.row) \o Coordinate(m.column) \o TileBytes(m.tile)
    [] m.type = "playerState" -> <<m.status, m.direction>>
    [] m.type = "direction"   -> <<m.direction>>
    [] OTHER                  -> <<>>

DataSize(m) ==
  CASE m.type = "magicBytes"  -> 4
    [] m.type = "map"         -> DimensionsSize + m.width * m.height * SizePerTile
    [] m.type = "tileChange"  -> DimensionsSize + SizePerTile
    [] m.type = "playerState" -> 2
    [] m.type = "direction"   -> 1
    [] OTHER                  -> 0

Serialize(m) ==
  [i \in 1 .. 1 + DataSize(m) |-> (<<TypeCode(m.type)>> \o DataBytes(m))[i]]

-----------------------------------------------------------------------------
(* The writer: socket_message_serialize_to_socket.                         *)

WriterIsIdle == buffer = <<>>

BeginWrite(m) ==
  /\ WriterIsIdle /\ Len(sent) < MaxMessages
  /\ buffer' = Serialize(m)
  /\ written' = 0
  /\ sent' = Append(sent, m)
  /\ UNCHANGED <<readerVars, stream, broken, received, cut, torn>>

\* A transfer of count bytes of message i that leaves some to be done.
Cut(i, inDimensions) ==
  /\ Len(cut) < MaxShort
  /\ cut' = Append(cut, i)
  /\ torn' = (torn \/ inDimensions)

\* Mutant of the next: what a write has left is not written at all.
WriteOnce(count) ==
  /\ ~broken
  /\ stream' = stream \o SubSeq(buffer, 1, count)
  /\ buffer' = <<>> /\ written' = 0
  /\ IF count = Len(buffer) THEN UNCHANGED <<cut, torn>>
     ELSE Cut(Len(sent), FALSE)
  /\ UNCHANGED <<readerVars, broken, sent, received>>

\* One call of write.  The dimensions of a map are behind its type.
Write(count) ==
  /\ ~broken
  /\ count <= Len(buffer) - written
  /\ stream' = stream \o SubSeq(buffer, 1, count)
  /\ IF count = Len(buffer) - written
     THEN buffer' = <<>> /\ written' = 0 /\ UNCHANGED <<cut, torn>>
     ELSE /\ written' = written + count
          /\ Cut(Len(sent), Head(buffer) = TypeCode("map") /\ written' < 1 + DimensionsSize)
          /\ UNCHANGED buffer
  /\ UNCHANGED <<readerVars, broken, sent, received>>

WriteFails ==
  /\ broken /\ ~WriterIsIdle
  /\ buffer' = <<>> /\ written' = 0
  /\ UNCHANGED <<readerVars, stream, broken, sent, received, cut, torn>>

-----------------------------------------------------------------------------
(* The reader: socket_message_deserialize_from_socket.                     *)

\* A call of socket_read, into a buffer that nothing has been written to: what
\* it holds matters only if the first read is short, and is chosen then.
StartRead(what, length) ==
  /\ stage' = what /\ size' = length
  /\ got' = 0 /\ held' = <<>>
  /\ UNCHANGED garbage

\* One call of read.  The end of the stream gives no bytes, for ever.
Read(count) ==
  /\ stage # "failed"
  /\ count <= size - got /\ count <= Len(stream)
  /\ held' = SubSeq(stream, 1, count) \o SubSeq(held, count + 1, Len(held))
  /\ stream' = SubSeq(stream, count + 1, Len(stream))
  /\ got' = got + count
  /\ IF got' = size THEN UNCHANGED <<cut, torn, garbage>>
     ELSE /\ Cut(Len(received) + 1, stage = "dimensions")
          /\ garbage' \in IF got = 0 THEN Garbage ELSE {garbage}
  /\ UNCHANGED <<writerVars, stage, size, dims, broken, sent, received>>

ReadFails ==
  /\ broken /\ stream = <<>> /\ got < size
  /\ stage' = "failed"
  /\ UNCHANGED <<writerVars, stream, broken, size, got, held, garbage, dims, sent,
                 received, cut, torn>>

IsRead(what) == stage = what /\ got = size

\* The bytes of the buffer from one on.
ByteAt(i) == IF i <= Len(held) THEN held[i] ELSE garbage
NumberAt(first, length) == Number([i \in 1 .. length |-> ByteAt(first + i - 1)])

\* Mutant of the next: the player is read before the type.
TileAtSwapped(first) ==
  [order |-> NumberAt(first, OrderSize), type |-> ByteAt(first + OrderSize + PlayerSize),
   player |-> NumberAt(first + OrderSize, PlayerSize)]

TileAt(first) ==
  [order |-> NumberAt(first, OrderSize), type |-> ByteAt(first + OrderSize),
   player |-> NumberAt(first + OrderSize + 1, PlayerSize)]

Quietly == UNCHANGED <<writerVars, stream, broken, sent, cut, torn>>

Deliver(m) ==
  /\ received' = Append(received, m)
  /\ StartRead("type", 1)
  /\ UNCHANGED dims
  /\ Quietly

RejectType ==
  /\ IsRead("type") /\ ByteAt(1) > TypeCode("respawn")
  /\ stage' = "failed"
  /\ UNCHANGED <<size, got, held, garbage, dims, received>> /\ Quietly

ReadType ==
  /\ IsRead("type") /\ ByteAt(1) <= TypeCode("respawn")
  /\ LET type == Types[ByteAt(1) + 1]
     IN  IF type \in DOMAIN BodySizes
         THEN /\ StartRead(IF type = "map" THEN "dimensions" ELSE type, BodySizes[type])
              /\ UNCHANGED <<dims, received>> /\ Quietly
         ELSE Deliver([type |-> type])

ReadMagicBytes == IsRead("magicBytes") /\ Deliver([type |-> stage, bytes |-> [i \in 1 .. size |-> ByteAt(i)]])

Pair == <<NumberAt(1, CoordinateSize), NumberAt(1 + CoordinateSize, CoordinateSize)>>

\* The tiles are counted in the width of a coordinate.
ReadDimensions ==
  /\ IsRead("dimensions")
  /\ dims' = Pair
  /\ StartRead("tiles", ((dims'[1] * dims'[2]) % Capacity[CoordinateSize]) * SizePerTile)
  /\ UNCHANGED received /\ Quietly

\* The map has room for the tiles that have been counted.
IsCounted == dims[1] * dims[2] * SizePerTile = size

\* With socket_message_deserialize_to_map, which puts them into rows again.
ReadTiles ==
  /\ IsRead("tiles") /\ IsCounted
  /\ LET width == dims[1]
         map == [c \in (0 .. dims[2] - 1) \X (0 .. width - 1) |->
                   TileAt(SizePerTile * (width * c[1] + c[2]) + 1)]
     IN  Deliver([type |-> "map", width |-> width, height |-> dims[2], map |-> map])

\* Tiles are read that have not been received, and put where there is no map:
\* all that the model says is that nothing sensible follows.
Overrun ==
  /\ IsRead("tiles") /\ ~IsCounted
  /\ stage' = "failed"
  /\ UNCHANGED <<size, got, held, garbage, dims, received>> /\ Quietly

ReadTileChange ==
  /\ IsRead("tileChange")
  /\ Deliver([type |-> stage, row |-> Pair[1], column |-> Pair[2],
              tile |-> TileAt(1 + DimensionsSize)])

ReadPlayerState ==
  /\ IsRead("playerState")
  /\ Deliver([type |-> stage, status |-> ByteAt(1), direction |-> ByteAt(2)])

ReadDirection == IsRead("direction") /\ Deliver([type |-> stage, direction |-> ByteAt(1)])

Deserialize ==
  \/ RejectType \/ ReadType \/ ReadMagicBytes \/ ReadDimensions \/ ReadTiles \/ Overrun
  \/ ReadTileChange \/ ReadPlayerState \/ ReadDirection

-----------------------------------------------------------------------------
\* The other side is gone with bytes unread, or its machine is.
Break ==
  /\ ~broken
  /\ broken' = TRUE
  /\ UNCHANGED <<writerVars, readerVars, stream, sent, received, cut, torn>>

WireInit ==
  /\ buffer = <<>> /\ written = 0
  /\ stream = <<>> /\ broken = FALSE
  /\ stage = "type" /\ size = 1 /\ got = 0 /\ held = <<>>
  /\ garbage = CHOOSE g \in Garbage : TRUE
  /\ dims = <<0, 0>>
  /\ sent = <<>> /\ received = <<>> /\ cut = <<>> /\ torn = FALSE

WriterRuns == (\E count \in 1 .. Len(buffer) : Write(count)) \/ WriteFails
ReaderRuns == (\E count \in 1 .. Len(stream) : Read(count)) \/ ReadFails \/ Deserialize

WireNext == WriterRuns \/ ReaderRuns \/ Break \/ \E m \in Outgoing : BeginWrite(m)

WireSpec == WireInit /\ [][WireNext]_wireVars

\* Both threads run, and the kernel takes and gives what it can.
FairWireSpec == WireSpec /\ WF_wireVars(WriterRuns) /\ WF_wireVars(ReaderRuns)

-----------------------------------------------------------------------------
\* What is read is what has been written, in order, whatever number of parts the
\* messages before came in: a message that was cut is garbled, but it does not
\* shift those behind it, unless it is a map that was cut in its dimensions.
MessagesArrive ==
  ~torn =>
    /\ stage = "failed" => broken
    /\ Len(received) <= Len(sent)
    /\ \A i \in 1 .. Len(received) :
         /\ received[i].type = sent[i].type
         /\ i \notin ToSet(cut) => received[i] = sent[i]

\* The reader never waits for bytes that do not come: what it takes for the
\* length of a message, also of a garbled one, is the length it was sent in.
AllIsRead ==
  \A n \in 1 .. MaxMessages :
    Len(sent) = n ~> Len(received) >= n \/ torn \/ broken
=============================================================================
