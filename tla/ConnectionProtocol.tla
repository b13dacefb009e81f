------------------------- MODULE ConnectionProtocol -------------------------
(***************************************************************************)
(* What the two sides of a connection may say to each other: the abstract  *)
(* specification that ClientConnection implements, and the server that     *)
(* SocketClient expects.                                                   *)
(*                                                                         *)
(* A server tells nothing at a given time, so that a message which a       *)
(* signal takes from a playing client is no step here.  Two are: the first *)
(* map, after which there is no second, and the end of the game.           *)
(***************************************************************************)
EXTENDS Socket, GameConstants

CONSTANTS
  Contents,     \* of the map, which is one tile
  PlayerStates, \* the states the server may tell: status and direction
  KeyMessages   \* what the keys make the client say

Operations == {"direction", "pause", "unpause", "respawn"}

ASSUME ProtocolAssumption ==
  /\ 0 \in Contents
  /\ \A s \in PlayerStates : s.direction \in Directions
  /\ \A m \in KeyMessages :
       /\ m.type \in Operations
       /\ m.type = "direction" => m.direction \in Directions

VARIABLE place  \* how far the server has come in what it says

protocolVars == <<socketVars, place>>

MapMessages == [type : {"map"}, map : Contents]
ShowMessages == MapMessages \cup [type : {"tileChange"}, tile : Contents]
PlayerStateMessage(s) ==
  [type |-> "playerState", status |-> s.status, direction |-> s.direction]

ProtocolInit == SocketInit /\ place = "silent"

-----------------------------------------------------------------------------
\* A message that cannot be written is as good as said.
Says(m) == SendToClient(m) \/ (reset /\ UNCHANGED socketVars)

\* What makes a server leave may be the message it reads.
SaysNothing == ServerReads \/ UNCHANGED socketVars

\* The stream has no room: only a write that waits is lost to a signal.
IsFull == Len(toClient) = BufferSize

From(here, there) == place = here /\ place' = there

ServerSide ==
  \/ From("silent", "finished") /\ Says([type |-> "gameFull"])
  \/ From("silent", "connected") /\ Says([type |-> "connected"])
  \/ From("connected", "playing") /\ \E m \in MapMessages : Says(m)
  \/ From("playing", "playing") /\ \E m \in ShowMessages : Says(m)
  \/ From("playing", "playing") /\ \E s \in PlayerStates : Says(PlayerStateMessage(s))
  \/ From("playing", "leaving") /\ SaysNothing
  \/ From("connected", "leaving") /\ ~reset /\ IsFull /\ SaysNothing
  \/ From("leaving", "finished") /\ Says([type |-> "gameEnd"])
  \/ From("leaving", "finished") /\ SaysNothing
  \/ From("finished", "closed") /\ CloseServerSide
  \/ ServerReads /\ UNCHANGED place

\* The client ends its side with a farewell or without, and whatever it has
\* not read.
ClientSide ==
  /\ ~clientClosed
  /\ \/ \E m \in KeyMessages \cup [type : {"disconnect"}] : SendToServer(m)
     \/ ClientReads
     \/ CloseClientSide

ProtocolNext == ServerSide \/ (ClientSide /\ UNCHANGED place)

ProtocolSpec == ProtocolInit /\ [][ProtocolNext]_protocolVars
=============================================================================
