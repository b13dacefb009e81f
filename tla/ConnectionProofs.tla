-------------------------- MODULE ConnectionProofs --------------------------
(***************************************************************************)
(* A connection, as the server has it and as the bytes on their way.       *)
(*                                                                         *)
(* ClientConnection, for any number of slots, any keys and any room in the *)
(* streams: its variables stay in their types, and what it says is what    *)
(* ConnectionProtocol lets a server say.                                   *)
(*                                                                         *)
(* Wire, for any messages, any sizes of their numbers, and any number of   *)
(* short reads and writes: what is read is what has been written.  First   *)
(* what a message is as bytes, and that those bytes are read as it; then   *)
(* an account of which byte of which message is where.                     *)
(***************************************************************************)
EXTENDS ClientConnection, Wire, SequenceTheorems, WellFoundedInduction, NaturalsInduction, TLAPS

-----------------------------------------------------------------------------
(* Types.                                                                  *)

ClientMessages == KeyMessages \cup [type : {"disconnect"}]
ServerMessages ==
  Protocol!ShowMessages \cup {Protocol!PlayerStateMessage(s) : s \in PlayerStates}
    \cup [type : {"gameFull", "connected", "gameEnd"}]

StreamsOK ==
  /\ toClient \in Seq(ServerMessages) /\ Len(toClient) <= BufferSize
  /\ toServer \in Seq(ClientMessages) /\ Len(toServer) <= BufferSize

\* The stages in which the connection has a player.
PlayerStages ==
  {"greeting", "mapping", "looping", "waiting", "telling", "showing", "leaving", "unregistering"}

\* Whoever has a player has given it a direction.
PlayerOK ==
  /\ sender \in PlayerStages => playerId \in PlayerIds
  /\ playerId \in PlayerIds => players[playerId].direction \in Directions

IInv == TypeOK /\ StreamsOK /\ PlayerOK

LEMMA InvariantInit == Init => IInv
<1> SUFFICES ASSUME Init PROVE IInv
  OBVIOUS
<1> USE DEF Init, SocketInit
<1>1. PlayersTypeOK
  BY DEF ConnectionInit, PlayersTypeOK, Players, Statuses, Directions
<1>2. playerId = NotRegistered /\ NotRegistered \notin PlayerIds
  BY MaxPlayersAssumption DEF ConnectionInit, NotRegistered, PlayerIds
<1>3. StreamsOK
  BY SocketAssumption DEF StreamsOK
<1>4. gameMap \in Contents
  BY MapVersionsAssumption DEF ConnectionInit, Contents
<1>t. /\ sender = "registering" /\ receiver = "checking" /\ handler = "accepting" /\ shutdown = FALSE
      /\ told = NothingTold /\ passed = 0 /\ missed = 0 /\ changed = FALSE /\ gameEnded = FALSE
  BY DEF ConnectionInit
<1>5. TypeOK
  <2>1. shutdown \in BOOLEAN /\ changed \in BOOLEAN /\ gameEnded \in BOOLEAN
    BY <1>t
  <2>2. told \in PlayerStates \cup {NothingTold} /\ playerId \in PlayerIds \cup {NotRegistered}
    BY <1>2, <1>t
  <2> HIDE DEF Init, SocketInit
  <2>3. /\ sender \in SenderStages /\ receiver \in ReceiverStages
        /\ handler \in {"accepting", "joining", "done"}
        /\ passed \in 0 .. 2 /\ missed \in 0 .. 2
    BY <1>t DEF SenderStages, ReceiverStages
  <2> QED BY <1>1, <1>3, <1>4, <2>1, <2>2, <2>3 DEF TypeOK, StreamsOK
<1> QED BY <1>2, <1>3, <1>5, <1>t DEF IInv, PlayerOK, PlayerStages

LEMMA SayingKeepsStreams ==
  ASSUME StreamsOK, NEW m \in ServerMessages, SendToClient(m)
  PROVE  StreamsOK'
BY SocketAssumption DEF StreamsOK, SendToClient

LEMMA SendKeepsTypes ==
  ASSUME IInv, NEW m \in ServerMessages, Send(m)
  PROVE  StreamsOK' /\ shutdown' \in BOOLEAN /\ receiver' \in ReceiverStages
<1>1. CASE SendToClient(m) /\ UNCHANGED <<shutdown, receiver>>
  BY <1>1, SayingKeepsStreams DEF IInv, TypeOK
<1>2. CASE reset /\ ShutDown /\ UNCHANGED socketVars
  BY <1>2 DEF IInv, TypeOK, ShutDown, AfterSignal, ReceiverStages, socketVars, StreamsOK
<1> QED BY <1>1, <1>2 DEF Send

\* What is sent, stage by stage.
LEMMA MessagesAreServerMessages ==
  ASSUME IInv
  PROVE  /\ [type |-> "gameFull"] \in ServerMessages
         /\ [type |-> "connected"] \in ServerMessages
         /\ [type |-> "gameEnd"] \in ServerMessages
         /\ MapMessage \in Protocol!MapMessages
         /\ MapMessage \in Protocol!ShowMessages
         /\ [type |-> "tileChange", tile |-> gameMap] \in Protocol!ShowMessages
         /\ Protocol!ShowMessages \subseteq ServerMessages
         /\ playerId \in PlayerIds =>
              /\ players[playerId] \in PlayerStates
              /\ PlayerStateMessage = Protocol!PlayerStateMessage(players[playerId])
              /\ PlayerStateMessage \in ServerMessages
<1>1. gameMap \in Contents
  BY DEF IInv, TypeOK
<1>2. MapMessage \in Protocol!MapMessages
  BY <1>1 DEF MapMessage, Protocol!MapMessages
<1>3. /\ MapMessage \in Protocol!ShowMessages
      /\ [type |-> "tileChange", tile |-> gameMap] \in Protocol!ShowMessages
  BY <1>1, <1>2 DEF Protocol!ShowMessages
<1>4. playerId \in PlayerIds =>
        /\ players[playerId] \in PlayerStates
        /\ PlayerStateMessage = Protocol!PlayerStateMessage(players[playerId])
  BY DEF IInv, TypeOK, PlayersTypeOK, Players, PlayerOK, PlayerStates, PlayerStateMessage,
         Protocol!PlayerStateMessage
<1> QED BY <1>2, <1>3, <1>4 DEF ServerMessages

\* An operation on the connection's player leaves it a player.
LEMMA OperationKeepsPlayers ==
  ASSUME PlayersTypeOK, NEW p \in PlayerIds, players[p].direction \in Directions,
         \/ UNCHANGED players
         \/ \E s \in Statuses : SetStatus(p, s)
         \/ \E d \in Directions : SetPlayerDirection(p, d)
  PROVE  PlayersTypeOK' /\ players'[p].direction \in Directions
BY DEF PlayersTypeOK, Players, SetStatus, SetPlayerDirection, Directions

LEMMA SenderKeepsTypes ==
  ASSUME IInv, SenderRuns
  PROVE  IInv'
<1> USE DEF IInv
<1>1. CASE RegisterPlayer
  <2>1. PICK p \in PlayerIds : Register(p) /\ playerId' = p
    BY <1>1 DEF RegisterPlayer
  <2>2. PlayersTypeOK' /\ players'[p].direction \in Directions
    BY <2>1 DEF Register, TypeOK, PlayersTypeOK, Players, Statuses, Directions
  <2>3. TypeOK'
    BY <1>1, <2>1, <2>2 DEF RegisterPlayer, GoOn, TypeOK, SenderStages, socketVars
  <2>4. StreamsOK'
    BY <1>1 DEF RegisterPlayer, socketVars, StreamsOK
  <2> QED BY <2>1, <2>2, <2>3, <2>4 DEF PlayerOK
<1>2. ASSUME \/ /\ Refuse \/ Greet \/ SendFirstMap \/ LoopCheck \/ Wake \/ TellState \/ Show \/ Leave
                /\ StreamsOK' /\ shutdown' \in BOOLEAN /\ receiver' \in ReceiverStages
             \/ CloseRefused \/ SenderShutsDown \/ Close
      PROVE  IInv'
  <2>1. /\ UNCHANGED <<players, playerId>> /\ told' \in PlayerStates \cup {NothingTold}
        /\ passed' \in 0 .. 2 /\ missed' \in 0 .. 2 /\ sender' \in SenderStages
        /\ UNCHANGED <<handler, gameMap, changed, gameEnded>>
        /\ sender' \in PlayerStages => sender \in PlayerStages
    BY <1>2, MessagesAreServerMessages
       DEF TypeOK, PlayerOK, PlayerStages, SenderStages, GoOn, Refuse, Greet, SendFirstMap, LoopCheck,
           Wake, TellState, Show, Leave, CloseRefused, SenderShutsDown, Close
  <2>2. StreamsOK' /\ shutdown' \in BOOLEAN /\ receiver' \in ReceiverStages
    BY <1>2
       DEF TypeOK, CloseRefused, SenderShutsDown, Close, CloseServerSide, ShutDown, AfterSignal,
           ReceiverStages, StreamsOK, socketVars
  <2>3. TypeOK'
    BY <2>1, <2>2 DEF TypeOK, PlayersTypeOK, StreamsOK
  <2>4. PlayerOK'
    BY <2>1 DEF PlayerOK
  <2> QED BY <2>2, <2>3, <2>4
<1>3. CASE Refuse \/ Greet \/ SendFirstMap \/ Leave
  <2>1. \/ \E m \in ServerMessages : Send(m)
        \/ UNCHANGED <<receiver, shutdown, socketVars>>
    BY <1>3, MessagesAreServerMessages DEF Refuse, Greet, SendFirstMap, Leave
  <2>2. StreamsOK' /\ shutdown' \in BOOLEAN /\ receiver' \in ReceiverStages
    BY <2>1, SendKeepsTypes DEF TypeOK, StreamsOK, socketVars
  <2> QED BY <1>2, <1>3, <2>2
<1>4. CASE LoopCheck \/ Wake \/ TellState \/ Show
  <2>1. \/ \E m \in ServerMessages : Send(m)
        \/ UNCHANGED <<receiver, shutdown, socketVars>>
    BY <1>4, MessagesAreServerMessages
       DEF LoopCheck, Wake, TellState, Show, PlayerOK, PlayerStages
  <2>2. StreamsOK' /\ shutdown' \in BOOLEAN /\ receiver' \in ReceiverStages
    BY <2>1, SendKeepsTypes DEF TypeOK, StreamsOK, socketVars
  <2> QED BY <1>2, <1>4, <2>2
<1>5. CASE UnregisterPlayer
  <2>1. playerId \in PlayerIds /\ playerId' = playerId
    BY <1>5 DEF UnregisterPlayer, PlayerOK, PlayerStages
  <2>2. \E s \in Statuses : SetStatus(playerId, s)
    BY <1>5 DEF UnregisterPlayer, Unregister, Statuses
  <2>3. PlayersTypeOK' /\ players'[playerId].direction \in Directions
    BY <2>1, <2>2, OperationKeepsPlayers DEF TypeOK, PlayerOK
  <2>4. TypeOK'
    BY <1>5, <2>3 DEF UnregisterPlayer, GoOn, TypeOK, SenderStages, socketVars
  <2>5. StreamsOK'
    BY <1>5 DEF UnregisterPlayer, socketVars, StreamsOK
  <2> QED BY <2>1, <2>3, <2>4, <2>5 DEF PlayerOK
<1> QED BY <1>1, <1>2, <1>3, <1>4, <1>5 DEF SenderRuns

\* The messages that come are the keys'.
LEMMA ReadingKeepsStreams ==
  ASSUME StreamsOK, ServerReads
  PROVE  StreamsOK' /\ Head(toServer) \in ClientMessages
<1>1. toServer \in Seq(ClientMessages) /\ toServer # <<>> /\ Len(toServer) <= BufferSize
  BY DEF StreamsOK, ServerReads
<1>2. /\ Head(toServer) \in ClientMessages /\ Tail(toServer) \in Seq(ClientMessages)
      /\ Len(Tail(toServer)) <= BufferSize
  BY <1>1, SocketAssumption
<1> QED BY <1>2 DEF StreamsOK, ServerReads

\* A signal moves the send thread on from a message, and what it has told is
\* the player's state.
LEMMA SignalKeepsTypes ==
  ASSUME IInv, SignalSender
  PROVE  /\ sender' \in SenderStages /\ told' \in PlayerStates \cup {NothingTold}
         /\ sender' \in PlayerStages => sender \in PlayerStages
<1> USE DEF IInv, TypeOK
<1>1. CASE UNCHANGED <<sender, told>>
  BY <1>1
<1>2. CASE /\ ~shutdown /\ IsBlocked
           /\ sender' = AfterWrite
           /\ told' = IF sender = "telling" THEN players[playerId] ELSE told
  <2>1. sender \in {"mapping", "telling", "showing", "leaving"}
    BY <1>2 DEF IsBlocked
  <2>2. sender' \in {"showing", "leaving", "unregistering"}
    BY <1>2, <2>1 DEF AfterWrite
  <2>3. sender \in PlayerStages /\ players[playerId] \in PlayerStates
    BY <2>1, MessagesAreServerMessages DEF PlayerOK, PlayerStages
  <2> QED BY <1>2, <2>2, <2>3 DEF SenderStages
<1> QED BY <1>1, <1>2 DEF SignalSender

LEMMA ReceiverKeepsTypes ==
  ASSUME IInv, ReceiverRuns
  PROVE  IInv'
<1> USE DEF IInv
<1>1. /\ UNCHANGED <<handler, playerId, passed, missed, gameMap, changed, gameEnded>>
      /\ UNCHANGED <<sender, told>> \/ SignalSender
  BY DEF ReceiverRuns, CheckReceiver, EnterRead, ReceiveOperation, ReceiveLast, ReceiveTooLate,
         ReceiveFails, OnlyReceiver, NotTheSender, gameVars
<1>s. /\ sender' \in SenderStages /\ told' \in PlayerStates \cup {NothingTold}
      /\ sender' \in PlayerStages => sender \in PlayerStages
  BY <1>1, SignalKeepsTypes DEF TypeOK
<1>2. shutdown' \in BOOLEAN /\ receiver' \in ReceiverStages
  BY DEF ReceiverRuns, CheckReceiver, EnterRead, ReceiveOperation, ReceiveLast, ReceiveTooLate,
         ReceiveFails, TypeOK, ReceiverStages
<1>3. StreamsOK'
  <2>1. CASE ServerReads
    BY <2>1, ReadingKeepsStreams
  <2>2. CASE UNCHANGED socketVars
    BY <2>2 DEF socketVars, StreamsOK
  <2> QED BY <2>1, <2>2 DEF ReceiverRuns, CheckReceiver, EnterRead, ReceiveOperation, ReceiveLast,
                            ReceiveTooLate, ReceiveFails
<1>4. PlayersTypeOK' /\ (playerId \in PlayerIds => players'[playerId].direction \in Directions)
  <2>1. CASE ReceiveOperation
    <3>1. playerId \in PlayerIds /\ Head(toServer) \in ClientMessages
      BY <2>1, ReadingKeepsStreams DEF ReceiveOperation, IsRegistered, TypeOK
    <3>2. Head(toServer).type = "direction" => Head(toServer).direction \in Directions
      BY <3>1, KeyMessagesAssumption DEF ClientMessages
    <3>3. \/ UNCHANGED players
          \/ \E t \in Statuses : SetStatus(playerId, t)
          \/ \E d \in Directions : SetPlayerDirection(playerId, d)
      BY <2>1, <3>2 DEF ReceiveOperation, Operate, Pause, Unpause, Respawn, Statuses
    <3> QED BY <3>1, <3>3, OperationKeepsPlayers DEF TypeOK, PlayerOK
  <2>2. CASE UNCHANGED players
    BY <2>2 DEF TypeOK, PlayersTypeOK, PlayerOK
  <2> QED BY <2>1, <2>2 DEF ReceiverRuns, CheckReceiver, EnterRead, ReceiveLast, ReceiveTooLate,
                            ReceiveFails
<1>5. TypeOK'
  BY <1>1, <1>s, <1>2, <1>3, <1>4 DEF TypeOK, StreamsOK
<1>6. PlayerOK'
  BY <1>1, <1>s, <1>4 DEF PlayerOK
<1> QED BY <1>3, <1>5, <1>6

LEMMA GameKeepsTypes ==
  ASSUME IInv, GameRuns
  PROVE  IInv'
<1> USE DEF IInv
<1>1. UNCHANGED <<sender, receiver, handler, shutdown, playerId, told, passed, socketVars>>
  BY DEF GameRuns, Tick, EndGame, OnlyGame, threadVars
<1>2. StreamsOK'
  BY <1>1 DEF socketVars, StreamsOK
<1>3. PlayersTypeOK' /\ \A p \in PlayerIds : players'[p].direction = players[p].direction
  <2>1. CASE Tick
    <3>1. PICK turn \in [PlayerIds -> Statuses] :
            /\ \A p \in PlayerIds : turn[p] \in AfterTurn(players[p].status)
            /\ players' = [p \in PlayerIds |-> [players[p] EXCEPT !.status = turn[p]]]
      BY <2>1 DEF Tick
    <3>2. ASSUME NEW p \in PlayerIds
          PROVE  /\ players'[p] \in [status : Statuses, direction : Directions \cup {"unset"}]
                 /\ players'[p].direction = players[p].direction
                 /\ players'[p].direction = "unset" => players'[p].status = "NotConnected"
      BY <3>1 DEF TypeOK, PlayersTypeOK, Players, AfterTurn
    <3> QED BY <3>1, <3>2 DEF PlayersTypeOK, Players
  <2>2. CASE EndGame
    BY <2>2 DEF EndGame, TypeOK, PlayersTypeOK
  <2> QED BY <2>1, <2>2 DEF GameRuns
<1>4. missed' \in 0 .. 2
  <2>1. missed \in 0 .. 2 /\ missed' = IF missed = 2 THEN 2 ELSE missed + 1
    BY DEF GameRuns, Tick, EndGame, TypeOK
  <2> QED BY <2>1
<1>5. gameMap' \in Contents
  <2>1. gameMap \in 0 .. MapVersions - 1 /\ gameMap' \in {gameMap, (gameMap + 1) % MapVersions}
    BY DEF GameRuns, Tick, EndGame, TypeOK, Contents
  <2>2. (gameMap + 1) % MapVersions \in 0 .. MapVersions - 1
    BY <2>1, MapVersionsAssumption
  <2> QED BY <2>1, <2>2 DEF Contents
<1>6. changed' \in BOOLEAN /\ gameEnded' \in BOOLEAN
  BY DEF GameRuns, Tick, EndGame, TypeOK
<1>7. TypeOK'
  BY <1>1, <1>2, <1>3, <1>4, <1>5, <1>6 DEF TypeOK, StreamsOK
<1>8. PlayerOK'
  BY <1>1, <1>3 DEF PlayerOK
<1> QED BY <1>2, <1>7, <1>8

LEMMA HandlerKeepsTypes ==
  ASSUME IInv, HandlerRuns
  PROVE  IInv'
<1> USE DEF IInv
<1>1. /\ UNCHANGED <<playerId, passed, missed, gameMap, changed, gameEnded, players>>
      /\ UNCHANGED <<sender, told>> \/ SignalSender
  BY DEF HandlerRuns, DestroyConnection, JoinThreads, gameVars
<1>s. /\ sender' \in SenderStages /\ told' \in PlayerStates \cup {NothingTold}
      /\ sender' \in PlayerStages => sender \in PlayerStages
  BY <1>1, SignalKeepsTypes DEF TypeOK
<1>2. UNCHANGED socketVars
  BY DEF HandlerRuns, DestroyConnection, JoinThreads
<1>3. /\ shutdown' \in BOOLEAN /\ receiver' \in ReceiverStages
      /\ handler' \in {"accepting", "joining", "done"}
  BY DEF HandlerRuns, DestroyConnection, JoinThreads, ShutDown, AfterSignal, TypeOK, ReceiverStages
<1>4. StreamsOK'
  BY <1>2 DEF socketVars, StreamsOK
<1>5. TypeOK'
  BY <1>1, <1>s, <1>3, <1>4 DEF TypeOK, PlayersTypeOK, StreamsOK
<1>6. PlayerOK'
  BY <1>1, <1>s DEF PlayerOK
<1> QED BY <1>4, <1>5, <1>6

\* The operators of ConnectionProtocol on the streams are those of Socket.
LEMMA SameSocket ==
  /\ (UNCHANGED Protocol!socketVars) <=> UNCHANGED socketVars
  /\ \A m : Protocol!SendToClient(m) <=> SendToClient(m)
  /\ \A m : Protocol!SendToServer(m) <=> SendToServer(m)
  /\ Protocol!ServerReads <=> ServerReads
  /\ Protocol!ClientReads <=> ClientReads
  /\ Protocol!CloseServerSide <=> CloseServerSide
  /\ Protocol!CloseClientSide <=> CloseClientSide
  /\ Protocol!SocketInit <=> SocketInit
  /\ Protocol!IsFull <=> Len(toClient) = BufferSize
  /\ Protocol!SaysNothing <=> ServerReads \/ UNCHANGED socketVars
BY DEF Protocol!IsFull, Protocol!SaysNothing, Protocol!socketVars, socketVars,
       Protocol!SendToClient, SendToClient, Protocol!SendToServer, SendToServer, Protocol!ServerReads, ServerReads, Protocol!ClientReads, ClientReads,
       Protocol!CloseServerSide, CloseServerSide, Protocol!CloseClientSide, CloseClientSide,
       Protocol!SocketInit, SocketInit

LEMMA ClientKeepsTypes ==
  ASSUME IInv, Protocol!ClientSide, UNCHANGED connectionVars
  PROVE  IInv'
<1> USE DEF IInv
<1>1. StreamsOK'
  <2>1. ASSUME NEW m \in ClientMessages, SendToServer(m) PROVE StreamsOK'
    BY <2>1, SocketAssumption DEF StreamsOK, SendToServer
  <2>2. CASE ClientReads
    <3>1. toClient \in Seq(ServerMessages) /\ toClient # <<>> /\ Len(toClient) <= BufferSize
      BY <2>2 DEF StreamsOK, ClientReads
    <3>2. Tail(toClient) \in Seq(ServerMessages) /\ Len(Tail(toClient)) <= BufferSize
      BY <3>1, SocketAssumption
    <3> QED BY <2>2, <3>2 DEF StreamsOK, ClientReads
  <2>3. CASE CloseClientSide
    BY <2>3 DEF CloseClientSide, StreamsOK
  <2> QED BY <2>1, <2>2, <2>3, SameSocket DEF Protocol!ClientSide, ClientMessages
<1>2. TypeOK'
  BY <1>1 DEF connectionVars, threadVars, gameVars, TypeOK, PlayersTypeOK, StreamsOK
<1>3. PlayerOK'
  BY DEF connectionVars, threadVars, PlayerOK
<1> QED BY <1>1, <1>2, <1>3

LEMMA InvariantStep == IInv /\ [Next]_vars => IInv'
<1> SUFFICES ASSUME IInv, [Next]_vars PROVE IInv'
  OBVIOUS
<1>1. CASE UNCHANGED vars
  BY <1>1 DEF vars, connectionVars, threadVars, gameVars, socketVars, IInv, TypeOK, PlayersTypeOK,
              StreamsOK, PlayerOK
<1> QED
  BY <1>1, SenderKeepsTypes, ReceiverKeepsTypes, GameKeepsTypes, HandlerKeepsTypes, ClientKeepsTypes
     DEF Next, ConnectionStep

LEMMA InvariantHolds == Spec => []IInv
BY InvariantInit, InvariantStep, PTL DEF Spec

\* The variables stay in their types: among others, no message is longer in a
\* stream than there is room, and nobody is told a state without a direction.
THEOREM TypeCorrect == Spec => []TypeOK
<1>1. IInv => TypeOK
  BY DEF IInv
<1> QED BY <1>1, InvariantHolds, PTL

-----------------------------------------------------------------------------
(* The protocol.                                                           *)

LEMMA SendSays ==
  ASSUME NEW m, Send(m)
  PROVE  Protocol!Says(m)
<1>1. CASE SendToClient(m)
  BY <1>1, SameSocket DEF Protocol!Says
<1>2. CASE reset /\ UNCHANGED socketVars
  BY <1>2, SameSocket DEF Protocol!Says
<1> QED BY <1>1, <1>2 DEF Send

LEMMA SenderPlaysItsPart ==
  ASSUME IInv, SenderRuns
  PROVE  Protocol!ServerSide \/ UNCHANGED <<socketVars, Place>>
<1> USE DEF GoOn, Place, Protocol!From, Protocol!ServerSide
<1>1. CASE RegisterPlayer \/ LoopCheck \/ Wake \/ UnregisterPlayer \/ SenderShutsDown
  BY <1>1, SameSocket
     DEF RegisterPlayer, LoopCheck, Wake, UnregisterPlayer, SenderShutsDown, SenderStages
<1>2. CASE Refuse
  BY <1>2, SendSays DEF Refuse
<1>3. CASE Greet
  BY <1>3, SendSays DEF Greet
<1>4. CASE SendFirstMap
  BY <1>4, SendSays, MessagesAreServerMessages DEF SendFirstMap
<1>5. CASE TellState
  <2>1. playerId \in PlayerIds /\ Place = "playing" /\ Place' = "playing"
    BY <1>5 DEF TellState, IInv, PlayerOK, PlayerStages
  <2>2. CASE Send(PlayerStateMessage)
    <3>1. /\ players[playerId] \in PlayerStates
          /\ Protocol!Says(Protocol!PlayerStateMessage(players[playerId]))
      BY <2>1, <2>2, SendSays, MessagesAreServerMessages
    <3> QED BY <2>1, <3>1
  <2>3. CASE UNCHANGED socketVars
    BY <2>1, <2>3
  <2> QED BY <1>5, <2>2, <2>3 DEF TellState
<1>6. CASE Show
  <2>1. Place = "playing" /\ Place' = "playing"
    BY <1>6 DEF Show
  <2>2. ASSUME NEW m \in Protocol!ShowMessages, Send(m) PROVE Protocol!ServerSide
    BY <2>1, <2>2, SendSays
  <2>3. CASE UNCHANGED socketVars
    BY <2>1, <2>3
  <2> QED BY <1>6, <2>2, <2>3, MessagesAreServerMessages DEF Show
<1>7. CASE Leave
  <2>1. Place = "leaving" /\ Place' = "finished"
    BY <1>7 DEF Leave
  <2>2. CASE Send([type |-> "gameEnd"])
    BY <2>1, <2>2, SendSays
  <2>3. CASE UNCHANGED socketVars
    BY <2>1, <2>3, SameSocket
  <2> QED BY <1>7, <2>2, <2>3 DEF Leave
<1>8. CASE CloseRefused \/ Close
  BY <1>8, SameSocket DEF CloseRefused, Close
<1> QED BY <1>1, <1>2, <1>3, <1>4, <1>5, <1>6, <1>7, <1>8 DEF SenderRuns

\* A signal takes a message from a server that plays or leaves, which may say
\* nothing, or the first map, for which there was no room.
LEMMA SignalPlaysItsPart ==
  ASSUME SignalSender, ServerReads \/ UNCHANGED socketVars
  PROVE  Protocol!ServerSide \/ UNCHANGED <<socketVars, Place>>
<1> USE SameSocket DEF Place, Protocol!From, Protocol!ServerSide
<1>1. CASE UNCHANGED <<sender, told>>
  BY <1>1
<1>2. CASE IsBlocked /\ sender' = AfterWrite
  <2>1. CASE sender = "mapping"
    <3>1. Place = "connected" /\ Place' = "leaving" /\ ~reset /\ Protocol!IsFull
      BY <1>2, <2>1 DEF IsBlocked, AfterWrite
    <3> QED BY <3>1
  <2>2. CASE sender = "telling"
    <3>1. Place = "playing" /\ Place' = "playing"
      BY <1>2, <2>2 DEF AfterWrite
    <3> QED BY <3>1
  <2>3. CASE sender = "showing"
    <3>1. Place = "playing" /\ Place' = "leaving"
      BY <1>2, <2>3 DEF AfterWrite
    <3> QED BY <3>1
  <2>4. CASE sender = "leaving"
    <3>1. Place = "leaving" /\ Place' = "finished"
      BY <1>2, <2>4 DEF AfterWrite
    <3> QED BY <3>1
  <2> QED BY <1>2, <2>1, <2>2, <2>3, <2>4 DEF IsBlocked
<1> QED BY <1>1, <1>2 DEF SignalSender

LEMMA ProtocolStep == IInv /\ [Next]_vars => [Protocol!ProtocolNext]_Protocol!protocolVars
<1> SUFFICES ASSUME IInv, [Next]_vars
             PROVE  Protocol!ProtocolNext \/ UNCHANGED <<socketVars, Place>>
  BY SameSocket DEF Protocol!protocolVars
<1>1. CASE SenderRuns
  BY <1>1, SenderPlaysItsPart DEF Protocol!ProtocolNext
<1>2. CASE ReceiverRuns
  <2>1. SignalSender /\ (ServerReads \/ UNCHANGED socketVars)
    BY <1>2 DEF ReceiverRuns, CheckReceiver, EnterRead, ReceiveOperation, ReceiveLast, ReceiveTooLate,
                ReceiveFails, OnlyReceiver, SignalSender
  <2> QED BY <2>1, SignalPlaysItsPart DEF Protocol!ProtocolNext
<1>3. CASE GameRuns
  BY <1>3 DEF GameRuns, Tick, EndGame, OnlyGame, threadVars, Place
<1>4. CASE HandlerRuns
  <2>1. SignalSender /\ UNCHANGED socketVars
    BY <1>4 DEF HandlerRuns, DestroyConnection, JoinThreads, SignalSender
  <2> QED BY <2>1, SignalPlaysItsPart DEF Protocol!ProtocolNext
<1>5. CASE Protocol!ClientSide /\ UNCHANGED connectionVars
  BY <1>5 DEF connectionVars, threadVars, Place, Protocol!ProtocolNext
<1>6. CASE UNCHANGED vars
  BY <1>6 DEF vars, connectionVars, threadVars, Place
<1> QED BY <1>1, <1>2, <1>3, <1>4, <1>5, <1>6 DEF Next, ConnectionStep

LEMMA ProtocolStart == Init => Protocol!ProtocolInit
BY SameSocket DEF Init, ConnectionInit, Protocol!ProtocolInit, Place

\* Whatever the ticks, the client and the handler do in between, the send thread
\* says what ConnectionProtocol lets a server say, in that order: also when a
\* write fails, when the connection is shut down half-way, and when the signal of
\* the thread that does so takes a message from a write that waits for room
\* (client_connection.c:22-30, socket.c:116).
THEOREM ConnectionKeepsToProtocol == Spec => ImplementsProtocol
BY ProtocolStart, ProtocolStep, InvariantHolds, PTL DEF Spec, ImplementsProtocol, Protocol!ProtocolSpec

-----------------------------------------------------------------------------
(* Numbers.                                                                *)

\* A set of numbers that is not empty has a least one.
LEMMA LeastNumber ==
  ASSUME NEW S \in SUBSET Nat, S # {}
  PROVE  \E m \in S : \A k \in S : m <= k
<1>1. PICK m \in S : \A k \in S : ~(<<k, m>> \in OpToRel(<, Nat))
  <2>1. S \subseteq Nat /\ S # {}
    OBVIOUS
  <2> QED BY <2>1, NatLessThanWellFounded, WFMin
<1>2. \A k \in S : ~(k < m)
  BY <1>1 DEF OpToRel
<1> QED BY <1>2

\* Numbers: a set with zero that is closed under successors has them all.
LEMMA Induction ==
  ASSUME NEW S \in SUBSET Nat, 0 \in S, \A m \in S : m + 1 \in S
  PROVE  S = Nat
<1> SUFFICES ASSUME Nat \ S # {} PROVE FALSE
  OBVIOUS
<1>1. PICK m \in Nat \ S : \A k \in Nat \ S : m <= k
  BY LeastNumber
<1>2. m - 1 \in S
  BY <1>1
<1> QED BY <1>1, <1>2

\* What the recursion says of powers.
LEMMA Capacities ==
  /\ Capacity[0] = 1
  /\ \A n \in Nat : Capacity[n] \in Nat /\ Capacity[n + 1] = Base * Capacity[n]
<1> DEFINE Steps(h, m) == \A i \in 0 .. m : h[i] = IF i = 0 THEN 1 ELSE Base * h[i - 1]
           Some == {m \in Nat : \E h : Steps(h, m)}
           Same == {m \in Nat : \A h, g : Steps(h, m) /\ Steps(g, m) => h[m] = g[m]}
<1>1. Some = Nat
  <2>1. 0 \in Some
    <3>1. Steps([i \in 0 .. 0 |-> 1], 0)
      OBVIOUS
    <3> HIDE DEF Steps
    <3> QED BY <3>1
  <2>2. ASSUME NEW m \in Some PROVE m + 1 \in Some
    <3>1. m \in Nat /\ \E h : Steps(h, m)
      OBVIOUS
    <3>2. PICK h : Steps(h, m)
      BY <3>1
    <3> DEFINE g == [i \in 0 .. m + 1 |-> IF i = m + 1 THEN Base * h[m] ELSE h[i]]
    <3>3. Steps(g, m + 1)
      BY <3>1, <3>2
    <3> HIDE DEF Steps, g
    <3> QED BY <3>1, <3>3
  <2> HIDE DEF Some
  <2>3. Some \subseteq Nat
    BY DEF Some
  <2> QED BY <2>1, <2>2, <2>3, Induction
<1>2. Same = Nat
  <2>1. 0 \in Same
    OBVIOUS
  <2>2. ASSUME NEW m \in Same PROVE m + 1 \in Same
    <3>1. ASSUME NEW h, NEW g, Steps(h, m + 1), Steps(g, m + 1)
          PROVE  h[m + 1] = g[m + 1]
      <4>1. m \in Nat
        OBVIOUS
      <4>2. Steps(h, m) /\ Steps(g, m)
        BY <3>1, <4>1
      <4>3. h[m] = g[m]
        BY <4>2
      <4>4. h[m + 1] = Base * h[m] /\ g[m + 1] = Base * g[m]
        BY <3>1, <4>1
      <4> QED BY <4>3, <4>4
    <3>2. m + 1 \in Nat
      OBVIOUS
    <3> HIDE DEF Steps
    <3> QED BY <3>1, <3>2
  <2> HIDE DEF Same
  <2>3. Same \subseteq Nat
    BY DEF Same
  <2> QED BY <2>1, <2>2, <2>3, Induction
<1> DEFINE H(n) == CHOOSE h : Steps(h, n)
           F == [n \in Nat |-> H(n)[n]]
<1>3. \A n \in Nat : Steps(H(n), n)
  <2> HIDE DEF Steps
  <2> QED BY <1>1
<1>4. ASSUME NEW n \in Nat PROVE F[n] = IF n = 0 THEN 1 ELSE Base * F[n - 1]
  <2>1. CASE n = 0
    <3> HIDE DEF H
    <3>1. H(0)[0] = 1
      BY <1>3
    <3> QED BY <2>1, <3>1
  <2>2. CASE n # 0
    <3>1. n - 1 \in Nat
      BY <2>2
    <3> HIDE DEF H
    <3>2. Steps(H(n), n) /\ Steps(H(n - 1), n - 1)
      BY <1>3, <3>1
    <3>3. H(n)[n] = Base * H(n)[n - 1] /\ Steps(H(n), n - 1)
      BY <2>2, <3>2
    <3>4. n - 1 \in Same
      BY <1>2, <3>1
    <3>5. H(n)[n - 1] = H(n - 1)[n - 1]
      BY <3>2, <3>3, <3>4
    <3> QED BY <2>2, <3>1, <3>3, <3>5
  <2> QED BY <2>1, <2>2
<1>5. F = [n \in Nat |-> IF n = 0 THEN 1 ELSE Base * F[n - 1]]
  <2>1. DOMAIN F = Nat /\ F = [n \in Nat |-> F[n]]
    OBVIOUS
  <2> HIDE DEF F
  <2> QED BY <1>4, <2>1
<1>6. Capacity = [n \in Nat |-> IF n = 0 THEN 1 ELSE Base * Capacity[n - 1]]
  <2> HIDE DEF F
  <2> QED BY <1>5 DEF Capacity
<1>7. /\ Capacity[0] = 1
      /\ \A n \in Nat : Capacity[n + 1] = Base * Capacity[n]
  <2>1. \A n \in Nat : n + 1 \in Nat /\ n + 1 # 0 /\ (n + 1) - 1 = n
    OBVIOUS
  <2> QED BY <1>6, <2>1
<1>8. \A n \in Nat : Capacity[n] \in Nat
  <2> DEFINE N == {n \in Nat : Capacity[n] \in Nat}
  <2>1. 0 \in N
    BY <1>7
  <2>2. ASSUME NEW n \in N PROVE n + 1 \in N
    <3>1. n \in Nat /\ Capacity[n] \in Nat /\ Base \in Nat
      BY WireAssumption
    <3>2. Base * Capacity[n] \in Nat
      BY <3>1
    <3> QED BY <1>7, <3>1, <3>2
  <2>3. N \subseteq Nat
    OBVIOUS
  <2> HIDE DEF N
  <2>4. N = Nat
    BY <2>1, <2>2, <2>3, Induction
  <2> QED BY <2>4 DEF N
<1> QED BY <1>7, <1>8

\* The digits of a number, as the recursion takes them off.
DigitsFrom(r, n, count) ==
  /\ r[1] = n
  /\ \A i \in 1 .. count : r[i + 1] = r[i] \div Base
  /\ Digits(n, count) = [i \in 1 .. count |-> r[i] % Base]

\* The recursion of Digits has a solution.
LEMMA DigitsAre ==
  ASSUME NEW n \in Nat, NEW count \in Nat \ {0}
  PROVE  \E r : DigitsFrom(r, n, count)
<1> DEFINE Iter(h, m) == h = [i \in 1 .. m |-> IF i = 1 THEN n ELSE h[i - 1] \div Base]
           Some == {m \in Nat : \E h : Iter(h, m + 1)}
<1>1. 0 \in Some
  <2>1. Iter([i \in 1 .. 0 + 1 |-> n], 0 + 1)
    OBVIOUS
  <2> HIDE DEF Iter
  <2> QED BY <2>1
<1>2. ASSUME NEW m \in Some PROVE m + 1 \in Some
  <2>1. m \in Nat /\ \E h : Iter(h, m + 1)
    OBVIOUS
  <2>2. PICK h : Iter(h, m + 1)
    BY <2>1
  <2> DEFINE k == m + 1 + 1
             g == [i \in 1 .. k |-> IF i = k THEN h[m + 1] \div Base ELSE h[i]]
  <2>3. \A i \in 1 .. m + 1 : h[i] = IF i = 1 THEN n ELSE h[i - 1] \div Base
    BY <2>2
  <2>4. \A i \in 1 .. k : g[i] = IF i = 1 THEN n ELSE g[i - 1] \div Base
    BY <2>1, <2>3
  <2>5. g = [i \in 1 .. k |-> g[i]]
    OBVIOUS
  <2>6. Iter(g, k)
    <3> HIDE DEF g, k
    <3> QED BY <2>4, <2>5
  <2> HIDE DEF Iter, g
  <2> QED BY <2>1, <2>6
<1>3. Some = Nat
  <2>1. Some \subseteq Nat
    OBVIOUS
  <2> HIDE DEF Some
  <2> QED BY <1>1, <1>2, <2>1, Induction
<1>4. \E h : Iter(h, count)
  <2>1. count - 1 \in Nat /\ (count - 1) + 1 = count
    OBVIOUS
  <2> HIDE DEF Some
  <2>2. count - 1 \in Some
    BY <1>3, <2>1
  <2> USE DEF Some
  <2> HIDE DEF Iter
  <2> QED BY <2>1, <2>2
<1> DEFINE rest == CHOOSE h : Iter(h, count)
<1>5. Iter(rest, count)
  <2> HIDE DEF Iter
  <2> QED BY <1>4
<1>6. Digits(n, count) = [i \in 1 .. count |-> rest[i] % Base]
  BY DEF Digits
<1> HIDE DEF rest
<1> DEFINE r == [i \in 1 .. count + 1 |-> IF i = count + 1 THEN rest[count] \div Base ELSE rest[i]]
<1>7. \A i \in 1 .. count : rest[i] = IF i = 1 THEN n ELSE rest[i - 1] \div Base
  BY <1>5
<1>8. /\ r[1] = n /\ \A i \in 1 .. count : r[i + 1] = r[i] \div Base
      /\ \A i \in 1 .. count : r[i] = rest[i]
  BY <1>7
<1> HIDE DEF r
<1>9. DigitsFrom(r, n, count)
  BY <1>6, <1>8 DEF DigitsFrom
<1> QED BY <1>9

\* A digit is a byte, and what is left of a number that fits is nothing.
LEMMA DigitsFit ==
  ASSUME NEW count \in Nat \ {0}, NEW n \in Unsigned(count), NEW r, DigitsFrom(r, n, count)
  PROVE  /\ \A i \in 1 .. count + 1 : r[i] \in Nat
         /\ \A i \in 1 .. count : r[i] % Base \in Bytes /\ r[i] = Shift(r[i] % Base, r[i + 1])
         /\ r[count + 1] = 0
<1>b. Base \in Nat /\ Base > 1
  BY WireAssumption DEF Types
<1>c. \A k \in Nat : Capacity[k] \in Nat /\ Capacity[k + 1] = Base * Capacity[k]
  BY Capacities
<1>r. r[1] = n /\ \A i \in 1 .. count : r[i + 1] = r[i] \div Base
  BY DEF DigitsFrom
<1>d. \A x \in Nat : /\ x \div Base \in Nat /\ x % Base \in 0 .. Base - 1
                     /\ x = (x % Base) + Base * (x \div Base)
  BY <1>b
<1> DEFINE S == {i \in Nat : i <= count => r[i + 1] \in Nat /\ r[i + 1] < Capacity[count - i]}
<1>1. 0 \in S
  <2>1. n \in Nat /\ n < Capacity[count]
    BY <1>c DEF Unsigned
  <2> QED BY <1>r, <2>1
<1>2. ASSUME NEW i \in S PROVE i + 1 \in S
  <2>1. SUFFICES ASSUME i + 1 <= count
                 PROVE  r[i + 2] \in Nat /\ r[i + 2] < Capacity[count - (i + 1)]
    OBVIOUS
  <2> DEFINE x == r[i + 1]
             q == Capacity[count - (i + 1)]
  <2>2. i \in Nat /\ i + 1 \in 1 .. count /\ count - (i + 1) \in Nat /\ (count - (i + 1)) + 1 = count - i
    BY <2>1
  <2>3. x \in Nat /\ x < Capacity[count - i]
    BY <2>1
  <2>4. q \in Nat /\ Capacity[count - i] = Base * q
    BY <1>c, <2>2
  <2>5. r[i + 2] = x \div Base
    <3>1. r[(i + 1) + 1] = r[i + 1] \div Base
      BY <1>r, <2>2
    <3> QED BY <2>2, <3>1
  <2> HIDE DEF x, q
  <2>6. x \div Base < q /\ x \div Base \in Nat
    BY <1>b, <2>3, <2>4
  <2> QED BY <2>5, <2>6 DEF q
<1>3. S = Nat
  <2>1. S \subseteq Nat
    OBVIOUS
  <2> HIDE DEF S
  <2> QED BY <1>1, <1>2, <2>1, Induction
<1>4. \A i \in 1 .. count + 1 : r[i] \in Nat
  <2>1. ASSUME NEW i \in 1 .. count + 1 PROVE r[i] \in Nat
    <3>1. i - 1 \in Nat /\ i - 1 <= count /\ (i - 1) + 1 = i
      OBVIOUS
    <3> HIDE DEF S
    <3>2. i - 1 \in S
      BY <1>3, <3>1
    <3> QED BY <3>1, <3>2 DEF S
  <2> QED BY <2>1
<1>5. r[count + 1] = 0
  <2> HIDE DEF S
  <2>0. count \in S
    BY <1>3
  <2> USE DEF S
  <2>1. count \in S /\ count - count = 0 /\ count <= count
    BY <2>0
  <2>2. r[count + 1] \in Nat /\ r[count + 1] < Capacity[0] /\ Capacity[0] = 1
    BY <2>1, Capacities
  <2> QED BY <2>2
<1>6. ASSUME NEW i \in 1 .. count
      PROVE  r[i] % Base \in Bytes /\ r[i] = Shift(r[i] % Base, r[i + 1])
  <2>1. r[i] \in Nat /\ r[i + 1] = r[i] \div Base
    BY <1>r, <1>4
  <2> QED BY <1>d, <2>1 DEF Bytes, Shift
<1> QED BY <1>4, <1>5, <1>6

\* What Number folds, from the last byte on.
NumberFrom(g, bytes, n) ==
  /\ g[n + 1] = 0
  /\ \A i \in 1 .. n : g[i] = Shift(bytes[i], g[i + 1])
  /\ Number(bytes) = g[1]

\* Where an interval begins is its least element.
LEMMA MinIsFirst ==
  ASSUME NEW n \in Nat, NEW m \in Nat, NEW S \in SUBSET (m .. n), m \in S
  PROVE  Min(S) = m
<1>1. \A y \in S : m <= y
  OBVIOUS
<1>2. ASSUME NEW x \in S, \A y \in S : x <= y PROVE x = m
  BY <1>2
<1> QED BY <1>1, <1>2 DEF Min

\* The fold of Number has a solution.
LEMMA NumberFold ==
  ASSUME NEW bytes, NEW n \in Nat, DOMAIN bytes = 1 .. n
  PROVE  \E g : NumberFrom(g, bytes, n)
<1> DEFINE Rest(m) == (n - m + 1) .. n
           Iter(h, m) ==
             h = [s \in SUBSET Rest(m) |-> IF s = {} THEN 0
                                           ELSE Shift(bytes[Min(s)], h[s \ {Min(s)}])]
           Iterated == {m \in Nat : m <= n => \E h : Iter(h, m)}
<1>m. ASSUME NEW m \in 1 .. n, NEW s \in SUBSET Rest(m), n - m + 1 \in s
      PROVE  Min(s) = n - m + 1
  <2> DEFINE k == n - m + 1
  <2>1. k \in Nat /\ s \subseteq k .. n /\ k \in s
    BY <1>m
  <2> HIDE DEF k, Rest
  <2>2. Min(s) = k
    BY <2>1, MinIsFirst
  <2> QED BY <2>2 DEF k
<1>1. 0 \in Iterated
  <2>1. SUBSET Rest(0) = {{}}
    OBVIOUS
  <2>2. Iter([s \in SUBSET Rest(0) |-> 0], 0)
    BY <2>1
  <2> HIDE DEF Iter
  <2> QED BY <2>2
<1>2. ASSUME NEW m \in Iterated PROVE m + 1 \in Iterated
  <2>a. m \in Nat /\ (m <= n => \E h : Iter(h, m))
    <3> HIDE DEF Iter
    <3> QED OBVIOUS
  <2>0. SUFFICES ASSUME m + 1 <= n PROVE \E h : Iter(h, m + 1)
    <3> HIDE DEF Iter
    <3> QED BY <2>a
  <2>b. m \in Nat /\ m <= n
    BY <2>a, <2>0
  <2>1. PICK h : Iter(h, m)
    BY <2>a, <2>b
  <2> DEFINE i == n - (m + 1) + 1
             h2 == [s \in SUBSET Rest(m + 1) |->
                      IF i \in s THEN Shift(bytes[i], h[s \ {i}]) ELSE h[s]]
  <2>2. /\ i \in 1 .. n /\ m + 1 \in 1 .. n
        /\ \A s \in SUBSET Rest(m + 1) : i \notin s => s \in SUBSET Rest(m)
    BY <2>b, <2>0
  <2>3. ASSUME NEW s \in SUBSET Rest(m + 1)
        PROVE  h2[s] = IF s = {} THEN 0 ELSE Shift(bytes[Min(s)], h2[s \ {Min(s)}])
    <3>1. CASE i \in s
      <4>1. Min(s) = i
        BY <1>m, <2>2, <3>1
      <4>2. s \ {i} \in SUBSET Rest(m + 1) /\ i \notin s \ {i}
        OBVIOUS
      <4>3. h2[s] = Shift(bytes[i], h[s \ {i}]) /\ h2[s \ {i}] = h[s \ {i}]
        BY <3>1, <4>2
      <4> HIDE DEF h2, i
      <4> QED BY <3>1, <4>1, <4>3
    <3>2. CASE i \notin s
      <4>1. s \in SUBSET Rest(m) /\ s \ {Min(s)} \in SUBSET Rest(m + 1) /\ i \notin s \ {Min(s)}
        BY <2>2, <3>2
      <4>2. h2[s] = h[s] /\ h2[s \ {Min(s)}] = h[s \ {Min(s)}]
        BY <3>2, <4>1
      <4>3. h[s] = IF s = {} THEN 0 ELSE Shift(bytes[Min(s)], h[s \ {Min(s)}])
        BY <2>1, <4>1
      <4> HIDE DEF h2
      <4> QED BY <4>2, <4>3
    <3> QED BY <3>1, <3>2
  <2>4. Iter(h2, m + 1)
    BY <2>3
  <2> HIDE DEF Iter, h2
  <2> QED BY <2>a, <2>4
<1>3. Iterated = Nat
  <2>1. Iterated \subseteq Nat
    OBVIOUS
  <2> HIDE DEF Iterated
  <2> QED BY <1>1, <1>2, <2>1, Induction
<1>4. \E h : Iter(h, n)
  <2> HIDE DEF Iterated
  <2>1. n \in Iterated
    BY <1>3
  <2> USE DEF Iterated
  <2> HIDE DEF Iter
  <2> QED BY <2>1
<1> DEFINE f == CHOOSE h_ : Iter(h_, n)
<1>5. Iter(f, n)
  <2> HIDE DEF Iter
  <2> QED BY <1>4
<1>6. Number(bytes) = f[1 .. n]
  <2>1. Rest(n) = 1 .. n
    OBVIOUS
  <2> QED BY <2>1 DEF Number, FoldRight, MapThenFoldSet
<1> HIDE DEF f
<1> DEFINE g == [i \in 1 .. n + 1 |-> f[i .. n]]
<1>l. Rest(n) = 1 .. n
  OBVIOUS
<1>7. g[n + 1] = 0 /\ g[1] = f[1 .. n]
  <2>1. (n + 1) .. n = {} /\ f[{}] = 0
    BY <1>5
  <2> QED BY <2>1
<1>8. ASSUME NEW i \in 1 .. n PROVE g[i] = Shift(bytes[i], g[i + 1])
  <2>1. i .. n \subseteq Rest(n) /\ i \in i .. n /\ i \in Nat
    BY <1>l
  <2>2. Min(i .. n) = i
    BY <2>1, MinIsFirst
  <2>3. (i .. n) \ {i} = (i + 1) .. n /\ i .. n # {}
    OBVIOUS
  <2>4. f[i .. n] = Shift(bytes[Min(i .. n)], f[(i .. n) \ {Min(i .. n)}])
    BY <1>5, <2>1, <2>3
  <2>5. f[i .. n] = Shift(bytes[i], f[(i + 1) .. n])
    BY <2>2, <2>3, <2>4
  <2> QED BY <2>5
<1> HIDE DEF g, Iter
<1>9. NumberFrom(g, bytes, n)
  BY <1>6, <1>7, <1>8 DEF NumberFrom
<1> QED BY <1>9

\* The bytes of a number are read as that number.
LEMMA NumberOfDigits ==
  ASSUME NEW count \in Nat \ {0}, NEW n \in Unsigned(count)
  PROVE  Number(Digits(n, count)) = n
<1>0. n \in Nat
  BY Capacities DEF Unsigned
<1>1. PICK r : DigitsFrom(r, n, count)
  BY <1>0, DigitsAre
<1>2. /\ \A i \in 1 .. count + 1 : r[i] \in Nat
      /\ \A i \in 1 .. count : r[i] % Base \in Bytes /\ r[i] = Shift(r[i] % Base, r[i + 1])
      /\ r[count + 1] = 0
  BY <1>1, DigitsFit
<1>3. /\ DOMAIN Digits(n, count) = 1 .. count
      /\ \A i \in 1 .. count : Digits(n, count)[i] = r[i] % Base
  BY <1>1 DEF DigitsFrom
<1>4. PICK g : NumberFrom(g, Digits(n, count), count)
  BY <1>3, NumberFold
<1> DEFINE S == {i \in Nat : i <= count => g[count + 1 - i] = r[count + 1 - i]}
<1>5. 0 \in S
  BY <1>2, <1>4 DEF NumberFrom
<1>6. ASSUME NEW i \in S PROVE i + 1 \in S
  <2>1. SUFFICES ASSUME i + 1 <= count PROVE g[count - i] = r[count - i]
    OBVIOUS
  <2>2. count - i \in 1 .. count /\ (count - i) + 1 = count + 1 - i
    BY <2>1
  <2>3. g[(count - i) + 1] = r[(count - i) + 1]
    BY <2>1, <2>2
  <2>4. g[count - i] = Shift(r[count - i] % Base, g[(count - i) + 1])
    BY <1>3, <1>4, <2>2 DEF NumberFrom
  <2> QED BY <1>2, <2>2, <2>3, <2>4
<1>7. S = Nat
  <2>1. S \subseteq Nat
    OBVIOUS
  <2> HIDE DEF S
  <2> QED BY <1>5, <1>6, <2>1, Induction
<1>8. g[1] = r[1]
  <2>1. count + 1 - count = 1 /\ count <= count
    OBVIOUS
  <2> HIDE DEF S
  <2>2. count \in S
    BY <1>7
  <2> QED BY <2>1, <2>2 DEF S
<1> QED BY <1>1, <1>4, <1>8 DEF DigitsFrom, NumberFrom

-----------------------------------------------------------------------------
(* Messages.                                                               *)

\* Chunk i of n ends before chunk n does.
LEMMA InChunks ==
  ASSUME NEW n \in Nat, NEW length \in Nat, NEW i \in 1 .. n, NEW j \in 1 .. length
  PROVE  (i - 1) * length + j \in 1 .. n * length
<1>1. (i - 1) * length \in Nat /\ n * length = (i - 1) * length + (n - i) * length + length
  OBVIOUS
<1>2. (n - i) * length \in Nat
  OBVIOUS
<1> DEFINE a == (i - 1) * length
           b == (n - i) * length
           c == n * length
<1>3. a \in Nat /\ b \in Nat /\ c = a + b + length
  BY <1>1, <1>2
<1> HIDE DEF a, b, c
<1>4. a + j \in 1 .. c
  BY <1>3
<1> QED BY <1>4 DEF a, c

\* One sequence behind another.
IsJoined(b, s, t) ==
  /\ b \in Seq(Bytes) /\ Len(b) = Len(s) + Len(t)
  /\ \A i \in 1 .. Len(s) : b[i] = s[i]
  /\ \A i \in 1 .. Len(t) : b[Len(s) + i] = t[i]

\* \o puts one sequence behind another.
LEMMA Joined ==
  ASSUME NEW s \in Seq(Bytes), NEW t \in Seq(Bytes)
  PROVE  IsJoined(s \o t, s, t)
BY DEF IsJoined

\* Chunks of one length, one after the other.
IsFlat(flat, chunks, n, length) ==
  /\ Len(flat) = n * length
  /\ \A i \in 1 .. n, j \in 1 .. length : flat[(i - 1) * length + j] = chunks[i][j]

\* FlattenSeq puts chunks of one length one after the other.
LEMMA Flattened ==
  ASSUME NEW n \in Nat, NEW length \in Nat, NEW chunks \in [1 .. n -> Seq(Bytes)],
         \A i \in 1 .. n : Len(chunks[i]) = length
  PROVE  FlattenSeq(chunks) \in Seq(Bytes) /\ IsFlat(FlattenSeq(chunks), chunks, n, length)
<1>0. Len(chunks) = n
  OBVIOUS
<1>1. CASE n = 0
  <2>1. FlattenSeq(chunks) = chunks
    BY <1>0, <1>1 DEF FlattenSeq
  <2>2. chunks \in Seq(Bytes) /\ n * length = 0
    BY <1>1
  <2> QED BY <1>0, <1>1, <2>1, <2>2 DEF IsFlat
<1>2. CASE n # 0
  <2> DEFINE Iter(h, m) == h = [i \in 1 .. m |-> IF i = 1 THEN chunks[i] ELSE h[i - 1] \o chunks[i]]
             Some == {m \in Nat : \E h : Iter(h, m + 1)}
  <2>1. 0 \in Some
    <3>1. Iter([i \in 1 .. 0 + 1 |-> chunks[i]], 0 + 1)
      OBVIOUS
    <3> HIDE DEF Iter
    <3> QED BY <3>1
  <2>2. ASSUME NEW m \in Some PROVE m + 1 \in Some
    <3>1. m \in Nat /\ \E h : Iter(h, m + 1)
      OBVIOUS
    <3>2. PICK h : Iter(h, m + 1)
      BY <3>1
    <3> DEFINE k == m + 1 + 1
               g == [i \in 1 .. k |-> IF i = k THEN h[m + 1] \o chunks[k] ELSE h[i]]
    <3>3. \A i \in 1 .. m + 1 : h[i] = IF i = 1 THEN chunks[i] ELSE h[i - 1] \o chunks[i]
      BY <3>2
    <3>4. \A i \in 1 .. k : g[i] = IF i = 1 THEN chunks[i] ELSE g[i - 1] \o chunks[i]
      BY <3>1, <3>3
    <3>5. g = [i \in 1 .. k |-> g[i]]
      OBVIOUS
    <3>6. Iter(g, k)
      <4> HIDE DEF g, k
      <4> QED BY <3>4, <3>5
    <3> HIDE DEF Iter, g
    <3> QED BY <3>1, <3>6
  <2>3. Some = Nat
    <3>1. Some \subseteq Nat
      OBVIOUS
    <3> HIDE DEF Some
    <3> QED BY <2>1, <2>2, <3>1, Induction
  <2>4. \E h : Iter(h, n)
    <3>1. n - 1 \in Nat /\ (n - 1) + 1 = n
      BY <1>2
    <3> HIDE DEF Some
    <3>2. n - 1 \in Some
      BY <2>3, <3>1
    <3> USE DEF Some
    <3> HIDE DEF Iter
    <3> QED BY <3>1, <3>2
  <2> DEFINE f == CHOOSE h_ : Iter(h_, n)
  <2>5. Iter(f, n)
    <3> HIDE DEF Iter
    <3> QED BY <2>4
  <2>6. FlattenSeq(chunks) = f[n]
    BY <1>0, <1>2 DEF FlattenSeq
  <2> HIDE DEF f
  <2>7. \A i \in 1 .. n : f[i] = IF i = 1 THEN chunks[i] ELSE f[i - 1] \o chunks[i]
    BY <2>5
  <2> HIDE DEF Iter
  <2> DEFINE Good(m) == f[m] \in Seq(Bytes) /\ IsFlat(f[m], chunks, m, length)
             S == {m \in Nat : m + 1 <= n => Good(m + 1)}
  <2>8. 0 \in S
    <3>1. f[1] = chunks[1] /\ chunks[1] \in Seq(Bytes) /\ Len(chunks[1]) = length
      BY <1>2, <2>7
    <3>2. \A i \in 1 .. 1, j \in 1 .. length : i = 1 /\ (i - 1) * length + j = j
      OBVIOUS
    <3>3. 1 * length = length
      OBVIOUS
    <3>4. Good(1)
      BY <3>1, <3>2, <3>3 DEF IsFlat
    <3> HIDE DEF Good
    <3> QED BY <3>4
  <2>9. ASSUME NEW m \in S PROVE m + 1 \in S
    <3>1. SUFFICES ASSUME m + 1 + 1 <= n PROVE Good(m + 1 + 1)
      <4> HIDE DEF Good
      <4> QED OBVIOUS
    <3> DEFINE k == m + 1
    <3>2. k \in Nat /\ k + 1 \in 1 .. n /\ k + 1 # 1 /\ (k + 1) - 1 = k /\ k <= n
      BY <3>1
    <3>3. Good(k)
      <4> HIDE DEF Good
      <4> QED BY <3>2
    <3> HIDE DEF k, S
    <3>4. f[k + 1] = f[k] \o chunks[k + 1]
      BY <2>7, <3>2
    <3>5. Len(chunks[k + 1]) = length /\ chunks[k + 1] \in Seq(Bytes)
      BY <3>2
    <3>6. k * length \in Nat /\ (k + 1) * length = k * length + length
      BY <3>2
    <3> DEFINE done == k * length
    <3>7. Len(f[k]) = done /\ f[k] \in Seq(Bytes) /\ done \in Nat
      BY <3>3, <3>6 DEF IsFlat
    <3> DEFINE joined == f[k] \o chunks[k + 1]
    <3>j. IsJoined(joined, f[k], chunks[k + 1])
      BY <3>5, <3>7, Joined
    <3>8. Len(f[k + 1]) = done + length /\ f[k + 1] \in Seq(Bytes)
      <4> HIDE DEF done, joined
      <4>1. Len(joined) = done + length /\ joined \in Seq(Bytes)
        BY <3>5, <3>7, <3>j DEF IsJoined
      <4> QED BY <3>4, <4>1 DEF joined
    <3>9. /\ \A x \in 1 .. done : f[k + 1][x] = f[k][x]
          /\ \A j \in 1 .. length : f[k + 1][done + j] = chunks[k + 1][j]
      <4> HIDE DEF done, joined
      <4>1. /\ \A x \in 1 .. done : joined[x] = f[k][x]
            /\ \A j \in 1 .. length : joined[done + j] = chunks[k + 1][j]
        BY <3>5, <3>7, <3>j DEF IsJoined
      <4> QED BY <3>4, <4>1 DEF joined
    <3>10. ASSUME NEW i \in 1 .. k + 1, NEW j \in 1 .. length
           PROVE  f[k + 1][(i - 1) * length + j] = chunks[i][j]
      <4>1. CASE i = k + 1
        BY <3>2, <3>9, <4>1
      <4>2. CASE i # k + 1
        <5>1. i \in 1 .. k
          BY <3>2, <4>2
        <5>2. (i - 1) * length + j \in 1 .. done
          BY <3>2, <5>1, InChunks
        <5>3. f[k][(i - 1) * length + j] = chunks[i][j]
          BY <3>3, <5>1 DEF IsFlat
        <5> HIDE DEF done
        <5> QED BY <3>9, <5>2, <5>3
      <4> QED BY <4>1, <4>2
    <3>11. Good(k + 1)
      BY <3>6, <3>8, <3>10 DEF IsFlat
    <3> QED BY <3>11 DEF k
  <2>10. S = Nat
    <3>1. S \subseteq Nat
      OBVIOUS
    <3> HIDE DEF S
    <3> QED BY <2>8, <2>9, <3>1, Induction
  <2>11. Good(n)
    <3>1. n - 1 \in Nat /\ (n - 1) + 1 = n
      BY <1>2
    <3> HIDE DEF S
    <3>2. n - 1 \in S
      BY <2>10, <3>1
    <3> USE DEF S
    <3> HIDE DEF Good
    <3> QED BY <3>1, <3>2
  <2> QED BY <2>6, <2>11
<1> QED BY <1>1, <1>2

\* The types are numbered.
LEMMA TypeCodes ==
  /\ Len(Types) = 12
  /\ \A i \in 1 .. 12 : TypeCode(Types[i]) = i - 1
<1>1. Len(Types) = 12 /\ \A i, k \in 1 .. 12 : Types[i] = Types[k] => i = k
  BY DEF Types
<1>2. ASSUME NEW i \in 1 .. 12 PROVE TypeCode(Types[i]) = i - 1
  <2> DEFINE I == {k \in 1 .. Len(Types) : Types[k] = Types[i]}
  <2>1. I = {i}
    BY <1>1
  <2>2. Min(I) = i
    <3>1. i \in Nat /\ i \in I /\ I \subseteq i .. i
      BY <2>1
    <3> HIDE DEF I
    <3> QED BY <3>1, MinIsFirst
  <2>3. TypeCode(Types[i]) = (IF I # {} THEN Min(I) ELSE 0) - 1
    BY DEF TypeCode, SelectInSeq
  <2> HIDE DEF I
  <2> QED BY <2>1, <2>2, <2>3
<1> QED BY <1>1, <1>2

\* A type is told by its code.
LEMMA TypeIsCoded ==
  ASSUME NEW t \in ToSet(Types)
  PROVE  /\ TypeCode(t) \in 0 .. 11 /\ TypeCode(t) \in Bytes
         /\ TypeCode(t) <= TypeCode("respawn") /\ ~(TypeCode(t) > TypeCode("respawn"))
         /\ Types[TypeCode(t) + 1] = t
<1>1. PICK i \in 1 .. 12 : t = Types[i]
  BY TypeCodes DEF ToSet
<1>2. TypeCode(t) = i - 1
  BY <1>1, TypeCodes
<1>3. TypeCode("respawn") = 11
  <2>1. Types[12] = "respawn"
    BY DEF Types
  <2> QED BY <2>1, TypeCodes
<1>4. Base \in Nat /\ Base > 12
  BY WireAssumption, TypeCodes
<1> QED BY <1>1, <1>2, <1>3, <1>4 DEF Bytes

LEMMA WireSizes ==
  /\ OrderSize \in Nat \ {0} /\ PlayerSize \in Nat \ {0} /\ CoordinateSize \in Nat \ {0}
  /\ SizePerTile \in Nat /\ DimensionsSize \in Nat
BY WireAssumption DEF SizePerTile, DimensionsSize

\* A number that fits takes as many bytes as it is given.
LEMMA NumberBytes ==
  ASSUME NEW count \in Nat \ {0}, NEW n \in Unsigned(count)
  PROVE  Digits(n, count) \in Seq(Bytes) /\ Len(Digits(n, count)) = count
<1>0. n \in Nat
  BY Capacities DEF Unsigned
<1>1. PICK r : DigitsFrom(r, n, count)
  BY <1>0, DigitsAre
<1>2. \A i \in 1 .. count : r[i] % Base \in Bytes
  BY <1>1, DigitsFit
<1>3. Digits(n, count) = [i \in 1 .. count |-> r[i] % Base]
  BY <1>1 DEF DigitsFrom
<1> QED BY <1>2, <1>3

\* The bytes of a tile, and where they are.
IsTileOf(b, t) ==
  /\ Len(b) = SizePerTile
  /\ \A j \in 1 .. OrderSize : b[j] = Digits(t.order, OrderSize)[j]
  /\ b[OrderSize + 1] = t.type
  /\ \A j \in 1 .. PlayerSize : b[OrderSize + 1 + j] = Digits(t.player, PlayerSize)[j]

\* A tile is its order, its type and its player.
LEMMA TileBytesAre ==
  ASSUME NEW t \in Tiles
  PROVE  TileBytes(t) \in Seq(Bytes) /\ IsTileOf(TileBytes(t), t)
<1> DEFINE o == Digits(t.order, OrderSize)
           k == <<t.type>>
           p == Digits(t.player, PlayerSize)
<1>1. t.order \in Unsigned(OrderSize) /\ t.type \in Bytes /\ t.player \in Unsigned(PlayerSize)
  BY DEF Tiles
<1>2. o \in Seq(Bytes) /\ Len(o) = OrderSize /\ p \in Seq(Bytes) /\ Len(p) = PlayerSize
  BY <1>1, WireSizes, NumberBytes
<1>3. k \in Seq(Bytes) /\ Len(k) = 1 /\ k[1] = t.type
  BY <1>1
<1>4. TileBytes(t) = o \o k \o p
  BY DEF TileBytes
<1> HIDE DEF o, k, p
<1> DEFINE a == o \o k
<1>5. /\ a \in Seq(Bytes) /\ Len(a) = OrderSize + 1
      /\ \A j \in 1 .. OrderSize : a[j] = o[j]
      /\ a[OrderSize + 1] = k[1]
  <2>1. IsJoined(a, o, k)
    BY <1>2, <1>3, Joined
  <2> HIDE DEF a
  <2> QED BY <1>2, <1>3, <2>1, WireSizes DEF IsJoined
<1>6. TileBytes(t) = a \o p
  BY <1>4
<1> HIDE DEF a
<1>7. /\ a \o p \in Seq(Bytes) /\ Len(a \o p) = OrderSize + 1 + PlayerSize
      /\ \A j \in 1 .. OrderSize + 1 : (a \o p)[j] = a[j]
      /\ \A j \in 1 .. PlayerSize : (a \o p)[OrderSize + 1 + j] = p[j]
  <2> DEFINE b == a \o p
  <2>1. IsJoined(b, a, p)
    BY <1>2, <1>5, Joined
  <2> HIDE DEF b
  <2>2. /\ b \in Seq(Bytes) /\ Len(b) = OrderSize + 1 + PlayerSize
        /\ \A j \in 1 .. OrderSize + 1 : b[j] = a[j]
        /\ \A j \in 1 .. PlayerSize : b[OrderSize + 1 + j] = p[j]
    BY <1>2, <1>5, <2>1, WireSizes DEF IsJoined
  <2> QED BY <2>2 DEF b
<1> DEFINE b == TileBytes(t)
<1>8. /\ b \in Seq(Bytes) /\ Len(b) = OrderSize + 1 + PlayerSize
      /\ \A j \in 1 .. OrderSize + 1 : b[j] = a[j]
      /\ \A j \in 1 .. PlayerSize : b[OrderSize + 1 + j] = p[j]
  BY <1>6, <1>7
<1> HIDE DEF b
<1>9. /\ b \in Seq(Bytes) /\ Len(b) = SizePerTile
      /\ \A j \in 1 .. OrderSize : b[j] = o[j]
      /\ b[OrderSize + 1] = t.type
      /\ \A j \in 1 .. PlayerSize : b[OrderSize + 1 + j] = p[j]
  BY <1>3, <1>5, <1>8, WireSizes DEF SizePerTile
<1> QED BY <1>9 DEF IsTileOf, b, o, p

\* Two numbers, one after the other.
IsPairOf(b, x, y) ==
  /\ \A j \in 1 .. CoordinateSize : b[j] = Digits(x, CoordinateSize)[j]
  /\ \A j \in 1 .. CoordinateSize : b[CoordinateSize + j] = Digits(y, CoordinateSize)[j]

\* Two numbers take the size of the dimensions of a map.
LEMMA PairBytesAre ==
  ASSUME NEW x \in Unsigned(CoordinateSize), NEW y \in Unsigned(CoordinateSize),
         NEW rest \in Seq(Bytes)
  PROVE  LET b == Coordinate(x) \o Coordinate(y) \o rest
         IN  /\ b \in Seq(Bytes) /\ Len(b) = DimensionsSize + Len(rest)
             /\ IsPairOf(b, x, y)
             /\ \A j \in 1 .. Len(rest) : b[DimensionsSize + j] = rest[j]
<1> DEFINE c == Digits(x, CoordinateSize)
           d == Digits(y, CoordinateSize)
<1>1. c \in Seq(Bytes) /\ Len(c) = CoordinateSize /\ d \in Seq(Bytes) /\ Len(d) = CoordinateSize
  BY WireSizes, NumberBytes
<1>2. Coordinate(x) = c /\ Coordinate(y) = d
  BY DEF Coordinate
<1> HIDE DEF c, d
<1> DEFINE a == c \o d
<1>j. IsJoined(a, c, d)
  BY <1>1, Joined
<1>3. /\ a \in Seq(Bytes) /\ Len(a) = Len(c) + Len(d)
      /\ \A j \in 1 .. Len(c) : a[j] = c[j]
      /\ \A j \in 1 .. Len(d) : a[Len(c) + j] = d[j]
  BY <1>j DEF IsJoined
<1> DEFINE b == Coordinate(x) \o Coordinate(y) \o rest
<1>4. b = a \o rest
  BY <1>2
<1> HIDE DEF a, b
<1>5. /\ b \in Seq(Bytes) /\ Len(b) = Len(a) + Len(rest)
      /\ \A j \in 1 .. Len(a) : b[j] = a[j]
      /\ \A j \in 1 .. Len(rest) : b[Len(a) + j] = rest[j]
  <2>1. IsJoined(a \o rest, a, rest)
    BY <1>3, Joined
  <2> QED BY <1>4, <2>1 DEF IsJoined
<1>6. /\ b \in Seq(Bytes) /\ Len(b) = DimensionsSize + Len(rest)
      /\ \A j \in 1 .. Len(rest) : b[DimensionsSize + j] = rest[j]
      /\ \A j \in 1 .. CoordinateSize : b[j] = c[j]
      /\ \A j \in 1 .. CoordinateSize : b[CoordinateSize + j] = d[j]
  <2>1. Len(a) = DimensionsSize
    BY <1>1, <1>3, WireSizes DEF DimensionsSize
  <2>2. \A j \in 1 .. CoordinateSize :
          /\ j \in 1 .. Len(a) /\ CoordinateSize + j \in 1 .. Len(a)
          /\ a[j] = c[j] /\ a[CoordinateSize + j] = d[j]
    BY <1>1, <1>3, <2>1, WireSizes DEF DimensionsSize
  <2> QED BY <1>5, <2>1, <2>2
<1> QED BY <1>6 DEF IsPairOf, b, c, d

\* What a message holds, by its type.
HoldsData(m) ==
  /\ m.type = "magicBytes" => m.bytes \in [1 .. 4 -> Bytes] /\ m = [type |-> m.type, bytes |-> m.bytes]
  /\ m.type = "map" =>
       IsMap(m) /\ m = [type |-> m.type, width |-> m.width, height |-> m.height, map |-> m.map]
  /\ m.type = "tileChange" =>
       /\ m.row \in Unsigned(CoordinateSize) /\ m.column \in Unsigned(CoordinateSize) /\ m.tile \in Tiles
       /\ m = [type |-> m.type, row |-> m.row, column |-> m.column, tile |-> m.tile]
  /\ m.type = "playerState" =>
       /\ m.status \in Bytes /\ m.direction \in Bytes
       /\ m = [type |-> m.type, status |-> m.status, direction |-> m.direction]
  /\ m.type = "direction" =>
       m.direction \in Bytes /\ m = [type |-> m.type, direction |-> m.direction]
  /\ m.type \notin DOMAIN BodySizes => m = [type |-> m.type]

WithData == {"magicBytes", "map", "tileChange", "playerState", "direction"}

LEMMA DataTypes == DOMAIN BodySizes = WithData /\ WithData \subseteq ToSet(Types)
<1>1. DOMAIN BodySizes = WithData
  BY DEF BodySizes, WithData
<1>2. /\ Types[1] = "magicBytes" /\ Types[4] = "map" /\ Types[5] = "tileChange"
      /\ Types[6] = "playerState" /\ Types[7] = "direction" /\ DOMAIN Types = 1 .. 12
  BY DEF Types
<1> QED BY <1>1, <1>2 DEF ToSet, WithData

\* The forms of IsMessage, told apart by the type.
LEMMA MessageForms ==
  ASSUME NEW m, IsMessage(m)
  PROVE  m.type \in ToSet(Types) /\ HoldsData(m)
<1>1. CASE m \in [type : ToSet(Types) \ DOMAIN BodySizes]
  <2>1. m.type \in ToSet(Types) /\ m.type \notin WithData /\ m = [type |-> m.type]
    BY <1>1, DataTypes
  <2> QED BY <2>1 DEF HoldsData, WithData
<1>2. CASE m \in [type : {"magicBytes"}, bytes : [1 .. 4 -> Bytes]]
  <2>1. /\ m.type = "magicBytes" /\ m.bytes \in [1 .. 4 -> Bytes]
        /\ m = [type |-> m.type, bytes |-> m.bytes]
    BY <1>2
  <2> QED BY <2>1, DataTypes DEF HoldsData, WithData
<1>3. CASE m.type = "map" /\ IsMap(m)
  <2>1. m = [type |-> m.type, width |-> m.width, height |-> m.height, map |-> m.map]
    <3>1. m \in [type : {"map"}, width : Unsigned(CoordinateSize), height : Unsigned(CoordinateSize),
                 map : {m.map}]
      BY <1>3 DEF IsMap
    <3> QED BY <3>1
  <2> QED BY <1>3, <2>1, DataTypes DEF HoldsData, WithData
<1>4. CASE m \in [type : {"tileChange"}, row : Unsigned(CoordinateSize),
                  column : Unsigned(CoordinateSize), tile : Tiles]
  <2>1. /\ m.row \in Unsigned(CoordinateSize) /\ m.column \in Unsigned(CoordinateSize)
        /\ m.tile \in Tiles /\ m.type = "tileChange"
        /\ m = [type |-> m.type, row |-> m.row, column |-> m.column, tile |-> m.tile]
    BY <1>4
  <2> QED BY <2>1, DataTypes DEF HoldsData, WithData
<1>5. CASE m \in [type : {"playerState"}, status : Bytes, direction : Bytes]
  <2>1. /\ m.status \in Bytes /\ m.direction \in Bytes /\ m.type = "playerState"
        /\ m = [type |-> m.type, status |-> m.status, direction |-> m.direction]
    BY <1>5
  <2> QED BY <2>1, DataTypes DEF HoldsData, WithData
<1>6. CASE m \in [type : {"direction"}, direction : Bytes]
  <2>1. /\ m.direction \in Bytes /\ m.type = "direction"
        /\ m = [type |-> m.type, direction |-> m.direction]
    BY <1>6
  <2> QED BY <2>1, DataTypes DEF HoldsData, WithData
<1> QED BY <1>1, <1>2, <1>3, <1>4, <1>5, <1>6 DEF IsMessage

Area(m) == m.width * m.height

LEMMA CoordinatesAre ==
  /\ Unsigned(CoordinateSize) \subseteq Nat /\ Capacity[CoordinateSize] \in Nat
  /\ \A n \in Unsigned(CoordinateSize) : n < Capacity[CoordinateSize]
BY Capacities, WireSizes DEF Unsigned

\* Rows of tiles, in the order they are sent in.
LEMMA RowsOf ==
  ASSUME NEW w \in Nat, NEW h \in Nat, NEW i \in 1 .. w * h
  PROVE  (i - 1) \div w \in 0 .. h - 1 /\ (i - 1) % w \in 0 .. w - 1
<1>1. w > 0
  BY SMTT(30)
<1> DEFINE q == (i - 1) \div w
           r == (i - 1) % w
<1>2. q \in Nat /\ r \in 0 .. w - 1 /\ i - 1 = w * q + r
  BY <1>1
<1>3. q < h
  <2> HIDE DEF q, r
  <2>1. SUFFICES ASSUME q >= h PROVE FALSE
    BY <1>2
  <2>2. w * q >= w * h
    BY <1>1, <1>2, <2>1
  <2> DEFINE wq == w * q
             wh == w * h
  <2>3. wq \in Int /\ wh \in Int /\ i \in 1 .. wh
    BY <1>2
  <2>4. wq >= wh /\ i - 1 = wq + r /\ r \in Nat
    BY <1>1, <1>2, <2>2
  <2> HIDE DEF wq, wh
  <2> QED BY <2>3, <2>4
<1> QED BY <1>2, <1>3

\* The cell in row y and column x of w is tile w * y + x + 1.
LEMMA TileOfCell ==
  ASSUME NEW w \in Nat, NEW h \in Nat, NEW y \in 0 .. h - 1, NEW x \in 0 .. w - 1
  PROVE  /\ w * y + x + 1 \in 1 .. w * h
         /\ (w * y + x) \div w = y /\ (w * y + x) % w = x
<1>1. w * h = w * y + w + w * (h - 1 - y) /\ w * (h - 1 - y) \in Nat /\ w * y \in Nat
  OBVIOUS
<1> DEFINE a == w * y
           b == w * (h - 1 - y)
           c == w * h
<1>2. c = a + w + b /\ b \in Nat /\ a \in Nat
  BY <1>1
<1>3. w * y + x + 1 \in 1 .. w * h
  <2> HIDE DEF a, b, c
  <2>1. a + x + 1 \in 1 .. c
    BY <1>2
  <2> QED BY <2>1 DEF a, c
<1>4. (w * y + x) \div w = y /\ (w * y + x) % w = x
  OBVIOUS
<1> QED BY <1>3, <1>4

\* The tiles of a map, behind its dimensions.
IsRows(flat, m) ==
  /\ flat \in Seq(Bytes) /\ Len(flat) = Area(m) * SizePerTile
  /\ \A i \in 1 .. Area(m), j \in 1 .. SizePerTile :
       flat[(i - 1) * SizePerTile + j] = TileBytes(TilesOf(m)[i])[j]

RowsBytes(m) == FlattenSeq([i \in DOMAIN TilesOf(m) |-> TileBytes(TilesOf(m)[i])])

\* A map takes the bytes of its tiles, one tile after the other.
LEMMA MapTiles ==
  ASSUME NEW m, IsMap(m)
  PROVE  /\ m.width \in Unsigned(CoordinateSize) /\ m.height \in Unsigned(CoordinateSize)
         /\ m.width \in Nat /\ m.height \in Nat /\ Area(m) \in Unsigned(CoordinateSize)
         /\ Area(m) \in Nat
         /\ DOMAIN TilesOf(m) = 1 .. Area(m)
         /\ \A i \in 1 .. Area(m) : TilesOf(m)[i] \in Tiles
         /\ IsRows(RowsBytes(m), m)
<1>1. /\ m.width \in Unsigned(CoordinateSize) /\ m.height \in Unsigned(CoordinateSize)
      /\ m.width * m.height \in Unsigned(CoordinateSize)
      /\ m.map \in [(0 .. m.height - 1) \X (0 .. m.width - 1) -> Tiles]
  BY DEF IsMap
<1>2. m.width \in Nat /\ m.height \in Nat /\ Area(m) \in Nat /\ Area(m) \in Unsigned(CoordinateSize)
  BY <1>1, CoordinatesAre DEF Area
<1>3. DOMAIN TilesOf(m) = 1 .. Area(m)
  BY DEF TilesOf, Area
<1>4. ASSUME NEW i \in 1 .. Area(m) PROVE TilesOf(m)[i] \in Tiles
  <2>1. i \in 1 .. m.width * m.height
    BY <1>4 DEF Area
  <2>2. (i - 1) \div m.width \in 0 .. m.height - 1 /\ (i - 1) % m.width \in 0 .. m.width - 1
    BY <1>2, <2>1, RowsOf
  <2>3. TilesOf(m)[i] = m.map[<<(i - 1) \div m.width, (i - 1) % m.width>>]
    BY <2>1 DEF TilesOf
  <2> QED BY <1>1, <2>2, <2>3
<1>5. IsRows(RowsBytes(m), m)
  <2> DEFINE n == Area(m)
             chunks == [i \in DOMAIN TilesOf(m) |-> TileBytes(TilesOf(m)[i])]
  <2>1. \A i \in 1 .. n : TileBytes(TilesOf(m)[i]) \in Seq(Bytes)
                          /\ Len(TileBytes(TilesOf(m)[i])) = SizePerTile
    BY <1>4, TileBytesAre DEF IsTileOf
  <2>2. /\ chunks \in [1 .. n -> Seq(Bytes)]
        /\ \A i \in 1 .. n : Len(chunks[i]) = SizePerTile
        /\ \A i \in 1 .. n : chunks[i] = TileBytes(TilesOf(m)[i])
    BY <1>3, <2>1
  <2>3. RowsBytes(m) = FlattenSeq(chunks)
    BY DEF RowsBytes
  <2>4. n \in Nat
    BY <1>2
  <2> HIDE DEF n, chunks
  <2>5. FlattenSeq(chunks) \in Seq(Bytes) /\ IsFlat(FlattenSeq(chunks), chunks, n, SizePerTile)
    BY <2>2, <2>4, WireSizes, Flattened
  <2> QED BY <2>2, <2>3, <2>5 DEF IsRows, IsFlat, n
<1> QED BY <1>1, <1>2, <1>3, <1>4, <1>5

\* A message as bytes: its type, and its data behind that.
IsSerialized(m) ==
  /\ DataSize(m) \in Nat
  /\ DataBytes(m) \in Seq(Bytes) /\ Len(DataBytes(m)) = DataSize(m)
  /\ Serialize(m) \in Seq(Bytes) /\ Len(Serialize(m)) = 1 + DataSize(m)
  /\ Serialize(m)[1] = TypeCode(m.type)
  /\ \A j \in 1 .. DataSize(m) : Serialize(m)[1 + j] = DataBytes(m)[j]

\* The bytes of a map.
LEMMA DataOfMap ==
  ASSUME NEW m, IsMap(m), m.type = "map"
  PROVE  /\ DataSize(m) = DimensionsSize + Area(m) * SizePerTile
         /\ DataBytes(m) \in Seq(Bytes) /\ Len(DataBytes(m)) = DataSize(m)
         /\ IsPairOf(DataBytes(m), m.width, m.height)
         /\ \A j \in 1 .. Area(m) * SizePerTile :
              DataBytes(m)[DimensionsSize + j] = RowsBytes(m)[j]
<1>1. /\ DataBytes(m) = Coordinate(m.width) \o Coordinate(m.height) \o RowsBytes(m)
      /\ DataSize(m) = DimensionsSize + m.width * m.height * SizePerTile
  BY DEF DataBytes, DataSize, RowsBytes
<1>2. /\ m.width \in Unsigned(CoordinateSize) /\ m.height \in Unsigned(CoordinateSize)
      /\ RowsBytes(m) \in Seq(Bytes) /\ Len(RowsBytes(m)) = Area(m) * SizePerTile
  BY MapTiles DEF IsRows
<1> DEFINE b == Coordinate(m.width) \o Coordinate(m.height) \o RowsBytes(m)
<1>3. /\ b \in Seq(Bytes) /\ Len(b) = DimensionsSize + Len(RowsBytes(m))
      /\ IsPairOf(b, m.width, m.height)
      /\ \A j \in 1 .. Len(RowsBytes(m)) : b[DimensionsSize + j] = RowsBytes(m)[j]
  BY <1>2, PairBytesAre
<1>4. DataBytes(m) = b
  BY <1>1
<1> HIDE DEF b
<1>5. DataSize(m) = DimensionsSize + Area(m) * SizePerTile
  BY <1>1 DEF Area
<1> QED BY <1>2, <1>3, <1>4, <1>5

\* The bytes of a changed tile.
LEMMA DataOfTileChange ==
  ASSUME NEW m, HoldsData(m), m.type = "tileChange"
  PROVE  /\ DataSize(m) = DimensionsSize + SizePerTile
         /\ DataBytes(m) \in Seq(Bytes) /\ Len(DataBytes(m)) = DataSize(m)
         /\ IsPairOf(DataBytes(m), m.row, m.column)
         /\ \A j \in 1 .. SizePerTile : DataBytes(m)[DimensionsSize + j] = TileBytes(m.tile)[j]
<1>1. /\ DataBytes(m) = Coordinate(m.row) \o Coordinate(m.column) \o TileBytes(m.tile)
      /\ DataSize(m) = DimensionsSize + SizePerTile
  BY DEF DataBytes, DataSize
<1>2. /\ m.row \in Unsigned(CoordinateSize) /\ m.column \in Unsigned(CoordinateSize)
      /\ m.tile \in Tiles
  BY DEF HoldsData
<1>3. TileBytes(m.tile) \in Seq(Bytes) /\ Len(TileBytes(m.tile)) = SizePerTile
  BY <1>2, TileBytesAre DEF IsTileOf
<1> DEFINE t == TileBytes(m.tile)
           b == Coordinate(m.row) \o Coordinate(m.column) \o t
<1>4. /\ b \in Seq(Bytes) /\ Len(b) = DimensionsSize + Len(t)
      /\ IsPairOf(b, m.row, m.column)
      /\ \A j \in 1 .. Len(t) : b[DimensionsSize + j] = t[j]
  BY <1>2, <1>3, PairBytesAre
<1>5. DataBytes(m) = b
  BY <1>1
<1> HIDE DEF b
<1> QED BY <1>1, <1>3, <1>4, <1>5

\* The bytes of the other messages.
LEMMA DataOfOthers ==
  ASSUME NEW m, HoldsData(m), m.type \notin {"map", "tileChange"}
  PROVE  /\ DataBytes(m) \in Seq(Bytes) /\ Len(DataBytes(m)) = DataSize(m)
         /\ DataSize(m) = IF m.type \in DOMAIN BodySizes THEN BodySizes[m.type] ELSE 0
         /\ m.type = "magicBytes" => DataBytes(m) = m.bytes
         /\ m.type = "playerState" => DataBytes(m) = <<m.status, m.direction>>
         /\ m.type = "direction" => DataBytes(m) = <<m.direction>>
<1>1. CASE m.type = "magicBytes"
  <2>1. DataBytes(m) = m.bytes /\ DataSize(m) = 4 /\ m.bytes \in [1 .. 4 -> Bytes]
        /\ BodySizes[m.type] = 4 /\ m.type \in DOMAIN BodySizes
    BY <1>1, DataTypes DEF DataBytes, DataSize, HoldsData, BodySizes, WithData
  <2>2. DataBytes(m) \in Seq(Bytes) /\ Len(DataBytes(m)) = 4
    <3> DEFINE f == m.bytes
    <3>1. f \in [1 .. 4 -> Bytes]
      BY <2>1
    <3> HIDE DEF f
    <3>2. f = [i \in 1 .. 4 |-> f[i]] /\ \A i \in 1 .. 4 : f[i] \in Bytes
      BY <3>1
    <3>3. f \in Seq(Bytes) /\ Len(f) = 4
      BY ONLY <3>2
    <3> QED BY <2>1, <3>3 DEF f
  <2> QED BY <1>1, <2>1, <2>2
<1>2. CASE m.type = "playerState"
  <2>1. DataBytes(m) = <<m.status, m.direction>> /\ DataSize(m) = 2
        /\ BodySizes[m.type] = 2 /\ m.type \in DOMAIN BodySizes
    BY <1>2, DataTypes DEF DataBytes, DataSize, BodySizes, WithData
  <2>2. m.status \in Bytes /\ m.direction \in Bytes
    BY <1>2 DEF HoldsData
  <2> QED BY <1>2, <2>1, <2>2
<1>3. CASE m.type = "direction"
  <2>1. DataBytes(m) = <<m.direction>> /\ DataSize(m) = 1
        /\ BodySizes[m.type] = 1 /\ m.type \in DOMAIN BodySizes
    BY <1>3, DataTypes DEF DataBytes, DataSize, BodySizes, WithData
  <2>2. m.direction \in Bytes
    BY <1>3 DEF HoldsData
  <2> QED BY <1>3, <2>1, <2>2
<1>4. CASE m.type \notin WithData
  <2>1. DataBytes(m) = <<>> /\ DataSize(m) = 0 /\ m.type \notin DOMAIN BodySizes
    BY <1>4, DataTypes DEF DataBytes, DataSize, WithData
  <2> QED BY <1>4, <2>1 DEF WithData
<1> QED BY <1>1, <1>2, <1>3, <1>4 DEF WithData

\* A message takes a byte for its type, and those of its data.
LEMMA Serialized ==
  ASSUME NEW m, IsMessage(m)
  PROVE  IsSerialized(m)
<1>1. m.type \in ToSet(Types) /\ HoldsData(m)
  BY MessageForms
<1>2. DataBytes(m) \in Seq(Bytes) /\ Len(DataBytes(m)) = DataSize(m)
  <2>1. CASE m.type = "map"
    BY <1>1, <2>1, DataOfMap DEF HoldsData
  <2>2. CASE m.type = "tileChange"
    BY <1>1, <2>2, DataOfTileChange
  <2>3. CASE m.type \notin {"map", "tileChange"}
    BY <1>1, <2>3, DataOfOthers
  <2> QED BY <2>1, <2>2, <2>3
<1>3. DataSize(m) \in Nat
  BY <1>2
<1> DEFINE code == <<TypeCode(m.type)>>
           b == code \o DataBytes(m)
<1>4. code \in Seq(Bytes) /\ Len(code) = 1 /\ code[1] = TypeCode(m.type)
  BY <1>1, TypeIsCoded
<1>5. Serialize(m) = [i \in 1 .. 1 + DataSize(m) |-> b[i]]
  BY DEF Serialize
<1> HIDE DEF code
<1>6. IsJoined(b, code, DataBytes(m))
  BY <1>2, <1>4, Joined
<1> HIDE DEF b
<1>7. /\ b \in Seq(Bytes) /\ Len(b) = 1 + DataSize(m) /\ b[1] = TypeCode(m.type)
      /\ \A j \in 1 .. DataSize(m) : b[1 + j] = DataBytes(m)[j]
  BY <1>2, <1>3, <1>4, <1>6 DEF IsJoined
<1>8. /\ Serialize(m) \in Seq(Bytes) /\ Len(Serialize(m)) = 1 + DataSize(m)
      /\ \A i \in 1 .. 1 + DataSize(m) : Serialize(m)[i] = b[i]
  BY <1>3, <1>5, <1>7
<1>9. /\ Serialize(m)[1] = TypeCode(m.type)
      /\ \A j \in 1 .. DataSize(m) : Serialize(m)[1 + j] = DataBytes(m)[j]
  BY <1>3, <1>7, <1>8
<1> QED BY <1>2, <1>3, <1>8, <1>9 DEF IsSerialized

\* Reading what has been written.
LEMMA NumberIsRead ==
  ASSUME NEW count \in Nat \ {0}, NEW n \in Unsigned(count), NEW first \in Nat,
         \A i \in 1 .. count : ByteAt(first + i - 1) = Digits(n, count)[i]
  PROVE  NumberAt(first, count) = n
<1> DEFINE d == Digits(n, count)
<1>1. d \in Seq(Bytes) /\ Len(d) = count
  BY NumberBytes
<1>2. d = [i \in 1 .. count |-> d[i]]
  <2> HIDE DEF d
  <2> QED BY <1>1
<1>3. [i \in 1 .. count |-> ByteAt(first + i - 1)] = d
  <2>1. \A i \in 1 .. count : ByteAt(first + i - 1) = d[i]
    OBVIOUS
  <2> HIDE DEF d
  <2> QED BY <1>2, <2>1
<1>4. NumberAt(first, count) = Number(d)
  BY <1>3 DEF NumberAt
<1> QED BY <1>4, NumberOfDigits

\* The bytes of a tile are read as that tile.
LEMMA TileIsRead ==
  ASSUME NEW t \in Tiles, NEW first \in Nat,
         \A j \in 1 .. SizePerTile : ByteAt(first + j - 1) = TileBytes(t)[j]
  PROVE  TileAt(first) = t
<1>1. /\ t.order \in Unsigned(OrderSize) /\ t.type \in Bytes /\ t.player \in Unsigned(PlayerSize)
      /\ t = [order |-> t.order, type |-> t.type, player |-> t.player]
  BY DEF Tiles
<1> DEFINE b == TileBytes(t)
<1>2. /\ \A j \in 1 .. OrderSize : b[j] = Digits(t.order, OrderSize)[j]
      /\ b[OrderSize + 1] = t.type
      /\ \A j \in 1 .. PlayerSize : b[OrderSize + 1 + j] = Digits(t.player, PlayerSize)[j]
  BY TileBytesAre DEF IsTileOf
<1>3. \A j \in 1 .. OrderSize + 1 + PlayerSize : ByteAt(first + j - 1) = b[j]
  BY DEF SizePerTile
<1> HIDE DEF b
<1>4. NumberAt(first, OrderSize) = t.order
  <2>1. \A j \in 1 .. OrderSize : ByteAt(first + j - 1) = Digits(t.order, OrderSize)[j]
    BY <1>2, <1>3, WireSizes
  <2> QED BY <1>1, <2>1, WireSizes, NumberIsRead
<1>5. ByteAt(first + OrderSize) = t.type
  <2>1. OrderSize + 1 \in 1 .. OrderSize + 1 + PlayerSize
        /\ first + (OrderSize + 1) - 1 = first + OrderSize
    BY WireSizes
  <2>2. ByteAt(first + (OrderSize + 1) - 1) = b[OrderSize + 1]
    BY <1>3, <2>1
  <2> QED BY <1>2, <2>1, <2>2
<1>6. NumberAt(first + OrderSize + 1, PlayerSize) = t.player
  <2> DEFINE k == first + OrderSize + 1
  <2>1. ASSUME NEW j \in 1 .. PlayerSize
        PROVE  ByteAt(k + j - 1) = Digits(t.player, PlayerSize)[j]
    <3>1. OrderSize + 1 + j \in 1 .. OrderSize + 1 + PlayerSize
          /\ first + (OrderSize + 1 + j) - 1 = k + j - 1
      BY WireSizes
    <3>2. ByteAt(first + (OrderSize + 1 + j) - 1) = b[OrderSize + 1 + j]
      BY <1>3, <3>1
    <3> QED BY <1>2, <3>1, <3>2
  <2>2. k \in Nat
    BY WireSizes
  <2> HIDE DEF k
  <2>3. NumberAt(k, PlayerSize) = t.player
    BY <1>1, <2>1, <2>2, WireSizes, NumberIsRead
  <2> QED BY <2>3 DEF k
<1>7. TileAt(first) = [order |-> t.order, type |-> t.type, player |-> t.player]
  BY <1>4, <1>5, <1>6 DEF TileAt
<1> QED BY <1>1, <1>7

\* The bytes of two numbers are read as those numbers.
LEMMA PairIsRead ==
  ASSUME NEW x \in Unsigned(CoordinateSize), NEW y \in Unsigned(CoordinateSize),
         NEW b, IsPairOf(b, x, y),
         \A j \in 1 .. DimensionsSize : ByteAt(j) = b[j]
  PROVE  Pair = <<x, y>>
<1>1. CoordinateSize \in Nat \ {0} /\ DimensionsSize = CoordinateSize + CoordinateSize
  BY WireSizes DEF DimensionsSize
<1>2. NumberAt(1, CoordinateSize) = x
  <2>1. \A j \in 1 .. CoordinateSize : ByteAt(1 + j - 1) = Digits(x, CoordinateSize)[j]
    <3>1. \A j \in 1 .. CoordinateSize : 1 + j - 1 = j /\ j \in 1 .. DimensionsSize
      BY <1>1
    <3> QED BY <3>1 DEF IsPairOf
  <2> QED BY <1>1, <2>1, NumberIsRead
<1>3. NumberAt(1 + CoordinateSize, CoordinateSize) = y
  <2> DEFINE k == 1 + CoordinateSize
  <2>1. \A j \in 1 .. CoordinateSize : ByteAt(k + j - 1) = Digits(y, CoordinateSize)[j]
    <3>1. \A j \in 1 .. CoordinateSize :
            k + j - 1 = CoordinateSize + j /\ CoordinateSize + j \in 1 .. DimensionsSize
      BY <1>1
    <3> QED BY <3>1 DEF IsPairOf
  <2>2. k \in Nat
    BY <1>1
  <2> HIDE DEF k
  <2>3. NumberAt(k, CoordinateSize) = y
    BY <1>1, <2>1, <2>2, NumberIsRead
  <2> QED BY <2>3 DEF k
<1> QED BY <1>2, <1>3 DEF Pair

\* The part of a sequence.
IsPart(b, s, m, n) ==
  /\ b \in Seq(Bytes) /\ Len(b) = IF m <= n THEN n - m + 1 ELSE 0
  /\ \A i \in 1 .. Len(b) : b[i] = s[m + i - 1]

\* SubSeq takes a part of a sequence.
LEMMA Part ==
  ASSUME NEW s \in Seq(Bytes), NEW m \in Nat \ {0}, NEW n \in 0 .. Len(s)
  PROVE  IsPart(SubSeq(s, m, n), s, m, n)
<1>1. SubSeq(s, m, n) = [i \in 1 .. (1 + n - m) |-> s[i + m - 1]]
  OBVIOUS
<1>2. \A i \in 1 .. (1 + n - m) : s[i + m - 1] \in Bytes /\ i + m - 1 = m + i - 1
  OBVIOUS
<1>3. CASE m <= n
  <2>1. 1 + n - m \in Nat /\ 1 + n - m = n - m + 1
    BY <1>3
  <2> DEFINE k == 1 + n - m
  <2> HIDE DEF k
  <2>2. /\ [i \in 1 .. k |-> s[i + m - 1]] \in Seq(Bytes)
        /\ Len([i \in 1 .. k |-> s[i + m - 1]]) = k
    BY <1>2, <2>1 DEF k
  <2> QED BY <1>1, <1>2, <1>3, <2>1, <2>2 DEF IsPart, k
<1>4. CASE ~(m <= n)
  <2>1. 1 .. (1 + n - m) = {} /\ 1 .. (1 + n - m) = 1 .. 0
    BY <1>4
  <2>2. SubSeq(s, m, n) = [i \in 1 .. 0 |-> s[i + m - 1]]
    BY <1>1, <2>1
  <2>3. SubSeq(s, m, n) \in Seq(Bytes) /\ Len(SubSeq(s, m, n)) = 0
    BY <2>2
  <2> QED BY <1>4, <2>3 DEF IsPart
<1> QED BY <1>3, <1>4

-----------------------------------------------------------------------------
(* A stage that has been read whole and right.                             *)

Reads(m, base, n) == \A j \in 1 .. n : ByteAt(j) = Serialize(m)[base + j]

\* The first byte of a message is read as its type.
LEMMA TypeIsRead ==
  ASSUME NEW m, IsMessage(m), Reads(m, 0, 1)
  PROVE  /\ ~(ByteAt(1) > TypeCode("respawn"))
         /\ Types[ByteAt(1) + 1] = m.type
<1>1. ByteAt(1) = Serialize(m)[1]
  BY DEF Reads
<1>2. Serialize(m)[1] = TypeCode(m.type) /\ m.type \in ToSet(Types)
  BY Serialized, MessageForms DEF IsSerialized
<1> QED BY <1>1, <1>2, TypeIsCoded

\* What is in the buffer of a stage is a part of the data.
LEMMA DataIsRead ==
  ASSUME NEW m, IsMessage(m), NEW base \in Nat, NEW n \in Nat, base + n <= DataSize(m),
         Reads(m, 1 + base, n)
  PROVE  \A j \in 1 .. n : ByteAt(j) = DataBytes(m)[base + j]
<1>1. DataSize(m) \in Nat /\ \A j \in 1 .. DataSize(m) : Serialize(m)[1 + j] = DataBytes(m)[j]
  BY Serialized DEF IsSerialized
<1>2. ASSUME NEW j \in 1 .. n PROVE ByteAt(j) = DataBytes(m)[base + j]
  <2>1. base + j \in 1 .. DataSize(m) /\ 1 + (base + j) = (1 + base) + j
    BY <1>1
  <2>2. ByteAt(j) = Serialize(m)[(1 + base) + j]
    BY DEF Reads
  <2> QED BY <1>1, <2>1, <2>2
<1> QED BY <1>2

\* The bytes of a map are read as that map, cell by cell.
LEMMA MapIsRead ==
  ASSUME NEW m, IsMessage(m), m.type = "map",
         Reads(m, 1 + DimensionsSize, Area(m) * SizePerTile)
  PROVE  m.map = [c \in (0 .. m.height - 1) \X (0 .. m.width - 1) |->
                    TileAt(SizePerTile * (m.width * c[1] + c[2]) + 1)]
<1>1. IsMap(m)
  BY MessageForms DEF HoldsData
<1> DEFINE n == Area(m) * SizePerTile
           w == m.width
           h == m.height
<1>2. /\ w \in Nat /\ h \in Nat /\ Area(m) \in Nat
      /\ \A i \in 1 .. Area(m) : TilesOf(m)[i] \in Tiles
      /\ IsRows(RowsBytes(m), m)
  BY <1>1, MapTiles
<1>3. \A j \in 1 .. n : DataBytes(m)[DimensionsSize + j] = RowsBytes(m)[j]
  BY <1>1, DataOfMap
<1>4. DataSize(m) = DimensionsSize + n
  BY <1>1, DataOfMap
<1>5. n \in Nat
  BY <1>2, WireSizes
<1>6. Reads(m, 1 + DimensionsSize, n)
  OBVIOUS
<1> HIDE DEF n
<1>7. \A j \in 1 .. n : ByteAt(j) = DataBytes(m)[DimensionsSize + j]
  <2>1. DimensionsSize \in Nat /\ DimensionsSize + n <= DataSize(m)
    BY <1>4, <1>5, WireSizes
  <2> QED BY <1>5, <1>6, <2>1, DataIsRead
<1>8. ASSUME NEW y \in 0 .. h - 1, NEW x \in 0 .. w - 1
      PROVE  TileAt(SizePerTile * (w * y + x) + 1) = m.map[<<y, x>>]
  <2> HIDE DEF w, h
  <2> DEFINE i == w * y + x + 1
             first == SizePerTile * (w * y + x) + 1
  <2>1. i \in 1 .. Area(m) /\ (i - 1) \div w = y /\ (i - 1) % w = x
    <3>1. /\ w * y + x + 1 \in 1 .. w * h
          /\ (w * y + x) \div w = y /\ (w * y + x) % w = x
      BY <1>2, <1>8, TileOfCell
    <3>2. Area(m) = w * h
      BY DEF Area, w, h
    <3>3. w * y \in Nat
      BY <1>2
    <3>4. i - 1 = w * y + x
      BY <3>3
    <3> QED BY <3>1, <3>2, <3>4
  <2>2. TilesOf(m)[i] = m.map[<<y, x>>]
    BY <2>1 DEF TilesOf, Area, w
  <2>3. i - 1 = w * y + x /\ w * y + x \in Nat
    BY <1>2
  <2>4. first = (i - 1) * SizePerTile + 1 /\ (i - 1) * SizePerTile \in Nat
    BY <2>3, WireSizes
  <2>5. i \in Nat
    BY <2>3
  <2> HIDE DEF i, first
  <2> DEFINE before == (i - 1) * SizePerTile
  <2>6. ASSUME NEW j \in 1 .. SizePerTile
        PROVE  ByteAt(first + j - 1) = TileBytes(TilesOf(m)[i])[j]
    <3>1. before + j \in 1 .. n
      BY <1>2, <2>1, WireSizes, InChunks DEF n
    <3>2. RowsBytes(m)[before + j] = TileBytes(TilesOf(m)[i])[j]
      BY <1>2, <2>1 DEF IsRows
    <3>3. first + j - 1 = before + j
      BY <2>4, WireSizes
    <3> HIDE DEF before
    <3> QED BY <1>3, <1>7, <3>1, <3>2, <3>3
  <2>7. TilesOf(m)[i] \in Tiles /\ first \in Nat
    BY <1>2, <2>1, <2>4
  <2>8. TileAt(first) = TilesOf(m)[i]
    BY <2>6, <2>7, TileIsRead
  <2> QED BY <2>2, <2>8 DEF first
<1>9. m.map \in [(0 .. h - 1) \X (0 .. w - 1) -> Tiles]
  BY <1>1 DEF IsMap
<1>10. \A c \in (0 .. h - 1) \X (0 .. w - 1) :
         TileAt(SizePerTile * (w * c[1] + c[2]) + 1) = m.map[c]
  <2> HIDE DEF w, h
  <2>1. \A c \in (0 .. h - 1) \X (0 .. w - 1) :
          c[1] \in 0 .. h - 1 /\ c[2] \in 0 .. w - 1 /\ c = <<c[1], c[2]>>
    OBVIOUS
  <2> QED BY <1>8, <2>1
<1> QED BY <1>9, <1>10

\* The first bytes of a map are read as its dimensions.
LEMMA DimensionsAreRead ==
  ASSUME NEW m, IsMessage(m), m.type = "map", Reads(m, 1, DimensionsSize)
  PROVE  Pair = <<m.width, m.height>>
<1>1. IsMap(m)
  BY MessageForms DEF HoldsData
<1>2. /\ DataSize(m) = DimensionsSize + Area(m) * SizePerTile
      /\ IsPairOf(DataBytes(m), m.width, m.height)
  BY <1>1, DataOfMap
<1>3. /\ m.width \in Unsigned(CoordinateSize) /\ m.height \in Unsigned(CoordinateSize)
      /\ Area(m) * SizePerTile \in Nat
  BY <1>1, MapTiles, WireSizes
<1>4. \A j \in 1 .. DimensionsSize : ByteAt(j) = DataBytes(m)[0 + j]
  <2>1. 0 + DimensionsSize <= DataSize(m) /\ DimensionsSize \in Nat /\ 1 + 0 = 1
    <3> DEFINE n == Area(m) * SizePerTile
    <3> HIDE DEF n
    <3> QED BY <1>2, <1>3, WireSizes DEF n
  <2> QED BY <2>1, DataIsRead
<1>5. \A j \in 1 .. DimensionsSize : ByteAt(j) = DataBytes(m)[j]
  <2>1. \A j \in 1 .. DimensionsSize : 0 + j = j
    BY WireSizes
  <2> QED BY <1>4, <2>1
<1> QED BY <1>2, <1>3, <1>5, PairIsRead

\* The bytes of a changed tile are read as that message.
LEMMA TileChangeIsRead ==
  ASSUME NEW m, IsMessage(m), m.type = "tileChange", Reads(m, 1, DataSize(m))
  PROVE  m = [type |-> m.type, row |-> Pair[1], column |-> Pair[2], tile |-> TileAt(1 + DimensionsSize)]
<1>1. HoldsData(m)
  BY MessageForms
<1>2. /\ DataSize(m) = DimensionsSize + SizePerTile
      /\ IsPairOf(DataBytes(m), m.row, m.column)
      /\ \A j \in 1 .. SizePerTile : DataBytes(m)[DimensionsSize + j] = TileBytes(m.tile)[j]
  BY <1>1, DataOfTileChange
<1>3. /\ m.row \in Unsigned(CoordinateSize) /\ m.column \in Unsigned(CoordinateSize)
      /\ m.tile \in Tiles
      /\ m = [type |-> m.type, row |-> m.row, column |-> m.column, tile |-> m.tile]
  BY <1>1 DEF HoldsData
<1>4. \A j \in 1 .. DataSize(m) : ByteAt(j) = DataBytes(m)[j]
  <2>1. 0 + DataSize(m) <= DataSize(m) /\ DataSize(m) \in Nat /\ 1 + 0 = 1
    BY <1>2, WireSizes
  <2>2. \A j \in 1 .. DataSize(m) : ByteAt(j) = DataBytes(m)[0 + j]
    BY <2>1, DataIsRead
  <2>3. \A j \in 1 .. DataSize(m) : 0 + j = j
    BY <2>1
  <2> QED BY <2>2, <2>3
<1>5. Pair = <<m.row, m.column>>
  <2>1. \A j \in 1 .. DimensionsSize : ByteAt(j) = DataBytes(m)[j]
    BY <1>2, <1>4, WireSizes
  <2> QED BY <1>2, <1>3, <2>1, PairIsRead
<1>6. TileAt(1 + DimensionsSize) = m.tile
  <2> DEFINE first == 1 + DimensionsSize
  <2>1. ASSUME NEW j \in 1 .. SizePerTile
        PROVE  ByteAt(first + j - 1) = TileBytes(m.tile)[j]
    <3>1. first + j - 1 = DimensionsSize + j /\ DimensionsSize + j \in 1 .. DataSize(m)
      BY <1>2, WireSizes
    <3> QED BY <1>2, <1>4, <3>1
  <2>2. first \in Nat
    BY WireSizes
  <2> HIDE DEF first
  <2>3. TileAt(first) = m.tile
    BY <1>3, <2>1, <2>2, TileIsRead
  <2> QED BY <2>3 DEF first
<1> QED BY <1>3, <1>5, <1>6

\* The bytes of the other messages are read as those messages.
LEMMA OthersAreRead ==
  ASSUME NEW m, IsMessage(m), Reads(m, 1, DataSize(m))
  PROVE  /\ m.type = "magicBytes" => m = [type |-> m.type, bytes |-> [i \in 1 .. DataSize(m) |-> ByteAt(i)]]
         /\ m.type = "playerState" => m = [type |-> m.type, status |-> ByteAt(1), direction |-> ByteAt(2)]
         /\ m.type = "direction" => m = [type |-> m.type, direction |-> ByteAt(1)]
<1>1. HoldsData(m)
  BY MessageForms
<1>2. DataSize(m) \in Nat /\ \A j \in 1 .. DataSize(m) : ByteAt(j) = DataBytes(m)[j]
  <2>0. DataSize(m) \in Nat
    BY Serialized DEF IsSerialized
  <2>1. 0 + DataSize(m) <= DataSize(m) /\ 1 + 0 = 1
    BY <2>0
  <2>2. \A j \in 1 .. DataSize(m) : ByteAt(j) = DataBytes(m)[0 + j]
    BY <2>0, <2>1, DataIsRead
  <2>3. \A j \in 1 .. DataSize(m) : 0 + j = j
    BY <2>0
  <2> QED BY <2>0, <2>2, <2>3
<1>3. CASE m.type = "magicBytes"
  <2>1. DataBytes(m) = m.bytes /\ DataSize(m) = 4
    BY <1>3 DEF DataBytes, DataSize
  <2>2. m.bytes \in [1 .. 4 -> Bytes] /\ m = [type |-> m.type, bytes |-> m.bytes]
    BY <1>1, <1>3 DEF HoldsData
  <2>3. m.bytes = [i \in 1 .. DataSize(m) |-> ByteAt(i)]
    BY <1>2, <2>1, <2>2
  <2> QED BY <1>3, <2>2, <2>3
<1>4. CASE m.type = "playerState"
  <2>1. DataBytes(m) = <<m.status, m.direction>> /\ DataSize(m) = 2
    BY <1>4 DEF DataBytes, DataSize
  <2>2. m = [type |-> m.type, status |-> m.status, direction |-> m.direction]
    BY <1>1, <1>4 DEF HoldsData
  <2>3. ByteAt(1) = m.status /\ ByteAt(2) = m.direction
    BY <1>2, <2>1
  <2> QED BY <1>4, <2>2, <2>3
<1>5. CASE m.type = "direction"
  <2>1. DataBytes(m) = <<m.direction>> /\ DataSize(m) = 1
    BY <1>5 DEF DataBytes, DataSize
  <2>2. m = [type |-> m.type, direction |-> m.direction]
    BY <1>1, <1>5 DEF HoldsData
  <2>3. ByteAt(1) = m.direction
    BY <1>2, <2>1
  <2> QED BY <1>5, <2>2, <2>3
<1> QED BY <1>3, <1>4, <1>5

-----------------------------------------------------------------------------
(* Where the messages are among the bytes that have been sent.             *)

IsCut(k) == k \in ToSet(cut)

\* The first byte of message k is behind start[k].
Starts(start) ==
  /\ start \in [1 .. Len(sent) + 1 -> Nat]
  /\ start[1] = 0
  /\ \A k \in 1 .. Len(sent) : start[k + 1] = start[k] + 1 + DataSize(sent[k])

\* The message that is being read, and its bytes before those of this stage.
Reading == Len(received) + 1
Behind == CASE stage = "type" -> 0
            [] stage = "tiles" -> 1 + DimensionsSize
            [] OTHER -> 1

\* The bytes of a message that are right whatever is cut.
IsSafe(k, j) == j = 1 \/ (sent[k].type = "map" /\ j <= 1 + DimensionsSize)

\* The bytes that have not been read.
StreamIsRight(start, front) ==
  \A i \in 1 .. Len(stream), k \in 1 .. Len(sent) : \A j \in 1 .. 1 + DataSize(sent[k]) :
    front + i = start[k] + j /\ (IsCut(k) => IsSafe(k, j)) => stream[i] = Serialize(sent[k])[j]

\* How far the writer is.
WriterIsRight(start, end) ==
  IF buffer = <<>> THEN written = 0 /\ end = start[Len(sent) + 1]
  ELSE /\ Len(sent) > 0 /\ buffer = Serialize(sent[Len(sent)])
       /\ written \in 0 .. DataSize(sent[Len(sent)])
       /\ end = start[Len(sent)] + written
       /\ written > 0 =>
            /\ IsCut(Len(sent))
            /\ sent[Len(sent)].type = "map" => written >= 1 + DimensionsSize

\* What the reader reads, of which message.
StageFits(m) ==
  CASE stage = "type" -> size = 1
    [] stage = "dimensions" -> m.type = "map" /\ size = DimensionsSize
    [] stage = "tiles" ->
         /\ m.type = "map" /\ dims = <<m.width, m.height>>
         /\ size = Area(m) * SizePerTile
    [] OTHER -> /\ stage = m.type /\ m.type \in WithData \ {"map"}
                /\ size = DataSize(m)

\* What it has read of it.
HeldIsRight(m) ==
  stage \in {"type", "dimensions"} \/ ~IsCut(Reading) =>
    /\ got \in {0, size}
    /\ got = size => Len(held) = size /\ \A j \in 1 .. size : held[j] = Serialize(m)[Behind + j]

ReaderIsRight ==
  /\ got \in Nat /\ size \in Nat /\ got <= size
  /\ got = 0 => held = <<>>
  /\ IF Len(received) < Len(sent)
     THEN StageFits(sent[Reading]) /\ HeldIsRight(sent[Reading])
     ELSE stage = "type" /\ size = 1 /\ got = 0

ReadTo(start) == start[Reading] + Behind + got
WrittenTo(start) == ReadTo(start) + Len(stream)

Aligned(start) ==
  /\ Starts(start)
  /\ StreamIsRight(start, ReadTo(start))
  /\ WrittenTo(start) <= start[Len(sent) + 1]
  /\ ~broken => WriterIsRight(start, WrittenTo(start))
  /\ ReaderIsRight

IsSequence(s) == \E S : s \in Seq(S)

Sequences ==
  /\ sent \in Seq(Outgoing) /\ IsSequence(received)
  /\ buffer \in Seq(Bytes) /\ stream \in Seq(Bytes) /\ held \in Seq(Bytes)
  /\ IsSequence(cut)
  /\ torn \in BOOLEAN /\ broken \in BOOLEAN

\* What has been received, as MessagesArrive has it.
Delivered ==
  /\ Len(received) <= Len(sent)
  /\ \A i \in 1 .. Len(received) :
       received[i].type = sent[i].type /\ (~IsCut(i) => received[i] = sent[i])

InStep == stage # "failed" => \E start : Aligned(start)

WireInv ==
  /\ Sequences
  /\ ~torn => Delivered /\ InStep /\ (stage = "failed" => broken)

\* Append adds one element.
LEMMA Appended ==
  ASSUME NEW s, IsSequence(s), NEW x
  PROVE  /\ IsSequence(Append(s, x))
         /\ Len(s) \in Nat /\ Len(Append(s, x)) = Len(s) + 1
         /\ \A i \in 1 .. Len(s) : Append(s, x)[i] = s[i]
         /\ Append(s, x)[Len(s) + 1] = x
         /\ ToSet(s) \subseteq ToSet(Append(s, x)) /\ x \in ToSet(Append(s, x))
<1>1. PICK S : s \in Seq(S)
  BY DEF IsSequence
<1> DEFINE T == S \cup {x}
<1>2. s \in Seq(T) /\ x \in T
  <2>1. s = [i \in 1 .. Len(s) |-> s[i]] /\ Len(s) \in Nat /\ \A i \in 1 .. Len(s) : s[i] \in T
    BY <1>1
  <2>2. [i \in 1 .. Len(s) |-> s[i]] \in Seq(T)
    BY <2>1
  <2> QED BY <2>1, <2>2
<1> HIDE DEF T
<1>3. /\ Append(s, x) \in Seq(T)
      /\ Len(s) \in Nat /\ Len(Append(s, x)) = Len(s) + 1
      /\ \A i \in 1 .. Len(s) : Append(s, x)[i] = s[i]
      /\ Append(s, x)[Len(s) + 1] = x
  BY <1>2
<1>4. DOMAIN s = 1 .. Len(s) /\ DOMAIN Append(s, x) = 1 .. Len(s) + 1
  BY <1>2
<1>5. ToSet(s) \subseteq ToSet(Append(s, x)) /\ x \in ToSet(Append(s, x))
  BY <1>3, <1>4 DEF ToSet
<1> QED BY <1>3, <1>5 DEF IsSequence

\* The messages that are sent are those of Wire.
LEMMA SentAreMessages ==
  ASSUME Sequences
  PROVE  /\ Len(sent) \in Nat
         /\ \A k \in 1 .. Len(sent) : IsMessage(sent[k]) /\ DataSize(sent[k]) \in Nat
<1>1. Len(sent) \in Nat /\ \A k \in 1 .. Len(sent) : sent[k] \in Outgoing
  BY DEF Sequences
<1>2. \A k \in 1 .. Len(sent) : IsMessage(sent[k])
  BY <1>1, WireAssumption
<1> QED BY <1>1, <1>2, Serialized DEF IsSerialized

\* Messages are behind one another.
LEMMA StartsGrow ==
  ASSUME Sequences, NEW start, Starts(start),
         NEW k \in 1 .. Len(sent) + 1, NEW l \in 1 .. Len(sent) + 1, k <= l
  PROVE  start[k] <= start[l]
<1>1. /\ Len(sent) \in Nat
      /\ \A i \in 1 .. Len(sent) : DataSize(sent[i]) \in Nat
  BY SentAreMessages
<1>2. /\ \A i \in 1 .. Len(sent) + 1 : start[i] \in Nat
      /\ \A i \in 1 .. Len(sent) : start[i + 1] = start[i] + 1 + DataSize(sent[i])
  BY DEF Starts
<1> DEFINE S == {d \in Nat : k + d <= Len(sent) + 1 => start[k] <= start[k + d]}
<1>3. 0 \in S
  BY <1>1, <1>2
<1>4. ASSUME NEW d \in S PROVE d + 1 \in S
  <2>1. SUFFICES ASSUME k + (d + 1) <= Len(sent) + 1 PROVE start[k] <= start[k + (d + 1)]
    OBVIOUS
  <2>2. d \in Nat /\ k + d \in 1 .. Len(sent) /\ k + d <= Len(sent) + 1
        /\ k + (d + 1) = (k + d) + 1
    BY <1>1, <2>1
  <2>3. start[k] <= start[k + d]
    BY <2>2
  <2>4. start[(k + d) + 1] = start[k + d] + 1 + DataSize(sent[k + d])
    BY <1>2, <2>2
  <2>5. start[k] \in Nat /\ start[k + d] \in Nat /\ DataSize(sent[k + d]) \in Nat
    BY <1>1, <1>2, <2>2
  <2> QED BY <2>2, <2>3, <2>4, <2>5
<1>5. S = Nat
  <2>1. S \subseteq Nat
    OBVIOUS
  <2> HIDE DEF S
  <2> QED BY <1>3, <1>4, <2>1, Induction
<1>6. l - k \in Nat /\ k + (l - k) = l
  OBVIOUS
<1> HIDE DEF S
<1>7. l - k \in S
  BY <1>5, <1>6
<1> QED BY <1>6, <1>7 DEF S

\* The numbers that the invariant adds.
LEMMA Positions ==
  ASSUME Sequences, Delivered, NEW start, Aligned(start)
  PROVE  /\ Len(sent) \in Nat /\ Len(received) \in Nat /\ Len(stream) \in Nat
         /\ Len(received) <= Len(sent) /\ Reading = Len(received) + 1
         /\ Behind \in Nat /\ got \in Nat /\ size \in Nat /\ got <= size
         /\ \A i \in 1 .. Len(sent) + 1 : start[i] \in Nat
         /\ ReadTo(start) = start[Reading] + Behind + got /\ ReadTo(start) \in Nat
         /\ WrittenTo(start) = ReadTo(start) + Len(stream) /\ WrittenTo(start) \in Nat
         /\ WrittenTo(start) <= start[Len(sent) + 1]
<1>1. Len(sent) \in Nat /\ Len(stream) \in Nat
  BY DEF Sequences
<1>2. Len(received) \in Nat
  <2>1. PICK S : received \in Seq(S)
    BY DEF Sequences, IsSequence
  <2> QED BY <2>1
<1>3. Behind \in Nat
  BY WireSizes DEF Behind
<1>4. /\ Len(received) <= Len(sent) /\ Reading = Len(received) + 1
      /\ got \in Nat /\ size \in Nat /\ got <= size
      /\ \A i \in 1 .. Len(sent) + 1 : start[i] \in Nat
      /\ WrittenTo(start) <= start[Len(sent) + 1]
  BY DEF Delivered, Aligned, Starts, ReaderIsRight, Reading
<1>5. start[Reading] \in Nat
  BY <1>1, <1>2, <1>4
<1>6. /\ ReadTo(start) = start[Reading] + Behind + got /\ ReadTo(start) \in Nat
      /\ WrittenTo(start) = ReadTo(start) + Len(stream) /\ WrittenTo(start) \in Nat
  <2>1. ReadTo(start) = start[Reading] + Behind + got
    BY DEF ReadTo
  <2>2. ReadTo(start) \in Nat
    BY <1>3, <1>4, <1>5, <2>1
  <2>3. WrittenTo(start) = ReadTo(start) + Len(stream)
    BY DEF WrittenTo
  <2> QED BY <1>1, <2>1, <2>2, <2>3
<1> QED BY <1>1, <1>2, <1>3, <1>4, <1>6

\* A stage ends within its message, and the last one with it.
LEMMA StageEnds ==
  ASSUME NEW m, IsMessage(m), StageFits(m), stage # "failed"
  PROVE  /\ Behind + size <= 1 + DataSize(m)
         /\ stage \notin {"type", "dimensions"} => Behind + size = 1 + DataSize(m)
         /\ stage # "type" /\ stage # "tiles" => Behind = 1
         /\ stage = "type" => Behind = 0
         /\ stage = "tiles" => Behind = 1 + DimensionsSize
         /\ size \in Nat
<1>1. DataSize(m) \in Nat
  BY Serialized DEF IsSerialized
<1>2. CASE stage = "type"
  BY <1>1, <1>2 DEF Behind, StageFits
<1>3. m.type = "map" => /\ DataSize(m) = DimensionsSize + Area(m) * SizePerTile
                        /\ Area(m) * SizePerTile \in Nat
  BY MessageForms, DataOfMap, MapTiles, WireSizes DEF HoldsData
<1>4. CASE stage = "dimensions"
  <2>1. m.type = "map" /\ size = DimensionsSize /\ Behind = 1
    BY <1>4 DEF Behind, StageFits
  <2> QED BY <1>3, <1>4, <2>1, WireSizes
<1>5. CASE stage = "tiles"
  <2>1. m.type = "map" /\ size = Area(m) * SizePerTile /\ Behind = 1 + DimensionsSize
    BY <1>5 DEF Behind, StageFits
  <2> QED BY <1>3, <1>5, <2>1, WireSizes
<1>6. CASE stage \notin {"type", "dimensions", "tiles"}
  <2>1. size = DataSize(m) /\ Behind = 1
    BY <1>6 DEF Behind, StageFits
  <2> QED BY <1>1, <1>6, <2>1
<1> QED BY <1>2, <1>4, <1>5, <1>6

\* Once more has been cut, less is claimed.
LEMMA MoreIsCut ==
  ASSUME Sequences, NEW k, IsCut(k), cut' = cut \/ \E i : cut' = Append(cut, i)
  PROVE  IsCut(k)'
BY Appended DEF IsCut, Sequences

\* What is cut is remembered.
LEMMA CutLast ==
  ASSUME Sequences, NEW i, NEW b, Cut(i, b)
  PROVE  IsCut(i)' /\ IsSequence(cut)'
BY Appended DEF Cut, IsCut, Sequences

-----------------------------------------------------------------------------
(* The steps of the reader.                                                *)

\* Between two stages only the account of what has been read changes.
LEMMA StillAligned ==
  ASSUME NEW start, Aligned(start),
         UNCHANGED <<sent, stream, buffer, written, broken, cut>>,
         ReadTo(start)' = ReadTo(start), ReaderIsRight'
  PROVE  Aligned(start)'
<1>1. Starts(start)'
  BY DEF Aligned, Starts
<1>2. WrittenTo(start)' = WrittenTo(start) /\ (WrittenTo(start) <= start[Len(sent) + 1])'
  BY DEF Aligned, WrittenTo
<1>3. StreamIsRight(start, ReadTo(start))'
  BY DEF Aligned, StreamIsRight, IsCut, IsSafe
<1>4. (~broken => WriterIsRight(start, WrittenTo(start)))'
  BY <1>2 DEF Aligned, WriterIsRight, IsCut
<1> QED BY <1>1, <1>2, <1>3, <1>4 DEF Aligned

\* At the end of a stage there is a message to read, and it has been read.
LEMMA StageIsRead ==
  ASSUME Sequences, Delivered, NEW start, Aligned(start), stage # "failed", got = size,
         stage = "type" \/ Len(received) < Len(sent)
  PROVE  /\ Len(received) < Len(sent) /\ Reading \in 1 .. Len(sent) /\ sent[Reading] \in Outgoing
         /\ IsMessage(sent[Reading]) /\ StageFits(sent[Reading])
         /\ ReadTo(start) = start[Reading] + Behind + size
         /\ stage \in {"type", "dimensions"} \/ ~IsCut(Reading)
              => Reads(sent[Reading], Behind, size)
<1>1. Len(received) < Len(sent)
  BY DEF Aligned, ReaderIsRight
<1>2. Reading \in 1 .. Len(sent)
  BY <1>1, Positions
<1>3. IsMessage(sent[Reading]) /\ sent[Reading] \in Outgoing
  BY <1>2, SentAreMessages DEF Sequences
<1>4. StageFits(sent[Reading]) /\ HeldIsRight(sent[Reading])
  BY <1>1 DEF Aligned, ReaderIsRight
<1>5. ReadTo(start) = start[Reading] + Behind + size
  BY Positions
<1>6. ASSUME stage \in {"type", "dimensions"} \/ ~IsCut(Reading)
      PROVE  Reads(sent[Reading], Behind, size)
  <2>1. Len(held) = size /\ \A j \in 1 .. size : held[j] = Serialize(sent[Reading])[Behind + j]
    BY <1>4, <1>6 DEF HeldIsRight
  <2>2. \A j \in 1 .. size : ByteAt(j) = held[j]
    BY <2>1, Positions DEF ByteAt
  <2> QED BY <2>1, <2>2 DEF Reads
<1> QED BY <1>1, <1>2, <1>3, <1>4, <1>5, <1>6

\* The next stage of the same message.
LEMMA NextStage ==
  ASSUME Sequences, Delivered, NEW start, Aligned(start), stage # "failed", got = size,
         stage = "type" \/ Len(received) < Len(sent), stage' # "failed", stage' # "type",
         NEW length, StartRead(stage', length), UNCHANGED received, Quietly,
         StageFits(sent[Reading])', size' \in Nat, Behind' = Behind + size
  PROVE  Delivered' /\ Aligned(start)'
<1>1. /\ Len(received) < Len(sent) /\ ReadTo(start) = start[Reading] + Behind + size
      /\ Behind \in Nat /\ size \in Nat /\ start[Reading] \in Nat
  BY StageIsRead, Positions
<1>2. /\ size' = length /\ got' = 0 /\ held' = <<>> /\ Reading' = Reading
      /\ UNCHANGED <<sent, stream, buffer, written, broken, cut, received>>
  BY DEF StartRead, Quietly, Reading, writerVars
<1>3. Delivered'
  BY <1>2 DEF Delivered, IsCut
<1>4. ReadTo(start)' = ReadTo(start)
  <2>1. ReadTo(start)' = start[Reading] + Behind' + 0
    BY <1>2 DEF ReadTo
  <2> QED BY <1>1, <2>1
<1>5. HeldIsRight(sent[Reading])'
  <2>1. got' \in {0, size'}
    BY <1>2
  <2>2. ASSUME got' = size' PROVE Len(held') = size' /\ \A j \in 1 .. size' : FALSE
    BY <1>2, <2>2
  <2> QED BY <2>1, <2>2 DEF HeldIsRight
<1>6. ReaderIsRight'
  <2>1. Len(received') < Len(sent') /\ got' \in Nat /\ got' <= size' /\ got' = 0 /\ held' = <<>>
    BY <1>1, <1>2
  <2> QED BY <1>5, <2>1 DEF ReaderIsRight
<1> QED BY <1>2, <1>3, <1>4, <1>6, StillAligned

\* The message has been read.
LEMMA Delivers ==
  ASSUME Sequences, Delivered, NEW start, Aligned(start), stage # "failed", got = size,
         stage = "type" \/ Len(received) < Len(sent),
         NEW m, Deliver(m), m.type = sent[Reading].type,
         ~IsCut(Reading) => m = sent[Reading],
         Behind + size = 1 + DataSize(sent[Reading])
  PROVE  Delivered' /\ Aligned(start)' /\ stage' # "failed"
<1>1. /\ Len(received) < Len(sent) /\ ReadTo(start) = start[Reading] + Behind + size
      /\ Reading \in 1 .. Len(sent)
  BY StageIsRead
<1>2. /\ stage' = "type" /\ size' = 1 /\ got' = 0 /\ held' = <<>>
      /\ received' = Append(received, m)
      /\ UNCHANGED <<sent, stream, buffer, written, broken, cut>>
  BY DEF Deliver, StartRead, Quietly, writerVars
<1>3. /\ Len(received) \in Nat /\ Len(received') = Len(received) + 1
      /\ \A i \in 1 .. Len(received) : received'[i] = received[i]
      /\ received'[Reading] = m
  BY <1>2, Appended DEF Sequences, Reading
<1>4. Reading = Len(received) + 1 /\ Reading' = Reading + 1 /\ Len(sent) \in Nat
  BY <1>3, Positions DEF Reading
<1>5. Delivered'
  <2>1. Len(received') <= Len(sent')
    BY <1>1, <1>2, <1>3, <1>4
  <2>2. ASSUME NEW i \in 1 .. Len(received')
        PROVE  received'[i].type = sent[i].type /\ (~IsCut(i) => received'[i] = sent[i])
    <3>1. CASE i = Reading
      BY <1>3, <3>1
    <3>2. CASE i # Reading
      <4>1. i \in 1 .. Len(received)
        BY <1>3, <1>4, <3>2
      <4> QED BY <1>3, <4>1 DEF Delivered
    <3> QED BY <3>1, <3>2
  <2> QED BY <1>2, <2>1, <2>2 DEF Delivered, IsCut
<1>6. ReadTo(start)' = ReadTo(start)
  <2>1. Behind' = 0
    BY <1>2 DEF Behind
  <2>2. start[Reading + 1] = start[Reading] + 1 + DataSize(sent[Reading])
        /\ start[Reading + 1] \in Nat /\ start[Reading] \in Nat /\ DataSize(sent[Reading]) \in Nat
    BY <1>1, <1>4, SentAreMessages DEF Aligned, Starts
  <2>3. ReadTo(start)' = start[Reading + 1] + 0 + 0
    BY <1>2, <1>4, <2>1 DEF ReadTo
  <2>4. Behind \in Nat /\ size \in Nat
    BY Positions
  <2> DEFINE a == start[Reading]
             d == DataSize(sent[Reading])
             b == Behind
  <2>5. /\ a \in Nat /\ d \in Nat /\ b \in Nat /\ size \in Nat /\ b + size = 1 + d
        /\ ReadTo(start) = a + b + size /\ ReadTo(start)' = (a + 1 + d) + 0 + 0
    BY <1>1, <2>2, <2>3, <2>4
  <2> HIDE DEF a, b, d
  <2> QED BY <2>5
<1>7. ReaderIsRight'
  <2>1. got' \in Nat /\ size' \in Nat /\ got' <= size' /\ (got' = 0 => held' = <<>>)
    BY <1>2
  <2>2. \A x : StageFits(x)' /\ HeldIsRight(x)'
    BY <1>2 DEF StageFits, HeldIsRight
  <2> QED BY <1>2, <2>1, <2>2 DEF ReaderIsRight
<1> QED BY <1>2, <1>5, <1>6, <1>7, StillAligned

\* No type is unknown, whatever has been cut.
LEMMA RejectTypeStep ==
  ASSUME Sequences, Delivered, NEW start, Aligned(start), RejectType
  PROVE  FALSE
<1>1. stage = "type" /\ got = size /\ ByteAt(1) > TypeCode("respawn")
  BY DEF RejectType, IsRead
<1>2. IsMessage(sent[Reading]) /\ StageFits(sent[Reading]) /\ Reads(sent[Reading], Behind, size)
  BY <1>1, StageIsRead
<1>3. Behind = 0 /\ size = 1
  BY <1>1, <1>2 DEF Behind, StageFits
<1> QED BY <1>1, <1>2, <1>3, TypeIsRead

\* The type leads to the stage that it has data for.
LEMMA ReadTypeStep ==
  ASSUME Sequences, Delivered, NEW start, Aligned(start), ReadType
  PROVE  Delivered' /\ Aligned(start)' /\ stage' # "failed"
<1> DEFINE m == sent[Reading]
<1>1. stage = "type" /\ got = size
  BY DEF ReadType, IsRead
<1>2. /\ IsMessage(m) /\ StageFits(m) /\ Reads(m, Behind, size) /\ Reading \in 1 .. Len(sent)
      /\ Len(received) < Len(sent)
  BY <1>1, StageIsRead
<1>3. Behind = 0 /\ size = 1
  BY <1>1, <1>2 DEF Behind, StageFits
<1>4. Types[ByteAt(1) + 1] = m.type
  BY <1>2, <1>3, TypeIsRead
<1>5. m.type \in ToSet(Types) /\ HoldsData(m)
  BY <1>2, MessageForms
<1>6. DataSize(m) \in Nat
  BY <1>2, SentAreMessages
<1>7. CASE m.type \in DOMAIN BodySizes
  <2>1. /\ StartRead(IF m.type = "map" THEN "dimensions" ELSE m.type, BodySizes[m.type])
        /\ UNCHANGED <<dims, received>> /\ Quietly
    BY <1>4, <1>7 DEF ReadType
  <2>2. /\ stage' = IF m.type = "map" THEN "dimensions" ELSE m.type
        /\ size' = BodySizes[m.type] /\ Reading' = Reading /\ sent' = sent
    BY <2>1 DEF StartRead, Reading, Quietly
  <2>3. m.type \in WithData
    BY <1>7, DataTypes
  <2>4. stage' \notin {"type", "tiles", "failed"} /\ Behind' = 1
    BY <2>2, <2>3 DEF WithData, Behind
  <2>5. StageFits(m)' /\ size' \in Nat
    <3>1. CASE m.type = "map"
      <4>1. stage' = "dimensions" /\ size' = DimensionsSize
        BY <2>2, <3>1 DEF BodySizes
      <4> QED BY <2>2, <3>1, <4>1, WireSizes DEF StageFits
    <3>2. CASE m.type # "map"
      <4>1. stage' = m.type /\ stage' # "dimensions"
        BY <2>2, <2>3, <3>2 DEF WithData
      <4>2. size' = DataSize(m)
        <5>1. CASE m.type = "tileChange"
          BY <1>5, <2>2, <5>1, DataOfTileChange DEF BodySizes
        <5>2. CASE m.type # "tileChange"
          <6>1. DataSize(m) = IF m.type \in DOMAIN BodySizes THEN BodySizes[m.type] ELSE 0
            BY <1>5, <3>2, <5>2, DataOfOthers
          <6> QED BY <1>7, <2>2, <6>1
        <5> QED BY <5>1, <5>2
      <4>3. m.type \in WithData \ {"map"} /\ m' = m
        BY <2>2, <2>3, <3>2
      <4>4. stage' = m'.type /\ m'.type \in WithData \ {"map"} /\ size' = DataSize(m')
        BY <4>1, <4>2, <4>3
      <4>5. StageFits(m)'
        BY <2>4, <4>1, <4>4 DEF StageFits
      <4> QED BY <1>6, <4>2, <4>5
    <3> QED BY <3>1, <3>2
  <2>6. StartRead(stage', size') /\ Behind' = Behind + size
    BY <1>3, <2>1, <2>2, <2>4
  <2>7. UNCHANGED received
    BY <2>1
  <2>8. Delivered' /\ Aligned(start)'
    BY <1>1, <2>1, <2>4, <2>5, <2>6, <2>7, NextStage
  <2> QED BY <2>4, <2>8
<1>8. CASE m.type \notin DOMAIN BodySizes
  <2>1. Deliver([type |-> m.type])
    BY <1>4, <1>8 DEF ReadType
  <2>2. m = [type |-> m.type]
    BY <1>5, <1>8 DEF HoldsData
  <2>3. m.type \notin {"map", "tileChange"}
    BY <1>8, DataTypes DEF WithData
  <2>4. DataSize(m) = 0
    BY <1>5, <1>8, <2>3, DataOfOthers
  <2>5. Deliver(m) /\ Behind + size = 1 + DataSize(m)
    BY <1>3, <2>1, <2>2, <2>4
  <2> QED BY <1>1, <2>5, Delivers
<1> QED BY <1>7, <1>8

\* The stages that end a message: what they deliver is what was sent.
LEMMA LastStep ==
  ASSUME Sequences, Delivered, NEW start, Aligned(start),
         ReadMagicBytes \/ ReadTileChange \/ ReadPlayerState \/ ReadDirection
  PROVE  Delivered' /\ Aligned(start)' /\ stage' # "failed"
<1> DEFINE m == sent[Reading]
<1>1. got = size /\ stage \in {"magicBytes", "tileChange", "playerState", "direction"}
  BY DEF ReadMagicBytes, ReadTileChange, ReadPlayerState, ReadDirection, IsRead
<1>2. Len(received) < Len(sent)
  BY <1>1 DEF Aligned, ReaderIsRight
<1>3. /\ IsMessage(m) /\ StageFits(m) /\ (~IsCut(Reading) => Reads(m, Behind, size))
  BY <1>1, <1>2, StageIsRead
<1>4. stage = m.type /\ size = DataSize(m) /\ Behind = 1
  BY <1>1, <1>3 DEF StageFits, Behind
<1>5. Behind + size = 1 + DataSize(m)
  BY <1>4
<1>6. ASSUME NEW x, Deliver(x), x.type = m.type, ~IsCut(Reading) => x = m
      PROVE  Delivered' /\ Aligned(start)' /\ stage' # "failed"
  BY <1>1, <1>2, <1>5, <1>6, Delivers
<1>7. ~IsCut(Reading) => Reads(m, 1, DataSize(m))
  BY <1>3, <1>4
<1>8. CASE ReadMagicBytes
  <2> DEFINE x == [type |-> stage, bytes |-> [i \in 1 .. size |-> ByteAt(i)]]
  <2>1. Deliver(x) /\ x.type = stage /\ m.type = "magicBytes"
    BY <1>4, <1>8 DEF ReadMagicBytes, IsRead
  <2>2. ~IsCut(Reading) => x = m
    BY <1>3, <1>4, <1>7, <2>1, OthersAreRead
  <2> HIDE DEF x
  <2> QED BY <1>4, <1>6, <2>1, <2>2
<1>9. CASE ReadTileChange
  <2> DEFINE x == [type |-> stage, row |-> Pair[1], column |-> Pair[2], tile |-> TileAt(1 + DimensionsSize)]
  <2>1. Deliver(x) /\ x.type = stage /\ m.type = "tileChange"
    BY <1>4, <1>9 DEF ReadTileChange, IsRead
  <2>2. ~IsCut(Reading) => x = m
    BY <1>3, <1>4, <1>7, <2>1, TileChangeIsRead
  <2> HIDE DEF x
  <2> QED BY <1>4, <1>6, <2>1, <2>2
<1>10. CASE ReadPlayerState
  <2> DEFINE x == [type |-> stage, status |-> ByteAt(1), direction |-> ByteAt(2)]
  <2>1. Deliver(x) /\ x.type = stage /\ m.type = "playerState"
    BY <1>4, <1>10 DEF ReadPlayerState, IsRead
  <2>2. ~IsCut(Reading) => x = m
    BY <1>3, <1>4, <1>7, <2>1, OthersAreRead
  <2> HIDE DEF x
  <2> QED BY <1>4, <1>6, <2>1, <2>2
<1>11. CASE ReadDirection
  <2> DEFINE x == [type |-> stage, direction |-> ByteAt(1)]
  <2>1. Deliver(x) /\ x.type = stage /\ m.type = "direction"
    BY <1>4, <1>11 DEF ReadDirection, IsRead
  <2>2. ~IsCut(Reading) => x = m
    BY <1>3, <1>4, <1>7, <2>1, OthersAreRead
  <2> HIDE DEF x
  <2> QED BY <1>4, <1>6, <2>1, <2>2
<1> QED BY <1>8, <1>9, <1>10, <1>11

\* The dimensions lead to as many tiles as the map has.
LEMMA ReadDimensionsStep ==
  ASSUME Sequences, Delivered, NEW start, Aligned(start), ReadDimensions
  PROVE  Delivered' /\ Aligned(start)' /\ stage' # "failed"
<1> DEFINE m == sent[Reading]
<1>1. got = size /\ stage = "dimensions"
  BY DEF ReadDimensions, IsRead
<1>2. Len(received) < Len(sent)
  BY <1>1 DEF Aligned, ReaderIsRight
<1>3. /\ IsMessage(m) /\ StageFits(m) /\ Reads(m, Behind, size)
  BY <1>1, <1>2, StageIsRead
<1>4. m.type = "map" /\ size = DimensionsSize /\ Behind = 1
  BY <1>1, <1>3 DEF StageFits, Behind
<1>5. Pair = <<m.width, m.height>>
  BY <1>3, <1>4, DimensionsAreRead
<1>6. IsMap(m)
  BY <1>3, <1>4, MessageForms DEF HoldsData
<1>7. /\ Area(m) \in Unsigned(CoordinateSize) /\ Area(m) \in Nat
      /\ Area(m) * SizePerTile \in Nat
  BY <1>6, MapTiles, WireSizes
<1>8. Area(m) % Capacity[CoordinateSize] = Area(m)
  BY <1>7, CoordinatesAre
<1>9. /\ dims' = <<m.width, m.height>>
      /\ StartRead("tiles", Area(m) * SizePerTile) /\ UNCHANGED received /\ Quietly
  <2>1. dims' = Pair
    BY DEF ReadDimensions
  <2>2. dims'[1] * dims'[2] = Area(m)
    BY <1>5, <2>1 DEF Area
  <2> QED BY <1>5, <1>8, <2>1, <2>2 DEF ReadDimensions
<1>10. /\ stage' = "tiles" /\ size' = Area(m) * SizePerTile /\ Reading' = Reading /\ sent' = sent
  BY <1>9 DEF StartRead, Reading, Quietly
<1>11. StageFits(m)' /\ size' \in Nat
  <2>1. m' = m
    BY <1>10
  <2>2. stage' = "tiles" /\ m'.type = "map" /\ dims' = <<m'.width, m'.height>>
        /\ size' = Area(m') * SizePerTile
    BY <1>4, <1>9, <1>10, <2>1
  <2> QED BY <1>7, <1>10, <2>2 DEF StageFits, Area
<1>12. Behind' = Behind + size
  BY <1>4, <1>10, WireSizes DEF Behind
<1>13. stage' # "failed" /\ stage' # "type" /\ StartRead(stage', Area(m) * SizePerTile)
       /\ UNCHANGED received
  BY <1>9, <1>10
<1>14. Delivered' /\ Aligned(start)'
  BY <1>1, <1>2, <1>9, <1>11, <1>12, <1>13, NextStage
<1> QED BY <1>13, <1>14

\* There is room for the tiles that are read.
LEMMA TilesAreCounted ==
  ASSUME Sequences, Delivered, NEW start, Aligned(start), IsRead("tiles")
  PROVE  /\ IsCounted /\ got = size /\ stage = "tiles" /\ Len(received) < Len(sent)
         /\ IsMessage(sent[Reading]) /\ sent[Reading].type = "map"
         /\ dims = <<sent[Reading].width, sent[Reading].height>>
         /\ size = Area(sent[Reading]) * SizePerTile
         /\ Behind = 1 + DimensionsSize
         /\ ~IsCut(Reading) => Reads(sent[Reading], 1 + DimensionsSize, size)
<1> DEFINE m == sent[Reading]
<1>1. got = size /\ stage = "tiles"
  BY DEF IsRead
<1>2. Len(received) < Len(sent)
  BY <1>1 DEF Aligned, ReaderIsRight
<1>3. /\ IsMessage(m) /\ StageFits(m) /\ (~IsCut(Reading) => Reads(m, Behind, size))
  BY <1>1, <1>2, StageIsRead
<1>4. /\ m.type = "map" /\ size = Area(m) * SizePerTile /\ Behind = 1 + DimensionsSize
      /\ dims = <<m.width, m.height>>
  BY <1>1, <1>3 DEF StageFits, Behind
<1>5. dims[1] * dims[2] = Area(m)
  BY <1>4 DEF Area
<1>6. IsCounted
  BY <1>4, <1>5 DEF IsCounted
<1> QED BY <1>1, <1>2, <1>3, <1>4, <1>6

\* The tiles end the map.
LEMMA ReadTilesStep ==
  ASSUME Sequences, Delivered, NEW start, Aligned(start), ReadTiles
  PROVE  Delivered' /\ Aligned(start)' /\ stage' # "failed"
<1> DEFINE m == sent[Reading]
           x == [type |-> "map", width |-> m.width, height |-> m.height,
                 map |-> [c \in (0 .. m.height - 1) \X (0 .. m.width - 1) |->
                            TileAt(SizePerTile * (m.width * c[1] + c[2]) + 1)]]
<1>1. /\ got = size /\ stage = "tiles" /\ Len(received) < Len(sent)
      /\ IsMessage(m) /\ m.type = "map"
      /\ dims = <<m.width, m.height>>
      /\ size = Area(m) * SizePerTile
      /\ Behind = 1 + DimensionsSize
      /\ ~IsCut(Reading) => Reads(m, 1 + DimensionsSize, size)
  BY TilesAreCounted DEF ReadTiles
<1>2. dims[1] = m.width /\ dims[2] = m.height
  BY <1>1
<1>3. Deliver(x)
  BY <1>2 DEF ReadTiles
<1>4. x.type = m.type
  BY <1>1
<1>5. ASSUME ~IsCut(Reading) PROVE x = m
  <2>1. m.map = [c \in (0 .. m.height - 1) \X (0 .. m.width - 1) |->
                   TileAt(SizePerTile * (m.width * c[1] + c[2]) + 1)]
    BY <1>1, <1>5, MapIsRead
  <2>2. m = [type |-> m.type, width |-> m.width, height |-> m.height, map |-> m.map]
    BY <1>1, MessageForms DEF HoldsData
  <2> QED BY <1>1, <2>1, <2>2
<1>6. Behind + size = 1 + DataSize(m)
  <2>1. IsMap(m)
    BY <1>1, MessageForms DEF HoldsData
  <2>2. DataSize(m) = DimensionsSize + size /\ size \in Nat
    BY <1>1, <2>1, DataOfMap, Positions
  <2> QED BY <1>1, <2>2, WireSizes
<1> HIDE DEF x
<1>7. stage # "failed"
  BY <1>1
<1> QED BY <1>1, <1>3, <1>4, <1>5, <1>6, <1>7, Delivers

\* The reader goes on to the next stage, or to the next message.
LEMMA DeserializeStep ==
  ASSUME Sequences, Delivered, NEW start, Aligned(start), Deserialize
  PROVE  Delivered' /\ Aligned(start)' /\ stage' # "failed"
<1>1. ~Overrun
  BY TilesAreCounted DEF Overrun
<1> QED
  BY <1>1, RejectTypeStep, ReadTypeStep, LastStep, ReadDimensionsStep, ReadTilesStep DEF Deserialize

\* What is read is the next of what is on its way.
LEMMA ReadStep ==
  ASSUME Sequences, Delivered, NEW start, Aligned(start), ~torn',
         NEW count \in 1 .. Len(stream), Read(count)
  PROVE  Delivered' /\ Aligned(start)' /\ stage' # "failed"
<1> DEFINE m == sent[Reading]
<1>1. /\ stage # "failed" /\ stage' = stage /\ size' = size /\ dims' = dims
      /\ count <= size - got /\ got' = got + count
      /\ held' = SubSeq(stream, 1, count) \o SubSeq(held, count + 1, Len(held))
      /\ stream' = SubSeq(stream, count + 1, Len(stream))
      /\ UNCHANGED <<buffer, written, broken, sent, received>>
  BY DEF Read, writerVars
<1>2. /\ Len(sent) \in Nat /\ Len(received) \in Nat /\ Len(stream) \in Nat /\ count \in Nat
      /\ Reading = Len(received) + 1 /\ Len(received) <= Len(sent)
      /\ Behind \in Nat /\ got \in Nat /\ size \in Nat /\ got <= size
      /\ \A i \in 1 .. Len(sent) + 1 : start[i] \in Nat
      /\ ReadTo(start) = start[Reading] + Behind + got /\ ReadTo(start) \in Nat
      /\ WrittenTo(start) = ReadTo(start) + Len(stream) /\ WrittenTo(start) \in Nat
      /\ WrittenTo(start) <= start[Len(sent) + 1]
  BY Positions
<1>3. Reading' = Reading /\ Behind' = Behind
  BY <1>1 DEF Reading, Behind
<1>4. Len(received) < Len(sent)
  BY <1>1, <1>2 DEF Aligned, ReaderIsRight
<1>5. Reading \in 1 .. Len(sent) /\ start[Reading] \in Nat
  BY <1>2, <1>4
<1>6. IsMessage(m) /\ StageFits(m) /\ HeldIsRight(m)
  BY <1>4, <1>5, SentAreMessages DEF Aligned, ReaderIsRight
<1>7. /\ stream' \in Seq(Bytes) /\ Len(stream') = Len(stream) - count
      /\ \A i \in 1 .. Len(stream') : stream'[i] = stream[count + i]
  <2>1. IsPart(stream', stream, count + 1, Len(stream))
    <3>1. count + 1 \in Nat \ {0} /\ Len(stream) \in 0 .. Len(stream) /\ stream \in Seq(Bytes)
      BY <1>2 DEF Sequences
    <3> QED BY <1>1, <3>1, Part
  <2> QED BY <1>2, <2>1 DEF IsPart
<1>8. ReadTo(start)' = ReadTo(start) + count /\ WrittenTo(start)' = WrittenTo(start)
  <2>1. ReadTo(start)' = start[Reading] + Behind + (got + count)
    BY <1>1, <1>3 DEF ReadTo
  <2>2. ReadTo(start)' = ReadTo(start) + count
    <3> DEFINE a == start[Reading]
               b == Behind
    <3>1. /\ a \in Nat /\ b \in Nat /\ got \in Nat /\ count \in Nat
          /\ ReadTo(start) = a + b + got /\ ReadTo(start)' = a + b + (got + count)
      BY <1>2, <1>5, <2>1
    <3> HIDE DEF a, b
    <3> QED BY <3>1
  <2>3. WrittenTo(start)' = ReadTo(start)' + Len(stream')
    BY DEF WrittenTo
  <2> DEFINE c == Len(stream)
             d == Len(stream')
  <2>4. /\ c \in Nat /\ count \in Nat /\ d = c - count /\ ReadTo(start) \in Nat
        /\ WrittenTo(start) = ReadTo(start) + c /\ WrittenTo(start)' = (ReadTo(start) + count) + d
    BY <1>2, <1>7, <2>2, <2>3
  <2> HIDE DEF c, d
  <2> QED BY <2>2, <2>4
<1>9. \/ got' = size /\ cut' = cut
      \/ /\ got' # size /\ Cut(Reading, stage = "dimensions")
         /\ IsCut(Reading)' /\ stage # "dimensions"
  <2>1. CASE got' = size
    BY <1>1, <2>1 DEF Read
  <2>2. CASE got' # size
    <3>1. Cut(Reading, stage = "dimensions")
      BY <1>1, <2>2 DEF Read, Reading
    <3>2. IsCut(Reading)'
      <4>1. ToSet(cut') = ToSet(cut') /\ Reading \in ToSet(cut')
        BY <3>1, Appended DEF Cut, Sequences
      <4> QED BY <1>3, <4>1 DEF IsCut
    <3>3. stage # "dimensions"
      BY <3>1 DEF Cut
    <3> QED BY <2>2, <3>1, <3>2, <3>3
  <2> QED BY <2>1, <2>2
<1>10. ASSUME NEW k, IsCut(k) PROVE IsCut(k)'
  <2>1. cut' = cut \/ \E i : cut' = Append(cut, i)
    BY <1>9 DEF Cut
  <2> QED BY <1>10, <2>1, MoreIsCut
<1>11. Delivered'
  BY <1>1, <1>10 DEF Delivered
<1>12. Starts(start)'
  BY <1>1 DEF Aligned, Starts
<1>13. StreamIsRight(start, ReadTo(start))'
  <2>1. ASSUME NEW i \in 1 .. Len(stream'), NEW k \in 1 .. Len(sent),
               NEW j \in 1 .. 1 + DataSize(sent[k]),
               ReadTo(start)' + i = start[k] + j, (IsCut(k) => IsSafe(k, j))'
        PROVE  (stream[i] = Serialize(sent[k])[j])'
    <3>a. count + i \in 1 .. Len(stream) /\ stream'[i] = stream[count + i]
      <4> DEFINE a == Len(stream)
                 b == Len(stream')
      <4>1. a \in Nat /\ count \in Nat /\ b = a - count /\ i \in 1 .. b
        BY <1>2, <1>7
      <4>2. count + i \in 1 .. a
        <5> HIDE DEF a, b
        <5> QED BY <4>1
      <4>3. stream'[i] = stream[count + i]
        BY <1>7
      <4> QED BY <4>2, <4>3
    <3>b. ReadTo(start) + (count + i) = start[k] + j
      <4>1. (ReadTo(start) + count) + i = start[k] + j
        BY <1>8, <2>1
      <4>2. ReadTo(start) \in Nat /\ count \in Nat /\ i \in Nat
        BY <1>2
      <4> QED BY <4>1, <4>2
    <3>0. sent' = sent
      BY <1>1
    <3>1. count + i \in 1 .. Len(stream) /\ stream'[i] = stream[count + i]
          /\ ReadTo(start) + (count + i) = start[k] + j
      BY <3>a, <3>b
    <3>s. IsSafe(k, j)' <=> IsSafe(k, j)
      BY <3>0 DEF IsSafe
    <3>2. IsCut(k) => IsSafe(k, j)
      BY <1>10, <2>1, <3>s
    <3> QED BY <3>0, <3>1, <3>2 DEF Aligned, StreamIsRight
  <2>2. sent' = sent
    BY <1>1
  <2>3. SUFFICES ASSUME NEW i \in (1 .. Len(stream))', NEW k \in (1 .. Len(sent))',
                        NEW j \in (1 .. 1 + DataSize(sent[k]))',
                        (ReadTo(start) + i = start[k] + j)', (IsCut(k) => IsSafe(k, j))'
                 PROVE  (stream[i] = Serialize(sent[k])[j])'
    BY DEF StreamIsRight
  <2>4. k \in 1 .. Len(sent) /\ j \in 1 .. 1 + DataSize(sent[k])
    BY <2>2
  <2>5. i \in 1 .. Len(stream') /\ ReadTo(start)' + i = start[k] + j
    BY <2>3
  <2> QED BY <2>1, <2>3, <2>4, <2>5
<1>14. (WrittenTo(start) <= start[Len(sent) + 1])'
  BY <1>1, <1>2, <1>8
<1>15. (~broken => WriterIsRight(start, WrittenTo(start)))'
  <2>1. SUFFICES ASSUME ~broken PROVE WriterIsRight(start, WrittenTo(start))'
    BY <1>1
  <2>2. WriterIsRight(start, WrittenTo(start))
    BY <2>1 DEF Aligned
  <2> QED BY <1>1, <1>8, <1>10, <2>2 DEF WriterIsRight
<1>16. ReaderIsRight'
  <2>1. got' \in Nat /\ size' \in Nat /\ got' <= size' /\ got' # 0
    BY <1>1, <1>2
  <2>2. StageFits(m)'
    BY <1>1, <1>3, <1>6 DEF StageFits
  <2>3. HeldIsRight(m)'
    <3>1. SUFFICES ASSUME stage \in {"type", "dimensions"} \/ ~IsCut(Reading)'
                   PROVE  got' = size /\ Len(held') = size
                          /\ \A j \in 1 .. size : held'[j] = Serialize(m)[Behind + j]
      BY <1>1, <1>3 DEF HeldIsRight
    <3>2. got' = size /\ cut' = cut
      <4>1. stage = "type" => size = 1
        BY <1>6 DEF StageFits
      <4>2. stage = "type" => got' = size
        BY <1>1, <1>2, <4>1
      <4> QED BY <1>9, <3>1, <4>2
    <3>3. stage \in {"type", "dimensions"} \/ ~IsCut(Reading)
      BY <1>3, <1>10, <3>1 DEF IsCut
    <3>4. got \in {0, size}
      BY <1>6, <3>3 DEF HeldIsRight
    <3>5. got = 0 /\ held = <<>> /\ count = size
      <4>1. got = 0 /\ count = size
        BY <1>1, <1>2, <3>2, <3>4
      <4> QED BY <4>1 DEF Aligned, ReaderIsRight
    <3>6. Len(held') = size /\ \A j \in 1 .. size : held'[j] = stream[j]
      <4>1. IsPart(SubSeq(stream, 1, count), stream, 1, count)
        <5>1. 1 \in Nat \ {0} /\ count \in 0 .. Len(stream) /\ stream \in Seq(Bytes)
          BY <1>2 DEF Sequences
        <5> QED BY <5>1, Part
      <4>2. IsPart(SubSeq(held, count + 1, Len(held)), held, count + 1, Len(held))
        <5>1. count + 1 \in Nat \ {0} /\ Len(held) \in 0 .. Len(held) /\ held \in Seq(Bytes)
          BY <1>2, <3>5 DEF Sequences
        <5> QED BY <5>1, Part
      <4>3. Len(held) = 0
        BY <3>5
      <4> DEFINE s == SubSeq(stream, 1, count)
                 t == SubSeq(held, count + 1, Len(held))
      <4>4. /\ s \in Seq(Bytes) /\ Len(s) = count /\ t \in Seq(Bytes) /\ Len(t) = 0
            /\ \A i \in 1 .. count : s[i] = stream[i]
        BY <1>2, <4>1, <4>2, <4>3 DEF IsPart
      <4>5. held' = s \o t
        BY <1>1
      <4> HIDE DEF s, t
      <4>6. IsJoined(held', s, t)
        BY <4>4, <4>5, Joined
      <4> QED BY <1>2, <3>5, <4>4, <4>6 DEF IsJoined
    <3>7. ASSUME NEW j \in 1 .. size PROVE stream[j] = Serialize(m)[Behind + j]
      <4>1. Behind + size <= 1 + DataSize(m) /\ DataSize(m) \in Nat
        BY <1>1, <1>5, <1>6, StageEnds, SentAreMessages
      <4>2. Behind + j \in 1 .. 1 + DataSize(m)
        <5> DEFINE d == DataSize(m)
        <5> HIDE DEF d
        <5> QED BY <1>2, <4>1 DEF d
      <4>3. j \in 1 .. Len(stream) /\ ReadTo(start) + j = start[Reading] + (Behind + j)
        BY <1>2, <1>5, <3>5
      <4>4. stage \in {"type", "dimensions"} => IsSafe(Reading, Behind + j)
        <5>1. CASE stage = "type"
          BY <1>6, <5>1 DEF StageFits, Behind, IsSafe
        <5>2. CASE stage = "dimensions"
          <6>1. m.type = "map" /\ size = DimensionsSize /\ Behind = 1
            BY <1>6, <5>2 DEF StageFits, Behind
          <6> QED BY <6>1, WireSizes DEF IsSafe
        <5> QED BY <5>1, <5>2
      <4> QED BY <1>5, <3>3, <4>2, <4>3, <4>4 DEF Aligned, StreamIsRight
    <3> QED BY <3>2, <3>6, <3>7
  <2> QED BY <1>1, <1>3, <1>4, <2>1, <2>2, <2>3 DEF ReaderIsRight
<1> QED BY <1>1, <1>11, <1>12, <1>13, <1>14, <1>15, <1>16 DEF Aligned

-----------------------------------------------------------------------------
(* The steps of the writer.                                                *)

\* The reader does not see what is cut behind it.
LEMMA ReaderStays ==
  ASSUME Sequences, ReaderIsRight, UNCHANGED <<stage, size, got, held, dims, received, sent>>,
         \A k : IsCut(k) => IsCut(k)'
  PROVE  ReaderIsRight'
<1>1. Reading' = Reading /\ Behind' = Behind
  BY DEF Reading, Behind
<1>2. \A m : StageFits(m)' = StageFits(m)
  BY DEF StageFits
<1>3. ASSUME NEW m, HeldIsRight(m) PROVE HeldIsRight(m)'
  BY <1>1, <1>3 DEF HeldIsRight
<1> QED BY <1>1, <1>2, <1>3 DEF ReaderIsRight

\* What is written is the next of the message, or behind what may be garbled of it.
LEMMA WriteStep ==
  ASSUME Sequences, Delivered, NEW start, Aligned(start), ~torn',
         NEW count \in 1 .. Len(buffer), Write(count)
  PROVE  Delivered' /\ Aligned(start)'
<1> DEFINE n == Len(sent)
           m == sent[n]
           part == SubSeq(buffer, 1, count)
<1>1. /\ ~broken /\ count <= Len(buffer) - written /\ stream' = stream \o part
      /\ UNCHANGED <<stage, size, got, held, garbage, dims, broken, sent, received>>
  BY DEF Write, readerVars
<1>2. /\ Len(sent) \in Nat /\ Len(received) \in Nat /\ Len(stream) \in Nat
      /\ ReadTo(start) \in Nat /\ WrittenTo(start) \in Nat
      /\ \A i \in 1 .. Len(sent) + 1 : start[i] \in Nat
      /\ WrittenTo(start) = ReadTo(start) + Len(stream)
  BY Positions
<1>3. buffer \in Seq(Bytes) /\ stream \in Seq(Bytes) /\ count \in Nat /\ buffer # <<>>
  BY DEF Sequences
<1>4. /\ n > 0 /\ buffer = Serialize(m) /\ written \in 0 .. DataSize(m)
      /\ WrittenTo(start) = start[n] + written
      /\ written > 0 => IsCut(n) /\ (m.type = "map" => written >= 1 + DimensionsSize)
  BY <1>1, <1>3 DEF Aligned, WriterIsRight
<1>5. n \in 1 .. Len(sent) /\ n \in Nat
  BY <1>2, <1>4
<1>6. /\ IsMessage(m) /\ DataSize(m) \in Nat /\ Len(buffer) = 1 + DataSize(m)
      /\ buffer[1] = TypeCode(m.type) /\ written \in Nat
      /\ start[n] \in Nat /\ start[n + 1] = start[n] + 1 + DataSize(m)
  <2>1. IsMessage(m) /\ DataSize(m) \in Nat
    BY <1>5, SentAreMessages
  <2>2. IsSerialized(m)
    BY <2>1, Serialized
  <2>3. /\ Len(Serialize(m)) = 1 + DataSize(m)
        /\ Serialize(m)[1] = TypeCode(m.type)
    BY <2>2 DEF IsSerialized
  <2>4. start[n] \in Nat /\ start[n + 1] = start[n] + 1 + DataSize(m)
    <3>1. Starts(start)
      BY DEF Aligned
    <3>2. start[n] \in Nat
      BY <1>2, <1>5
    <3> QED BY <1>5, <3>1, <3>2 DEF Starts
  <2> QED BY <1>4, <2>1, <2>3, <2>4
<1>7. part \in Seq(Bytes) /\ Len(part) = count /\ \A i \in 1 .. count : part[i] = buffer[i]
  <2>1. IsPart(part, buffer, 1, count)
    <3>1. 1 \in Nat \ {0} /\ count \in 0 .. Len(buffer)
      BY <1>3
    <3> QED BY <1>3, <3>1, Part
  <2> QED BY <1>3, <2>1 DEF IsPart
<1> HIDE DEF part
<1>8. /\ stream' \in Seq(Bytes) /\ Len(stream') = Len(stream) + count
      /\ \A i \in 1 .. Len(stream) : stream'[i] = stream[i]
      /\ \A i \in 1 .. count : stream'[Len(stream) + i] = buffer[i]
  <2>1. IsJoined(stream', stream, part)
    BY <1>1, <1>3, <1>7, Joined
  <2> QED BY <1>7, <2>1 DEF IsJoined
<1>9. ReadTo(start)' = ReadTo(start) /\ WrittenTo(start)' = WrittenTo(start) + count
  <2>1. ReadTo(start)' = ReadTo(start)
    BY <1>1 DEF ReadTo, Behind, Reading
  <2> QED BY <1>2, <1>3, <1>8, <2>1 DEF WrittenTo
<1>10. \/ count = Len(buffer) - written /\ buffer' = <<>> /\ written' = 0 /\ cut' = cut
       \/ /\ count # Len(buffer) - written
          /\ written' = written + count /\ buffer' = buffer
          /\ Cut(n, Head(buffer) = TypeCode("map") /\ written' < 1 + DimensionsSize)
  <2>1. CASE count = Len(buffer) - written
    BY <2>1 DEF Write
  <2>2. CASE count # Len(buffer) - written
    BY <2>2 DEF Write
  <2> QED BY <2>1, <2>2
<1>11. ASSUME NEW k, IsCut(k) PROVE IsCut(k)'
  <2>1. cut' = cut \/ \E i : cut' = Append(cut, i)
    BY <1>10 DEF Cut
  <2> QED BY <1>11, <2>1, MoreIsCut
<1>12. Delivered'
  BY <1>1, <1>11 DEF Delivered
<1>13. Starts(start)'
  BY <1>1 DEF Aligned, Starts
<1>14. (WrittenTo(start) <= start[Len(sent) + 1])'
  <2>1. WrittenTo(start) + count <= start[n + 1]
    <3> DEFINE d == DataSize(m)
               a == start[n]
               b == Len(buffer)
               c == start[n + 1]
               e == WrittenTo(start)
    <3>1. /\ d \in Nat /\ a \in Nat /\ b = 1 + d /\ c = a + 1 + d /\ e = a + written
          /\ count <= b - written /\ written \in Nat /\ count \in Nat
      BY <1>1, <1>3, <1>4, <1>6
    <3> HIDE DEF a, b, c, d, e
    <3>2. e + count <= c
      BY <3>1
    <3> QED BY <3>2 DEF e, c
  <2> QED BY <1>1, <1>9, <2>1
<1>15. StreamIsRight(start, ReadTo(start))'
  <2>0. sent' = sent
    BY <1>1
  <2>1. ASSUME NEW i \in 1 .. Len(stream'), NEW k \in 1 .. Len(sent),
               NEW j \in 1 .. 1 + DataSize(sent[k]),
               ReadTo(start)' + i = start[k] + j, (IsCut(k) => IsSafe(k, j))'
        PROVE  (stream[i] = Serialize(sent[k])[j])'
    <3>0. ReadTo(start) + i = start[k] + j /\ i \in Nat /\ j \in Nat
      <4>1. DataSize(sent[k]) \in Nat
        BY SentAreMessages
      <4>2. Len(stream') \in Nat
        BY <1>2, <1>3, <1>8
      <4> QED BY <1>9, <2>1, <4>1, <4>2
    <3>1. IsSafe(k, j)' <=> IsSafe(k, j)
      BY <2>0 DEF IsSafe
    <3>2. IsCut(k) => IsSafe(k, j)
      BY <1>11, <2>1, <3>1
    <3>3. CASE i \in 1 .. Len(stream)
      <4>1. stream[i] = Serialize(sent[k])[j]
        BY <3>0, <3>2, <3>3 DEF Aligned, StreamIsRight
      <4> QED BY <1>8, <2>0, <3>3, <4>1
    <3>4. CASE i \notin 1 .. Len(stream)
      <4> DEFINE x == i - Len(stream)
      <4>1. x \in 1 .. count /\ i = Len(stream) + x
        <5> DEFINE a == Len(stream)
                   b == Len(stream')
        <5>1. a \in Nat /\ b = a + count /\ i \in 1 .. b /\ i \notin 1 .. a /\ count \in Nat
          BY <1>2, <1>3, <1>8, <3>4
        <5>2. i - a \in 1 .. count /\ i = a + (i - a)
          <6> HIDE DEF a, b
          <6> QED BY <5>1
        <5> QED BY <5>2
      <4> HIDE DEF x
      <4>2. stream'[i] = buffer[x]
        BY <1>8, <4>1
      <4>3. start[k] + j = start[n] + written + x
        <5> DEFINE a == Len(stream)
                   e == WrittenTo(start)
                   f == ReadTo(start)
                   g == start[k]
                   h == start[n]
        <5>1. /\ a \in Nat /\ e = f + a /\ f \in Nat /\ g \in Nat /\ h \in Nat /\ written \in Nat
              /\ e = h + written /\ i = a + x /\ f + i = g + j /\ x \in Nat
          <6>1. a \in Nat /\ e = f + a /\ f \in Nat /\ g \in Nat
            BY <1>2
          <6>2. h \in Nat /\ written \in Nat /\ e = h + written
            BY <1>4, <1>6
          <6>3. i = a + x /\ f + i = g + j /\ x \in Nat
            BY <1>3, <3>0, <4>1
          <6> QED BY <6>1, <6>2, <6>3
        <5>2. g + j = h + written + x
          <6> HIDE DEF a, e, f, g, h
          <6> QED BY <3>0, <5>1
        <5> QED BY <5>2
      <4>4. k = n
        <5>1. SUFFICES ASSUME k < n PROVE FALSE
          BY <1>2, <1>5
        <5>2. start[k + 1] = start[k] + 1 + DataSize(sent[k]) /\ DataSize(sent[k]) \in Nat
          BY SentAreMessages DEF Aligned, Starts
        <5>3. start[k + 1] <= start[n]
          <6>1. k + 1 \in 1 .. Len(sent) + 1 /\ n \in 1 .. Len(sent) + 1 /\ k + 1 <= n
            BY <1>2, <1>5, <5>1
          <6> QED BY <6>1, StartsGrow DEF Aligned
        <5> DEFINE g == start[k]
                   h == start[n]
                   l == start[k + 1]
                   d == DataSize(sent[k])
        <5>4. /\ g \in Nat /\ h \in Nat /\ l = g + 1 + d /\ d \in Nat /\ l <= h
              /\ g + j = h + written + x /\ written \in Nat /\ x \in Nat /\ x >= 1 /\ j \in 1 .. 1 + d
          BY <1>2, <1>3, <1>6, <4>1, <4>3, <5>2, <5>3
        <5> HIDE DEF g, h, l, d
        <5> QED BY <5>4
      <4>5. j = written + x
        <5> DEFINE h == start[n]
        <5>1. h \in Nat /\ h + j = h + written + x /\ written \in Nat /\ x \in Nat
          BY <1>3, <1>6, <4>1, <4>3, <4>4
        <5> HIDE DEF h
        <5> QED BY <3>0, <5>1
      <4>6. CASE written = 0
        <5>1. j = x
          BY <1>3, <4>1, <4>5, <4>6
        <5> QED BY <1>4, <2>0, <4>2, <4>4, <5>1
      <4>7. CASE written # 0
        <5>1. written > 0 /\ j # 1
          BY <1>3, <1>6, <4>1, <4>5, <4>7
        <5>2. m.type = "map" => ~(j <= 1 + DimensionsSize)
          BY <1>3, <1>4, <1>6, <4>1, <4>5, <5>1, WireSizes
        <5>3. IsCut(k) /\ ~IsSafe(k, j)
          BY <1>4, <4>4, <5>1, <5>2 DEF IsSafe
        <5> QED BY <3>2, <5>3
      <4> QED BY <4>6, <4>7
    <3> QED BY <3>3, <3>4
  <2>3. SUFFICES ASSUME NEW i \in (1 .. Len(stream))', NEW k \in (1 .. Len(sent))',
                        NEW j \in (1 .. 1 + DataSize(sent[k]))',
                        (ReadTo(start) + i = start[k] + j)', (IsCut(k) => IsSafe(k, j))'
                 PROVE  (stream[i] = Serialize(sent[k])[j])'
    BY DEF StreamIsRight
  <2>4. k \in 1 .. Len(sent) /\ j \in 1 .. 1 + DataSize(sent[k])
    BY <2>0
  <2>5. i \in 1 .. Len(stream') /\ ReadTo(start)' + i = start[k] + j
    BY <2>3
  <2> QED BY <2>1, <2>3, <2>4, <2>5
<1>16. WriterIsRight(start, WrittenTo(start))'
  <2>1. CASE count = Len(buffer) - written /\ buffer' = <<>> /\ written' = 0 /\ cut' = cut
    <3>1. WrittenTo(start)' = start[n + 1]
      <4> DEFINE d == DataSize(m)
                 a == start[n]
                 b == Len(buffer)
                 c == start[n + 1]
                 e == WrittenTo(start)
      <4>1. /\ d \in Nat /\ a \in Nat /\ b = 1 + d /\ c = a + 1 + d /\ e = a + written
            /\ count = b - written /\ written \in Nat /\ count \in Nat
        BY <1>3, <1>4, <1>6, <2>1
      <4>2. e + count = c
        <5> HIDE DEF a, b, c, d, e
        <5> QED BY <4>1
      <4> QED BY <1>9, <4>2
    <3> QED BY <1>1, <2>1, <3>1 DEF WriterIsRight
  <2>2. CASE /\ count # Len(buffer) - written
             /\ written' = written + count /\ buffer' = buffer
             /\ Cut(n, Head(buffer) = TypeCode("map") /\ written' < 1 + DimensionsSize)
    <3>1. written' \in 0 .. DataSize(m) /\ written' \in Nat
      <4> DEFINE d == DataSize(m)
                 b == Len(buffer)
      <4>1. /\ d \in Nat /\ b = 1 + d /\ count # b - written /\ count <= b - written
            /\ written \in Nat /\ count \in Nat
        BY <1>1, <1>3, <1>6, <2>2
      <4>2. written + count \in 0 .. d
        <5> HIDE DEF b, d
        <5> QED BY <4>1
      <4>3. written + count \in Nat
        BY <1>3, <1>6
      <4> QED BY <2>2, <4>2, <4>3
    <3>2. WrittenTo(start)' = start[n] + written'
      <4> DEFINE h == start[n]
                 e == WrittenTo(start)
      <4>1. h \in Nat /\ written \in Nat /\ count \in Nat /\ e = h + written
        BY <1>3, <1>4, <1>6
      <4>2. e + count = h + (written + count)
        <5> HIDE DEF h, e
        <5> QED BY <4>1
      <4> QED BY <1>9, <2>2, <4>2
    <3>3. n \in ToSet(cut')
      BY <2>2, Appended DEF Cut, Sequences
    <3>4. ASSUME m.type = "map" PROVE written' >= 1 + DimensionsSize
      <4>1. Head(buffer) = buffer[1]
        BY <1>3
      <4>2. Head(buffer) = TypeCode("map")
        BY <1>6, <3>4, <4>1
      <4>3. ~(written' < 1 + DimensionsSize)
        BY <2>2, <4>2 DEF Cut
      <4> QED BY <3>1, <4>3, WireSizes
    <3>5. sent' = sent /\ Len(sent') = n
      BY <1>1
    <3> QED BY <1>3, <1>4, <2>2, <3>1, <3>2, <3>3, <3>4, <3>5 DEF WriterIsRight, IsCut
  <2> QED BY <1>10, <2>1, <2>2
<1>17. ReaderIsRight'
  <2>1. ReaderIsRight /\ UNCHANGED <<stage, size, got, held, dims, received, sent>>
    BY <1>1 DEF Aligned
  <2> QED BY <1>11, <2>1, ReaderStays
<1> QED BY <1>12, <1>13, <1>14, <1>15, <1>16, <1>17 DEF Aligned

\* A message begins where the last one ends.
LEMMA BeginWriteStep ==
  ASSUME Sequences, Delivered, NEW start, Aligned(start), NEW m \in Outgoing, BeginWrite(m)
  PROVE  Delivered' /\ \E next : Aligned(next)'
<1> DEFINE n == Len(sent)
           added == [k \in 1 .. n + 2 |-> IF k = n + 2 THEN start[n + 1] + 1 + DataSize(m) ELSE start[k]]
<1>1. /\ buffer = <<>> /\ buffer' = Serialize(m) /\ written' = 0 /\ sent' = Append(sent, m)
      /\ UNCHANGED <<stage, size, got, held, dims, stream, broken, received, cut, torn>>
  BY DEF BeginWrite, WriterIsIdle, readerVars
<1>2. /\ Len(sent) \in Nat /\ Len(received) \in Nat /\ Len(stream) \in Nat
      /\ Reading = Len(received) + 1 /\ Len(received) <= Len(sent)
      /\ ReadTo(start) \in Nat /\ WrittenTo(start) \in Nat
      /\ \A i \in 1 .. Len(sent) + 1 : start[i] \in Nat
      /\ WrittenTo(start) = ReadTo(start) + Len(stream) /\ WrittenTo(start) <= start[Len(sent) + 1]
  BY Positions
<1>3. /\ Len(sent') = n + 1 /\ sent'[n + 1] = m
      /\ \A k \in 1 .. n : sent'[k] = sent[k]
  BY <1>1, <1>2 DEF Sequences
<1>4. IsMessage(m) /\ IsSerialized(m) /\ DataSize(m) \in Nat
  <2>1. IsMessage(m)
    BY WireAssumption
  <2> QED BY <2>1, Serialized DEF IsSerialized
<1>a. /\ \A k \in 1 .. n + 1 : added[k] = start[k]
      /\ added[n + 2] = start[n + 1] + 1 + DataSize(m)
      /\ added \in [1 .. n + 2 -> Nat]
  <2>1. n \in Nat /\ DataSize(m) \in Nat
    BY <1>2, <1>4
  <2>2. n + 2 \in 1 .. n + 2 /\ \A k \in 1 .. n + 1 : k \in 1 .. n + 2 /\ k # n + 2
    BY <2>1
  <2>3. \A k \in 1 .. n + 1 : start[k] \in Nat
    BY <1>2
  <2>4. start[n + 1] + 1 + DataSize(m) \in Nat
    BY <2>1, <2>3
  <2>5. ASSUME NEW k \in 1 .. n + 2, k # n + 2 PROVE k \in 1 .. n + 1
    BY <2>1, <2>5
  <2> QED BY <2>2, <2>3, <2>4, <2>5
<1> HIDE DEF added
<1>5. PICK next : /\ \A k \in 1 .. n + 1 : next[k] = start[k]
                  /\ next[n + 2] = start[n + 1] + 1 + DataSize(m)
                  /\ next \in [1 .. n + 2 -> Nat]
  BY <1>a
<1>6. Starts(next)'
  <2>1. (n + 1) + 1 = n + 2 /\ \A k \in 1 .. n + 1 : k \in 1 .. n \/ k = n + 1
    BY <1>2
  <2>2. ASSUME NEW k \in 1 .. n + 1
        PROVE  next[k + 1] = next[k] + 1 + DataSize(sent'[k])
    <3>1. CASE k \in 1 .. n
      <4>1. k + 1 \in 1 .. n + 1
        BY <1>2, <3>1
      <4>2. start[k + 1] = start[k] + 1 + DataSize(sent[k])
        BY <3>1 DEF Aligned, Starts
      <4> QED BY <1>3, <1>5, <3>1, <4>1, <4>2
    <3>2. CASE k = n + 1
      BY <1>2, <1>3, <1>5, <2>1, <3>2
    <3> QED BY <2>1, <3>1, <3>2
  <2>3. next[1] = 0
    <3>1. 1 \in 1 .. n + 1 /\ start[1] = 0
      BY <1>2 DEF Aligned, Starts
    <3> QED BY <1>5, <3>1
  <2>4. next \in [1 .. (n + 1) + 1 -> Nat]
    BY <1>5, <2>1
  <2> QED BY <1>3, <2>2, <2>3, <2>4 DEF Starts
<1>7. ReadTo(next)' = ReadTo(start) /\ WrittenTo(next)' = WrittenTo(start)
  <2>1. Reading' = Reading /\ Behind' = Behind /\ Reading \in 1 .. n + 1
    BY <1>1, <1>2 DEF Reading, Behind
  <2>2. next[Reading] = start[Reading]
    BY <1>5, <2>1
  <2>3. ReadTo(next)' = ReadTo(start)
    BY <1>1, <2>1, <2>2 DEF ReadTo
  <2> QED BY <1>1, <2>3 DEF WrittenTo
<1>8. Delivered'
  <2>1. \A i \in 1 .. Len(received) : i \in 1 .. n
    BY <1>2
  <2>2. ASSUME NEW i \in 1 .. Len(received)
        PROVE  received[i].type = sent'[i].type /\ (~IsCut(i) => received[i] = sent'[i])
    BY <1>3, <2>1 DEF Delivered
  <2>3. Len(received) <= Len(sent')
    BY <1>2, <1>3
  <2> QED BY <1>1, <2>2, <2>3 DEF Delivered, IsCut
<1>9. StreamIsRight(next, ReadTo(next))'
  <2>1. ASSUME NEW i \in 1 .. Len(stream), NEW k \in 1 .. n + 1,
               NEW j \in 1 .. 1 + DataSize(sent'[k]),
               ReadTo(start) + i = next[k] + j, IsCut(k) => IsSafe(k, j)'
        PROVE  stream[i] = Serialize(sent'[k])[j]
    <3>1. CASE k \in 1 .. n
      <4>1. sent'[k] = sent[k] /\ next[k] = start[k]
        BY <1>2, <1>3, <1>5, <3>1
      <4>2. IsSafe(k, j)' <=> IsSafe(k, j)
        BY <4>1 DEF IsSafe
      <4> QED BY <2>1, <3>1, <4>1, <4>2 DEF Aligned, StreamIsRight
    <3>2. CASE k \notin 1 .. n
      <4>1. k = n + 1 /\ sent'[k] = m /\ next[k] = start[n + 1]
        BY <1>2, <1>3, <1>5, <3>2
      <4> DEFINE a == Len(stream)
                 e == WrittenTo(start)
                 f == ReadTo(start)
                 g == start[n + 1]
                 d == DataSize(m)
      <4>2. /\ a \in Nat /\ e = f + a /\ f \in Nat /\ g \in Nat /\ e <= g /\ d \in Nat
            /\ i \in 1 .. a /\ j \in 1 .. 1 + d /\ f + i = g + j
        BY <1>2, <1>4, <2>1, <4>1
      <4> HIDE DEF a, e, f, g, d
      <4> QED BY <4>2
    <3> QED BY <3>1, <3>2
  <2>2. ASSUME NEW k PROVE IsCut(k)' <=> IsCut(k)
    BY <1>1 DEF IsCut
  <2>3. ASSUME NEW i \in 1 .. Len(stream'), NEW k \in 1 .. Len(sent'),
               NEW j \in 1 .. 1 + DataSize(sent'[k]),
               ReadTo(next)' + i = next[k] + j, (IsCut(k) => IsSafe(k, j))'
        PROVE  (stream[i] = Serialize(sent[k])[j])'
    <3>1. i \in 1 .. Len(stream) /\ k \in 1 .. n + 1 /\ ReadTo(start) + i = next[k] + j
      BY <1>1, <1>3, <1>7, <2>3
    <3>2. IsCut(k) => IsSafe(k, j)'
      BY <2>2, <2>3
    <3>3. stream[i] = Serialize(sent'[k])[j]
      BY <2>1, <3>1, <3>2
    <3> QED BY <1>1, <3>3
  <2> QED BY <2>3 DEF StreamIsRight
<1>10. (WrittenTo(next) <= next[Len(sent) + 1])'
  <2>1. WrittenTo(start) <= next[n + 2]
    <3>1. start[n + 1] \in Nat /\ n + 1 \in 1 .. Len(sent) + 1
      BY <1>2
    <3> DEFINE g == start[n + 1]
               d == DataSize(m)
    <3>2. g \in Nat /\ d \in Nat /\ WrittenTo(start) <= g /\ next[n + 2] = g + 1 + d /\ WrittenTo(start) \in Nat
      BY <1>2, <1>4, <1>5, <3>1
    <3> HIDE DEF g, d
    <3> QED BY <3>2
  <2>2. Len(sent') + 1 = n + 2
    BY <1>2, <1>3
  <2> QED BY <1>7, <2>1, <2>2
<1>11. (~broken => WriterIsRight(next, WrittenTo(next)))'
  <2>1. SUFFICES ASSUME ~broken PROVE WriterIsRight(next, WrittenTo(next))'
    BY <1>1
  <2>2. WrittenTo(start) = start[n + 1]
    BY <1>1, <2>1 DEF Aligned, WriterIsRight
  <2>3. buffer' # <<>>
    <3>1. Len(buffer') = 1 + DataSize(m)
      BY <1>1, <1>4 DEF IsSerialized
    <3> QED BY <1>4, <3>1
  <2>4. WrittenTo(next)' = next[n + 1] + 0
    <3>1. n + 1 \in 1 .. n + 1 /\ start[n + 1] \in Nat
      BY <1>2
    <3> QED BY <1>5, <1>7, <2>2, <3>1
  <2>5. written' = 0 /\ 0 \in 0 .. DataSize(m) /\ Len(sent') = n + 1 /\ n + 1 > 0 /\ sent'[n + 1] = m
        /\ buffer' = Serialize(m)
    BY <1>1, <1>2, <1>3, <1>4
  <2> QED BY <2>3, <2>4, <2>5 DEF WriterIsRight
<1>12. ReaderIsRight'
  <2>1. Reading' = Reading /\ Behind' = Behind
    BY <1>1 DEF Reading, Behind
  <2>2. Len(received') < Len(sent')
    BY <1>1, <1>2, <1>3
  <2>3. got' \in Nat /\ size' \in Nat /\ got' <= size' /\ (got' = 0 => held' = <<>>)
    BY <1>1 DEF Aligned, ReaderIsRight
  <2>4. CASE Len(received) < Len(sent)
    <3>1. sent'[Reading] = sent[Reading]
      BY <1>2, <1>3, <2>4
    <3>2. StageFits(sent[Reading]) /\ HeldIsRight(sent[Reading])
      BY <2>4 DEF Aligned, ReaderIsRight
    <3>3. StageFits(sent[Reading])'
      BY <1>1, <2>1, <3>1, <3>2 DEF StageFits
    <3>4. HeldIsRight(sent[Reading])'
      BY <1>1, <2>1, <3>1, <3>2 DEF HeldIsRight, IsCut
    <3> QED BY <2>2, <2>3, <3>3, <3>4 DEF ReaderIsRight
  <2>5. CASE ~(Len(received) < Len(sent))
    <3>1. stage' = "type" /\ size' = 1 /\ got' = 0
      BY <1>1, <2>5 DEF Aligned, ReaderIsRight
    <3>2. StageFits(sent[Reading])'
      BY <3>1 DEF StageFits
    <3>3. HeldIsRight(sent[Reading])'
      BY <3>1 DEF HeldIsRight
    <3> QED BY <2>2, <2>3, <3>2, <3>3 DEF ReaderIsRight
  <2> QED BY <2>4, <2>5
<1>13. Aligned(next)'
  BY <1>6, <1>9, <1>10, <1>11, <1>12 DEF Aligned
<1> QED BY <1>8, <1>13

\* A connection that is broken takes nothing more.
LEMMA BrokenStep ==
  ASSUME Sequences, Delivered, NEW start, Aligned(start), broken',
         UNCHANGED <<readerVars, stream, sent, received, cut>>
  PROVE  Delivered' /\ Aligned(start)'
<1>1. UNCHANGED <<stage, size, got, held, dims, stream, sent, received, cut>>
  BY DEF readerVars
<1>2. Delivered'
  BY <1>1 DEF Delivered, IsCut
<1>3. Reading' = Reading /\ Behind' = Behind /\ ReadTo(start)' = ReadTo(start) /\ WrittenTo(start)' = WrittenTo(start)
  BY <1>1 DEF Reading, Behind, ReadTo, WrittenTo
<1>4. Starts(start)' /\ StreamIsRight(start, ReadTo(start))' /\ (WrittenTo(start) <= start[Len(sent) + 1])'
  BY <1>1, <1>3 DEF Aligned, Starts, StreamIsRight, IsCut, IsSafe
<1>5. ReaderIsRight'
  BY <1>1, ReaderStays DEF IsCut, Aligned
<1> QED BY <1>2, <1>4, <1>5 DEF Aligned

-----------------------------------------------------------------------------
(* The invariant, and that what is read is what has been written.          *)

LEMMA StartSequences ==
  ASSUME WireInit
  PROVE  WireInv
<1>1. /\ buffer = <<>> /\ written = 0 /\ stream = <<>> /\ broken = FALSE
      /\ stage = "type" /\ size = 1 /\ got = 0 /\ held = <<>>
      /\ sent = <<>> /\ received = <<>> /\ cut = <<>> /\ torn = FALSE
  BY DEF WireInit
<1>2. Sequences
  <2>1. \A S : <<>> \in Seq(S)
    OBVIOUS
  <2> QED BY <1>1, <2>1 DEF Sequences, IsSequence
<1>3. Len(sent) = 0 /\ Len(received) = 0 /\ Len(stream) = 0 /\ Reading = 1 /\ Behind = 0
  BY <1>1 DEF Reading, Behind
<1>4. Delivered
  BY <1>3 DEF Delivered
<1> DEFINE start == [i \in 1 .. 1 |-> 0]
<1>5. start \in [1 .. 0 + 1 -> Nat] /\ start[1] = 0
  OBVIOUS
<1> HIDE DEF start
<1>6. Starts(start) /\ StreamIsRight(start, ReadTo(start))
  BY <1>3, <1>5 DEF Starts, StreamIsRight
<1>7. ReadTo(start) = 0 /\ WrittenTo(start) = 0
  BY <1>1, <1>3, <1>5 DEF ReadTo, WrittenTo
<1>8. WriterIsRight(start, WrittenTo(start)) /\ ReaderIsRight
  BY <1>1, <1>3, <1>5, <1>7 DEF WriterIsRight, ReaderIsRight
<1>9. Aligned(start)
  BY <1>3, <1>5, <1>6, <1>7, <1>8 DEF Aligned
<1> QED BY <1>1, <1>2, <1>4, <1>9 DEF WireInv, InStep

\* The sequences stay sequences, also when a map is torn.
LEMMA StillSequences ==
  ASSUME Sequences, [WireNext]_wireVars
  PROVE  Sequences'
<1>0. /\ sent \in Seq(Outgoing) /\ buffer \in Seq(Bytes) /\ stream \in Seq(Bytes) /\ held \in Seq(Bytes)
      /\ IsSequence(received) /\ IsSequence(cut) /\ torn \in BOOLEAN /\ broken \in BOOLEAN
  BY DEF Sequences
<1>e. <<>> \in Seq(Bytes)
  OBVIOUS
<1>1. CASE UNCHANGED wireVars
  BY <1>1 DEF Sequences, IsSequence, wireVars, writerVars, readerVars
<1>2. ASSUME NEW count \in 1 .. Len(buffer), Write(count) PROVE Sequences'
  <2>1. /\ stream' = stream \o SubSeq(buffer, 1, count)
        /\ buffer' = <<>> \/ buffer' = buffer
        /\ UNCHANGED <<held, broken, sent, received>>
    BY <1>2 DEF Write, readerVars
  <2>2. IsSequence(cut)' /\ torn' \in BOOLEAN
    BY <1>2, CutLast DEF Write, Cut, Sequences, IsSequence
  <2>3. SubSeq(buffer, 1, count) \in Seq(Bytes)
    <3>1. buffer \in Seq(Bytes) /\ 1 \in Nat \ {0} /\ count \in 0 .. Len(buffer)
      BY DEF Sequences
    <3> QED BY <3>1, Part DEF IsPart
  <2>4. stream' \in Seq(Bytes)
    BY <1>0, <2>1, <2>3, Joined DEF IsJoined
  <2>5. buffer' \in Seq(Bytes)
    BY <1>0, <1>e, <2>1
  <2> QED BY <2>1, <2>2, <2>4, <2>5 DEF Sequences, IsSequence
<1>3. CASE WriteFails \/ ReadFails \/ Break
  <2>1. /\ buffer' = <<>> \/ buffer' = buffer
        /\ broken' = TRUE \/ broken' = broken
    BY <1>3 DEF WriteFails, ReadFails, Break, writerVars
  <2>b. buffer' \in Seq(Bytes) /\ broken' \in BOOLEAN
    BY <1>0, <1>e, <2>1
  <2>2. UNCHANGED <<stream, held, sent, received, cut, torn>>
    BY <1>3 DEF WriteFails, ReadFails, Break, writerVars, readerVars
  <2> QED BY <2>b, <2>2 DEF Sequences, IsSequence
<1>4. ASSUME NEW count \in 1 .. Len(stream), Read(count) PROVE Sequences'
  <2>1. /\ held' = SubSeq(stream, 1, count) \o SubSeq(held, count + 1, Len(held))
        /\ stream' = SubSeq(stream, count + 1, Len(stream))
        /\ UNCHANGED <<buffer, broken, sent, received>>
    BY <1>4 DEF Read, writerVars
  <2>2. IsSequence(cut)' /\ torn' \in BOOLEAN
    BY <1>4, CutLast DEF Read, Cut, Sequences, IsSequence
  <2>3. stream \in Seq(Bytes) /\ held \in Seq(Bytes) /\ Len(stream) \in Nat /\ Len(held) \in Nat
        /\ count \in Nat
    BY DEF Sequences
  <2>4. SubSeq(stream, 1, count) \in Seq(Bytes)
    <3>1. 1 \in Nat \ {0} /\ count \in 0 .. Len(stream)
      BY <2>3
    <3> QED BY <2>3, <3>1, Part DEF IsPart
  <2>5. SubSeq(held, count + 1, Len(held)) \in Seq(Bytes)
    <3>1. count + 1 \in Nat \ {0} /\ Len(held) \in 0 .. Len(held)
      BY <2>3
    <3> QED BY <2>3, <3>1, Part DEF IsPart
  <2>6. SubSeq(stream, count + 1, Len(stream)) \in Seq(Bytes)
    <3>1. count + 1 \in Nat \ {0} /\ Len(stream) \in 0 .. Len(stream)
      BY <2>3
    <3> QED BY <2>3, <3>1, Part DEF IsPart
  <2>7. held' \in Seq(Bytes)
    BY <2>1, <2>4, <2>5, Joined DEF IsJoined
  <2> QED BY <2>1, <2>2, <2>6, <2>7 DEF Sequences, IsSequence
<1>5. CASE Deserialize
  <2>1. UNCHANGED <<buffer, stream, broken, sent, cut, torn>>
    BY <1>5 DEF Deserialize, RejectType, ReadType, ReadMagicBytes, ReadDimensions, ReadTiles,
                Overrun, ReadTileChange, ReadPlayerState, ReadDirection, Deliver, Quietly, writerVars
  <2>2. held' = held \/ held' = <<>>
    BY <1>5 DEF Deserialize, RejectType, ReadType, ReadMagicBytes, ReadDimensions, ReadTiles,
                Overrun, ReadTileChange, ReadPlayerState, ReadDirection, Deliver, StartRead
  <2>3. received' = received \/ \E m : received' = Append(received, m)
    BY <1>5 DEF Deserialize, RejectType, ReadType, ReadMagicBytes, ReadDimensions, ReadTiles,
                Overrun, ReadTileChange, ReadPlayerState, ReadDirection, Deliver
  <2>4. IsSequence(received)'
    <3>1. CASE received' = received
      BY <1>0, <3>1 DEF IsSequence
    <3>2. ASSUME NEW m, received' = Append(received, m) PROVE IsSequence(received)'
      <4>1. IsSequence(Append(received, m))
        BY <1>0, Appended
      <4> QED BY <3>2, <4>1 DEF IsSequence
    <3> QED BY <2>3, <3>1, <3>2
  <2>5. held' \in Seq(Bytes)
    BY <1>0, <1>e, <2>2
  <2> QED BY <2>1, <2>4, <2>5 DEF Sequences, IsSequence
<1>6. ASSUME NEW m \in Outgoing, BeginWrite(m) PROVE Sequences'
  <2>1. /\ buffer' = Serialize(m) /\ sent' = Append(sent, m)
        /\ UNCHANGED <<stream, broken, held, received, cut, torn>>
    BY <1>6 DEF BeginWrite, readerVars
  <2>2. buffer' \in Seq(Bytes)
    BY <2>1, Serialized, WireAssumption DEF IsSerialized
  <2>3. sent' \in Seq(Outgoing)
    BY <2>1 DEF Sequences
  <2> QED BY <2>1, <2>2, <2>3 DEF Sequences, IsSequence
<1> QED BY <1>1, <1>2, <1>3, <1>4, <1>5, <1>6 DEF WireNext, WriterRuns, ReaderRuns

\* While no map has been cut in its dimensions, each step keeps the account.
LEMMA WireStep ==
  ASSUME WireInv, [WireNext]_wireVars, ~torn'
  PROVE  Delivered' /\ InStep' /\ (stage = "failed" => broken)'
<1>0. Sequences
  BY DEF WireInv
<1>1. ~torn
  BY DEF WireNext, WriterRuns, ReaderRuns, Write, WriteFails, Read, ReadFails, Break, BeginWrite,
         Cut, Deserialize, RejectType, ReadType, ReadMagicBytes, ReadDimensions, ReadTiles, Overrun,
         ReadTileChange, ReadPlayerState, ReadDirection, Deliver, Quietly, wireVars
<1>2. Delivered /\ InStep /\ (stage = "failed" => broken)
  BY <1>1 DEF WireInv
<1>3. CASE UNCHANGED wireVars
  <2>1. UNCHANGED <<buffer, written, stage, size, got, held, dims, stream, broken, sent, received, cut>>
    BY <1>3 DEF wireVars, writerVars, readerVars
  <2>2. Delivered' /\ (stage = "failed" => broken)'
    BY <1>2, <2>1 DEF Delivered, IsCut
  <2>3. ASSUME NEW start, Aligned(start) PROVE Aligned(start)'
    <3>1. ReadTo(start)' = ReadTo(start)
      BY <2>1 DEF ReadTo, Reading, Behind
    <3>2. ReaderIsRight /\ \A k : IsCut(k) => IsCut(k)'
      BY <2>1, <2>3 DEF Aligned, IsCut
    <3>3. ReaderIsRight'
      BY <1>0, <2>1, <3>2, ReaderStays
    <3> QED BY <2>1, <2>3, <3>1, <3>3, StillAligned
  <2> QED BY <1>2, <2>1, <2>2, <2>3 DEF InStep
<1>4. ASSUME NEW count \in 1 .. Len(buffer), Write(count)
      PROVE  Delivered' /\ InStep' /\ (stage = "failed" => broken)'
  <2>1. stage' = stage /\ broken' = broken /\ ~broken
    BY <1>4 DEF Write, readerVars
  <2>2. PICK start : Aligned(start)
    BY <1>2, <2>1 DEF InStep
  <2>3. Delivered' /\ Aligned(start)'
    BY <1>0, <1>2, <1>4, <2>2, WriteStep
  <2> QED BY <1>2, <2>1, <2>3 DEF InStep
<1>5. CASE WriteFails \/ Break
  <2>1. UNCHANGED <<readerVars, stream, sent, received, cut>> /\ broken' /\ stage' = stage
    BY <1>5 DEF WriteFails, Break, readerVars
  <2>2. Delivered'
    BY <1>2, <2>1 DEF Delivered, IsCut
  <2>3. ASSUME NEW start, Aligned(start) PROVE Aligned(start)'
    BY <1>0, <1>2, <2>1, <2>3, BrokenStep
  <2> QED BY <1>2, <2>1, <2>2, <2>3 DEF InStep
<1>6. CASE ReadFails
  <2>1. stage' = "failed" /\ broken' = broken /\ broken /\ UNCHANGED <<sent, received, cut>>
    BY <1>6 DEF ReadFails
  <2> QED BY <1>2, <2>1 DEF Delivered, IsCut, InStep
<1>7. ASSUME NEW count \in 1 .. Len(stream), Read(count)
      PROVE  Delivered' /\ InStep' /\ (stage = "failed" => broken)'
  <2>1. stage # "failed"
    BY <1>7 DEF Read
  <2>2. PICK start : Aligned(start)
    BY <1>2, <2>1 DEF InStep
  <2>3. Delivered' /\ Aligned(start)' /\ stage' # "failed"
    BY <1>0, <1>2, <1>7, <2>2, ReadStep
  <2> QED BY <2>3 DEF InStep
<1>8. CASE Deserialize
  <2>1. stage # "failed"
    BY <1>8 DEF Deserialize, RejectType, ReadType, ReadMagicBytes, ReadDimensions, ReadTiles, Overrun,
                ReadTileChange, ReadPlayerState, ReadDirection, IsRead
  <2>2. PICK start : Aligned(start)
    BY <1>2, <2>1 DEF InStep
  <2>3. Delivered' /\ Aligned(start)' /\ stage' # "failed"
    BY <1>0, <1>2, <1>8, <2>2, DeserializeStep
  <2> QED BY <2>3 DEF InStep
<1>9. ASSUME NEW m \in Outgoing, BeginWrite(m)
      PROVE  Delivered' /\ InStep' /\ (stage = "failed" => broken)'
  <2>1. stage' = stage /\ broken' = broken
    BY <1>9 DEF BeginWrite, readerVars
  <2>2. CASE stage = "failed"
    <3>1. sent' = Append(sent, m) /\ received' = received /\ cut' = cut
      BY <1>9 DEF BeginWrite
    <3>2. /\ Len(sent') = Len(sent) + 1 /\ Len(sent) \in Nat
          /\ \A k \in 1 .. Len(sent) : sent'[k] = sent[k]
      BY <1>0, <3>1 DEF Sequences
    <3>3. Len(received) \in Nat
      BY <1>0, Appended DEF Sequences
    <3>4. Len(received) <= Len(sent')
      BY <1>2, <3>2, <3>3 DEF Delivered
    <3>5. ASSUME NEW i \in 1 .. Len(received)
          PROVE  received[i].type = sent'[i].type /\ (~IsCut(i) => received[i] = sent'[i])
      <4>1. i \in 1 .. Len(sent)
        BY <1>2, <3>2, <3>3 DEF Delivered
      <4> QED BY <1>2, <3>2, <4>1 DEF Delivered
    <3>6. Delivered'
      BY <3>1, <3>4, <3>5 DEF Delivered, IsCut
    <3> QED BY <1>2, <2>1, <2>2, <3>6 DEF InStep
  <2>3. CASE stage # "failed"
    <3>1. PICK start : Aligned(start)
      BY <1>2, <2>3 DEF InStep
    <3>2. Delivered' /\ \E next : Aligned(next)'
      BY <1>0, <1>2, <1>9, <3>1, BeginWriteStep
    <3> QED BY <2>1, <2>3, <3>2 DEF InStep
  <2> QED BY <2>2, <2>3
<1> QED BY <1>3, <1>4, <1>5, <1>6, <1>7, <1>8, <1>9 DEF WireNext, WriterRuns, ReaderRuns

\* Every step keeps the invariant.
LEMMA WireInvIsInductive ==
  ASSUME WireInv, [WireNext]_wireVars
  PROVE  WireInv'
<1>1. Sequences'
  BY StillSequences DEF WireInv
<1>2. ~torn' => Delivered' /\ InStep' /\ (stage = "failed" => broken)'
  BY WireStep
<1> QED BY <1>1, <1>2 DEF WireInv

LEMMA WireInvSuffices ==
  ASSUME WireInv
  PROVE  MessagesArrive
BY DEF WireInv, Delivered, MessagesArrive, IsCut

\* socket_message_serialize_to_socket and socket_message_deserialize_from_socket: what
\* is read is what has been written, in order, for every number of messages and of
\* short transfers, and in whatever parts they come, while no map is cut in its
\* dimensions; a message of which no transfer was short is received as it was sent.
THEOREM MessagesAreReceived == WireSpec => []MessagesArrive
<1>1. WireInit => WireInv
  BY StartSequences
<1>2. WireInv /\ [WireNext]_wireVars => WireInv'
  BY WireInvIsInductive
<1>3. WireInv => MessagesArrive
  BY WireInvSuffices
<1> QED BY <1>1, <1>2, <1>3, PTL DEF WireSpec
=============================================================================
