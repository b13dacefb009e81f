------------------------- MODULE SocketClientProofs -------------------------
(***************************************************************************)
(* What is on the screen of a client, for any messages of the server, any  *)
(* length of the queue and any number of redraws by the input thread.      *)
(* ScreenFollowsMap is not inductive: it speaks of a quiet client alone.   *)
(***************************************************************************)
EXTENDS SocketClient, TLAPS

ToldStatuses == {s.status : s \in PlayerStates}

\* The messages a server sends, and the commands a client gives its renderer.
ToldMessages ==
  [type : {"gameFull", "connected", "gameEnd"}]
    \cup MapMessages \cup [type : {"tileChange"}, tile : Contents]
    \cup [type : {"playerState"}, status : ToldStatuses, direction : Directions]
Commands ==
  [type : {"redraw"}, status : ToldStatuses \cup {"NotConnected", "none"}]
    \cup [type : {"update"}, tile : Contents]

Types ==
  /\ TypeOK
  /\ toClient \in Seq(ToldMessages)
  /\ queue \in Seq(Commands)
  /\ command \in Commands \cup {NoCommand}
  /\ main = "rendering" => command \in Commands
  /\ resized \in ToldStatuses \cup {"NotConnected", "none"}
  /\ screen \in [tile : Contents, controls : ToldStatuses \cup {"NotConnected", "none"}]

\* What the tile will be on the screen when all that is asked for is drawn.
FinalTile ==
  IF command.type = "update" THEN command.tile
  ELSE IF command.type = "redraw" THEN map
  ELSE IF queue = <<>> THEN screen.tile
  ELSE IF queue[Len(queue)].type = "update" THEN queue[Len(queue)].tile
  ELSE map

Rendering ==
  /\ UpdatesAreUpdates
  /\ NobodySleepsOverCommands
  /\ FinalTile = map
  /\ command # NoCommand => main = "rendering"

Inv == Types /\ Rendering

-----------------------------------------------------------------------------
\* The client begins with an empty queue and nothing on the screen but the map.
LEMMA InitInv == Init => Inv
<1> SUFFICES ASSUME Init PROVE Inv
  OBVIOUS
<1>1. /\ map = 0 /\ queue = <<>> /\ toClient = <<>>
      /\ screen = [tile |-> map, controls |-> "none"]
      /\ command = NoCommand /\ main = "looping" /\ drawer = "checking"
  BY DEF Init, ProtocolInit, SocketInit, ClientInit, RendererInit
<1>2. state \in States /\ exit \in BOOLEAN /\ lastDirection \in Directions
  BY DEF Init, ClientInit, States, Directions
<1>3. input \in InputStages /\ inputShutdown \in BOOLEAN /\ rendererShutdown \in BOOLEAN
  BY DEF Init, ClientInit, RendererInit, InputStages
<1>4. /\ lastStatus \in {s.status : s \in PlayerStates} \cup {"NotConnected"}
      /\ resized \in ToldStatuses \cup {"NotConnected", "none"}
  BY DEF Init, ClientInit
<1>5. main \in MainStages /\ drawer \in DrawerStages
  BY <1>1 DEF MainStages, DrawerStages
<1>6. map \in Contents /\ screen.tile \in Contents
  BY <1>1, ProtocolAssumption
<1>7. Len(queue) <= MaxQueue
  BY <1>1, RendererAssumption
<1>8. Types
  BY <1>1, <1>2, <1>3, <1>4, <1>5, <1>6, <1>7 DEF Types, TypeOK
<1>9. Rendering
  BY <1>1 DEF Rendering, UpdatesAreUpdates, NobodySleepsOverCommands, FinalTile, NoCommand
<1> QED BY <1>8, <1>9 DEF Inv

-----------------------------------------------------------------------------
(* The stream of messages.                                                 *)

\* A server puts nothing into the stream but its messages.
LEMMA StreamOfServer ==
  ASSUME Types, ServerSide
  PROVE  toClient' \in Seq(ToldMessages)
<1>1. ASSUME NEW m \in ToldMessages, Says(m)
      PROVE  toClient' \in Seq(ToldMessages)
  BY <1>1 DEF Says, SendToClient, socketVars, Types
<1>2. \A s \in PlayerStates : PlayerStateMessage(s) \in ToldMessages
  BY ProtocolAssumption DEF PlayerStateMessage, ToldMessages, ToldStatuses
<1>3. /\ [type |-> "gameFull"] \in ToldMessages
      /\ [type |-> "connected"] \in ToldMessages
      /\ [type |-> "gameEnd"] \in ToldMessages
  BY DEF ToldMessages
<1>4. ShowMessages \subseteq ToldMessages /\ MapMessages \subseteq ToldMessages
  BY DEF ShowMessages, ToldMessages
<1>5. CASE UNCHANGED toClient
  BY <1>5 DEF Types
<1> QED
  BY <1>1, <1>2, <1>3, <1>4, <1>5
     DEF ServerSide, SaysNothing, CloseServerSide, ServerReads, socketVars

\* What is read is one of the messages a server sends.
LEMMA Received ==
  ASSUME Types, NEW type, Receives(type)
  PROVE  /\ toClient' \in Seq(ToldMessages)
         /\ Head(toClient) \in ToldMessages
         /\ Head(toClient).type = type
         /\ main = "reading"
BY DEF Types, Receives, ClientReads

\* The client only takes messages out of it.
LEMMA StreamOfClient ==
  ASSUME Types, ClientStep
  PROVE  toClient' \in Seq(ToldMessages)
<1>1. CASE ClientReads
  BY <1>1 DEF ClientReads, Types
<1>2. CASE UNCHANGED toClient
  BY <1>2 DEF Types
<1>3. ClientReads \/ UNCHANGED toClient
  BY DEF ClientStep, MainRuns, InputRuns, UserActs, DrawerRuns, OnlyDrawer, Loop,
         IsTurnedAway, IsConnected, ReceiveMap, ReceiveTileChange, ReceivePlayerState,
         Receives, ReadFails, TellRenderer, SayGoodbye, StopInput, JoinInput,
         StopRenderer, JoinRenderer, CheckInputShutdown, Poll, RedrawResized, PressExit,
         PressKey, Resize, PollAfterShutdown, SendToServer, CloseClientSide, socketVars
<1> QED BY <1>1, <1>2, <1>3

-----------------------------------------------------------------------------
(* What is drawn.                                                          *)

drawnVars == <<queue, screen, map, command>>

\* A step that changes nothing of what is drawn, and that puts no thread to
\* sleep, keeps what Rendering says.
LEMMA Undisturbed ==
  ASSUME Inv, UNCHANGED drawnVars, command # NoCommand => main' = "rendering",
         drawer' \notin {"dozing", "asleep"} \/ UNCHANGED drawer
  PROVE  Rendering'
BY DEF Inv, Rendering, drawnVars, UpdatesAreUpdates, NobodySleepsOverCommands, FinalTile

\* The main thread of socket_client.c, whose order of map and command matters.
LEMMA MainInv ==
  ASSUME Inv, MainRuns
  PROVE  Rendering'
<1> USE DEF OnlyMain, rendererVars, drawnVars
<1>n. main # "rendering" => command = NoCommand
  BY DEF Inv, Rendering
<1>1. CASE Loop
  BY <1>1, <1>n, Undisturbed DEF Loop
<1>2. CASE IsTurnedAway
  BY <1>2, <1>n, Undisturbed DEF IsTurnedAway, Receives
<1>3. CASE IsConnected
  BY <1>3, <1>n, Undisturbed DEF IsConnected, Receives
<1>4. CASE ReceiveMap
  BY <1>4 DEF ReceiveMap, Inv, Rendering, UpdatesAreUpdates, NobodySleepsOverCommands,
                FinalTile, RedrawCommand
<1>5. CASE ReceiveTileChange
  BY <1>5 DEF ReceiveTileChange, Inv, Rendering, UpdatesAreUpdates,
                NobodySleepsOverCommands, FinalTile, UpdateCommand
<1>6. CASE ReceivePlayerState
  <2>1. CASE command' = command /\ main' = "looping"
    BY <1>6, <2>1, <1>n, Undisturbed DEF ReceivePlayerState, Receives
  <2>2. CASE command' = RedrawCommand(lastStatus') /\ main' = "rendering"
    BY <1>6, <2>2 DEF ReceivePlayerState, Inv, Rendering, UpdatesAreUpdates,
                        NobodySleepsOverCommands, FinalTile, RedrawCommand
  <2> QED BY <1>6, <2>1, <2>2 DEF ReceivePlayerState
<1>7. CASE ReadFails
  BY <1>7, <1>n, Undisturbed DEF ReadFails
<1>8. CASE TellRenderer
  <2>1. command \in Commands /\ queue \in Seq(Commands) /\ FinalTile = map
    BY <1>8 DEF TellRenderer, Inv, Types, Rendering
  <2>2. drawer' \notin {"dozing", "asleep"}
    BY <1>8 DEF TellRenderer, Redraw, Update, Signal, QueueIsFree
  <2>3. CASE command.type = "redraw"
    <3>1. queue' = <<command>> /\ UNCHANGED <<map, screen>> /\ command' = NoCommand
      BY <1>8, <2>3 DEF TellRenderer, Redraw
    <3> QED
      BY <3>1, <2>2, <2>3 DEF Rendering, UpdatesAreUpdates, NobodySleepsOverCommands,
                                FinalTile, NoCommand
  <2>4. CASE command.type # "redraw"
    <3>1. command.type = "update" /\ command.tile = map
      BY <2>1, <2>4 DEF Commands, FinalTile
    <3>2. queue' = Append(queue, command) /\ UNCHANGED map /\ command' = NoCommand
      BY <1>8, <2>4 DEF TellRenderer, Update
    <3>3. UpdatesAreUpdates'
      BY <2>1, <3>1, <3>2 DEF Inv, Rendering, UpdatesAreUpdates
    <3>4. FinalTile' = map'
      BY <2>1, <3>1, <3>2 DEF FinalTile, NoCommand
    <3> QED BY <2>2, <3>2, <3>3, <3>4 DEF Rendering, NobodySleepsOverCommands
  <2> QED BY <2>3, <2>4
<1>9. CASE SayGoodbye \/ StopInput \/ JoinInput \/ JoinRenderer
  BY <1>9, <1>n, Undisturbed DEF SayGoodbye, StopInput, JoinInput, JoinRenderer
<1>10. CASE StopRenderer
  BY <1>10, <1>n, Undisturbed DEF StopRenderer, StopDrawer, Signal
<1> QED
  BY <1>1, <1>2, <1>3, <1>4, <1>5, <1>6, <1>7, <1>8, <1>9, <1>10 DEF MainRuns

\* The input thread: a resize clears the queue whatever the main thread does.
LEMMA InputInv ==
  ASSUME Inv, InputRuns \/ UserActs
  PROVE  Rendering'
<1> USE DEF OnlyInput, mainVars, rendererVars, drawnVars
<1>1. CASE CheckInputShutdown \/ Poll \/ UserActs
  BY <1>1, Undisturbed
  DEF CheckInputShutdown, Poll, UserActs, PressExit, PressKey, Resize, PollAfterShutdown,
      Inv, Rendering
<1>2. CASE RedrawResized
  <2>1. /\ queue' = <<RedrawCommand(resized)>>
        /\ UNCHANGED <<map, screen, command, main>>
        /\ drawer' \notin {"dozing", "asleep"}
    BY <1>2 DEF RedrawResized, Redraw, Signal, QueueIsFree
  <2> QED
    BY <2>1 DEF Inv, Rendering, UpdatesAreUpdates, NobodySleepsOverCommands, FinalTile,
                RedrawCommand
<1> QED BY <1>1, <1>2 DEF InputRuns

\* renderer_main: what it takes out of the queue is on the screen.
LEMMA DrawerInv ==
  ASSUME Inv, DrawerRuns, OnlyDrawer
  PROVE  Rendering'
<1>1. UNCHANGED <<map, command, main>> /\ queue \in Seq(Commands)
  BY DEF OnlyDrawer, mainVars, Inv, Types
<1>2. CASE CheckShutdown
  BY <1>1, <1>2, Undisturbed DEF CheckShutdown, drawnVars, Inv, Rendering
<1>3. CASE CheckQueue \/ FallAsleep
  BY <1>1, <1>3 DEF CheckQueue, FallAsleep, Inv, Rendering, UpdatesAreUpdates,
                    NobodySleepsOverCommands, FinalTile
<1>4. CASE DrawRedraw
  <2>1. /\ queue # <<>> /\ queue' = Tail(queue)
        /\ screen'.tile = map /\ drawer' = "checking"
    BY <1>4 DEF DrawRedraw
  <2>2. UpdatesAreUpdates'
    BY <1>1, <2>1 DEF Inv, Rendering, UpdatesAreUpdates
  <2>3. CASE queue' = <<>>
    BY <1>1, <2>1, <2>2, <2>3 DEF Inv, Rendering, FinalTile, NobodySleepsOverCommands
  <2>4. CASE queue' # <<>>
    <3>1. Len(queue') = Len(queue) - 1 /\ Len(queue) > 1
      BY <1>1, <2>1, <2>4
    <3>2. queue'[Len(queue')] = queue[Len(queue)]
      BY <1>1, <2>1, <3>1
    <3> QED
      BY <1>1, <2>1, <2>2, <3>1, <3>2
      DEF Inv, Rendering, FinalTile, NobodySleepsOverCommands
  <2> QED BY <2>3, <2>4
<1>5. CASE DrawUpdates
  <2>1. /\ queue # <<>> /\ queue[1].type = "update" /\ queue' = <<>>
        /\ screen'.tile = queue[Len(queue)].tile /\ drawer' = "checking"
    BY <1>5 DEF DrawUpdates, Inv, Types, TypeOK
  <2>2. Len(queue) \in Nat /\ Len(queue) >= 1
    BY <1>1, <2>1
  <2>3. queue[Len(queue)].type = "update"
    BY <2>1, <2>2 DEF Inv, Rendering, UpdatesAreUpdates
  <2> QED
    BY <1>1, <2>1, <2>2, <2>3 DEF Inv, Rendering, UpdatesAreUpdates,
                            NobodySleepsOverCommands, FinalTile
<1> QED BY <1>2, <1>3, <1>4, <1>5 DEF DrawerRuns

-----------------------------------------------------------------------------
(* Types.                                                                  *)

\* The variables that no message and no command gets into.
plainVars == <<main, state, exit, input, inputShutdown, drawer, rendererShutdown>>
PlainTypes ==
  /\ main \in MainStages
  /\ state \in States
  /\ exit \in BOOLEAN
  /\ input \in InputStages
  /\ inputShutdown \in BOOLEAN
  /\ drawer \in DrawerStages
  /\ rendererShutdown \in BOOLEAN

\* The others.
DataTypes ==
  /\ map \in Contents
  /\ lastStatus \in ToldStatuses \cup {"NotConnected"}
  /\ lastDirection \in Directions
  /\ queue \in Seq(Commands) /\ Len(queue) <= MaxQueue
  /\ command \in Commands \cup {NoCommand}
  /\ main = "rendering" => command \in Commands
  /\ resized \in ToldStatuses \cup {"NotConnected", "none"}
  /\ screen \in [tile : Contents, controls : ToldStatuses \cup {"NotConnected", "none"}]

AllTypes == PlainTypes /\ DataTypes /\ toClient \in Seq(ToldMessages)

\* The two halves of the types.
LEMMA TypesAre == (Types <=> AllTypes) /\ (Types' <=> AllTypes')
BY DEF AllTypes, Types, TypeOK, PlainTypes, DataTypes, ToldStatuses

\* Every thread keeps to its stages, and the flags are flags.
LEMMA PlainStep ==
  ASSUME PlainTypes, ClientStep
  PROVE  PlainTypes'
<1> USE DEF PlainTypes, MainStages, States, InputStages, DrawerStages, OnlyMain, OnlyInput,
            mainVars, inputVars, rendererVars, Signal
<1>1. CASE MainRuns
  BY <1>1 DEF MainRuns, Loop, IsTurnedAway, IsConnected, ReceiveMap, ReceiveTileChange,
         ReceivePlayerState, ReadFails, TellRenderer, SayGoodbye, StopInput, JoinInput,
         StopRenderer, JoinRenderer, Redraw, Update, StopDrawer
<1>2. CASE InputRuns \/ UserActs
  BY <1>2 DEF InputRuns, UserActs, CheckInputShutdown, Poll, RedrawResized, PressExit,
         PressKey, Resize, PollAfterShutdown, Redraw
<1>3. CASE DrawerRuns /\ OnlyDrawer
  BY <1>3 DEF DrawerRuns, OnlyDrawer, CheckShutdown, CheckQueue, FallAsleep, DrawRedraw,
         DrawUpdates
<1> QED BY <1>1, <1>2, <1>3 DEF ClientStep

dataVars == <<map, lastStatus, lastDirection, queue, command, resized, screen>>

\* A step that changes no data, and brings the main thread to no command.
LEMMA DataUndisturbed ==
  ASSUME DataTypes, UNCHANGED dataVars, main' = "rendering" => main = "rendering"
  PROVE  DataTypes'
BY DEF DataTypes, dataVars

\* What a server says fits where the client puts it, and the queue has room.
LEMMA DataStep ==
  ASSUME Inv, ClientStep
  PROVE  DataTypes'
<1> USE DEF OnlyMain, OnlyInput, OnlyDrawer, mainVars, inputVars, rendererVars
<1>t. DataTypes /\ Types
  BY TypesAre DEF Inv, AllTypes
<1>u. UpdatesAreUpdates
  BY DEF Inv, Rendering
<1>1. CASE Loop \/ IsTurnedAway \/ IsConnected \/ ReadFails \/ SayGoodbye \/ StopInput
             \/ JoinInput \/ StopRenderer \/ JoinRenderer
  BY <1>1, <1>t, DataUndisturbed
  DEF dataVars, Loop, IsTurnedAway, IsConnected, ReadFails, SayGoodbye, StopInput,
      JoinInput, StopRenderer, JoinRenderer, StopDrawer
<1>2. CASE ReceiveMap
  <2>1. Head(toClient).map \in Contents
    BY <1>2, <1>t, Received DEF ReceiveMap, ToldMessages, MapMessages
  <2>2. RedrawCommand(lastStatus) \in Commands
    BY <1>t DEF DataTypes, RedrawCommand, Commands
  <2> QED BY <1>2, <1>t, <2>1, <2>2 DEF ReceiveMap, DataTypes
<1>3. CASE ReceiveTileChange
  <2>1. Head(toClient).tile \in Contents
    BY <1>3, <1>t, Received DEF ReceiveTileChange, ToldMessages, MapMessages
  <2>2. UpdateCommand(Head(toClient).tile) \in Commands
    BY <2>1 DEF UpdateCommand, Commands
  <2> QED BY <1>3, <1>t, <2>1, <2>2 DEF ReceiveTileChange, DataTypes
<1>4. CASE ReceivePlayerState
  <2>1. lastStatus' \in ToldStatuses /\ lastDirection' \in Directions
    BY <1>4, <1>t, Received DEF ReceivePlayerState, ToldMessages, MapMessages
  <2>2. RedrawCommand(lastStatus') \in Commands
    BY <2>1 DEF RedrawCommand, Commands
  <2>3. UNCHANGED <<map, queue, resized, screen>>
    BY <1>4 DEF ReceivePlayerState
  <2>4. \/ command' = RedrawCommand(lastStatus')
        \/ command' = command /\ main' = "looping"
    BY <1>4 DEF ReceivePlayerState
  <2> QED BY <1>t, <2>1, <2>2, <2>3, <2>4 DEF DataTypes
<1>5. CASE TellRenderer
  <2>1. command \in Commands /\ command' = NoCommand /\ main' = "looping"
    BY <1>5, <1>t DEF TellRenderer, DataTypes
  <2>2. UNCHANGED <<map, lastStatus, lastDirection, resized, screen>>
    BY <1>5 DEF TellRenderer, Redraw, Update
  <2>3. queue' = <<command>> \/ (queue' = Append(queue, command) /\ Len(queue) < MaxQueue)
    BY <1>5 DEF TellRenderer, Redraw, Update
  <2>4. queue' \in Seq(Commands) /\ Len(queue') <= MaxQueue
    <3>1. CASE queue' = <<command>>
      BY <2>1, <3>1, RendererAssumption
    <3>2. CASE queue' = Append(queue, command) /\ Len(queue) < MaxQueue
      <4>1. queue \in Seq(Commands)
        BY <1>t DEF DataTypes
      <4>2. queue' \in Seq(Commands) /\ Len(queue') = Len(queue) + 1
        BY <2>1, <3>2, <4>1
      <4> QED BY <3>2, <4>1, <4>2, RendererAssumption
    <3> QED BY <2>3, <3>1, <3>2
  <2> QED BY <1>t, <2>1, <2>2, <2>4 DEF DataTypes
<1>6. CASE CheckInputShutdown \/ Poll \/ PressExit \/ PressKey \/ PollAfterShutdown
  BY <1>6, <1>t, DataUndisturbed
  DEF dataVars, CheckInputShutdown, Poll, PressExit, PressKey, PollAfterShutdown
<1>7. CASE Resize
  BY <1>7, <1>t DEF Resize, DataTypes
<1>8. CASE RedrawResized
  <2>1. RedrawCommand(resized) \in Commands
    BY <1>t DEF DataTypes, RedrawCommand, Commands
  <2>2. /\ queue' = <<RedrawCommand(resized)>>
        /\ UNCHANGED <<map, lastStatus, lastDirection, command, main, resized, screen>>
    BY <1>8 DEF RedrawResized, Redraw
  <2>3. queue' \in Seq(Commands) /\ Len(queue') <= MaxQueue
    BY <2>1, <2>2, RendererAssumption
  <2> QED BY <1>t, <2>2, <2>3 DEF DataTypes
<1>9. CASE DrawerRuns /\ OnlyDrawer
  <2>1. UNCHANGED <<map, lastStatus, lastDirection, command, main, resized>>
    BY <1>9
  <2>2. CASE CheckShutdown \/ CheckQueue \/ FallAsleep
    BY <1>t, <2>1, <2>2, DataUndisturbed DEF CheckShutdown, CheckQueue, FallAsleep, dataVars
  <2>3. CASE DrawRedraw
    <3>1. queue # <<>> /\ queue' = Tail(queue) /\ Head(queue) \in Commands
      BY <1>t, <2>3 DEF DrawRedraw, DataTypes
    <3>2. Head(queue).status \in ToldStatuses \cup {"NotConnected", "none"}
      BY <2>3, <3>1 DEF DrawRedraw, Commands
    <3>3. queue' \in Seq(Commands) /\ Len(queue') <= MaxQueue
      BY <1>t, <3>1, RendererAssumption DEF DataTypes
    <3>4. screen' = [tile |-> map, controls |-> Head(queue).status]
      BY <2>3 DEF DrawRedraw
    <3> QED BY <1>t, <2>1, <3>2, <3>3, <3>4 DEF DataTypes
  <2>4. CASE DrawUpdates
    <3>1. screen' = [screen EXCEPT !.tile = queue[Len(queue)].tile] /\ queue' = <<>>
      BY <2>4 DEF DrawUpdates
    <3>2. queue[Len(queue)] \in Commands /\ queue[Len(queue)].type = "update"
      BY <1>t, <1>u, <2>4 DEF DrawUpdates, DataTypes, UpdatesAreUpdates
    <3>3. queue[Len(queue)].tile \in Contents
      BY <3>2 DEF Commands
    <3> QED BY <1>t, <2>1, <3>1, <3>3, RendererAssumption DEF DataTypes
  <2> QED BY <1>9, <2>2, <2>3, <2>4 DEF DrawerRuns
<1> QED
  BY <1>1, <1>2, <1>3, <1>4, <1>5, <1>6, <1>7, <1>8, <1>9
  DEF ClientStep, MainRuns, InputRuns, UserActs

-----------------------------------------------------------------------------
(* The results.                                                            *)

\* The invariant is inductive.
LEMMA NextInv == Inv /\ [Next]_vars => Inv'
<1> SUFFICES ASSUME Inv, [Next]_vars PROVE Inv'
  OBVIOUS
<1>t. Types /\ PlainTypes /\ DataTypes
  BY TypesAre DEF Inv, AllTypes
<1>1. CASE ClientStep
  <2>1. Types'
    BY <1>1, <1>t, PlainStep, DataStep, StreamOfClient, TypesAre DEF AllTypes
  <2>2. Rendering'
    BY <1>1, <2>1, MainInv, InputInv, DrawerInv DEF ClientStep
  <2> QED BY <2>1, <2>2 DEF Inv
<1>2. CASE ServerSide /\ UNCHANGED clientVars
  <2>1. toClient' \in Seq(ToldMessages)
    BY <1>2, <1>t, StreamOfServer
  <2> USE <1>2 DEF clientVars, mainVars, inputVars, rendererVars
  <2>2. PlainTypes'
    BY <1>t DEF PlainTypes
  <2>3. DataTypes'
    BY <1>t, DataUndisturbed DEF dataVars
  <2>4. Rendering'
    BY Undisturbed DEF drawnVars, Inv, Rendering
  <2> QED BY <2>1, <2>2, <2>3, <2>4, TypesAre DEF Inv, AllTypes
<1>3. CASE UNCHANGED vars
  <2> USE <1>3 DEF vars, clientVars, mainVars, inputVars, rendererVars, protocolVars,
                   socketVars
  <2>1. PlainTypes' /\ toClient' \in Seq(ToldMessages)
    BY <1>t DEF PlainTypes, Types
  <2>2. DataTypes'
    BY <1>t, DataUndisturbed DEF dataVars
  <2>3. Rendering'
    BY Undisturbed DEF drawnVars, Inv, Rendering
  <2> QED BY <2>1, <2>2, <2>3, TypesAre DEF Inv, AllTypes
<1> QED BY <1>1, <1>2, <1>3 DEF Next

\* The invariant holds in every state of every behaviour.
LEMMA InvAlways == Spec => []Inv
BY InitInv, NextInv, PTL DEF Spec

\* socket_client.c and renderer.c keep their data in their types.
THEOREM TypeCorrect == Spec => []TypeOK
<1>1. Inv => TypeOK
  BY DEF Inv, Types
<1> QED BY InvAlways, <1>1, PTL

\* renderer.c: what the main thread has put into the map is on the screen when
\* nothing is left to draw, whatever the input thread redraws in between.
THEOREM ScreenIsCorrect == Spec => []ScreenFollowsMap
<1>1. Inv => ScreenFollowsMap
  BY DEF Inv, Rendering, FinalTile, ScreenFollowsMap, IsQuiet, NoCommand
<1> QED BY InvAlways, <1>1, PTL

\* renderer_main reads the command behind an update as an update, and it is one.
THEOREM QueueIsReadRightly == Spec => []UpdatesAreUpdates
<1>1. Inv => UpdatesAreUpdates
  BY DEF Inv, Rendering
<1> QED BY InvAlways, <1>1, PTL

\* A command never finds the drawing thread between its look at the queue and
\* its wait, because that holds the mutex: no wake-up for a command is lost.
THEOREM CommandsWakeTheDrawer == Spec => []NobodySleepsOverCommands
<1>1. Inv => NobodySleepsOverCommands
  BY DEF Inv, Rendering
<1> QED BY InvAlways, <1>1, PTL

-----------------------------------------------------------------------------
(* The controls.                                                           *)

\* The controls that will be on the screen when the queue has been drawn.
PendingControls ==
  IF queue # <<>> /\ queue[1].type = "redraw" THEN queue[1].status ELSE screen.controls

\* A status that changes is drawn by the command that is made with the change;
\* a resize is on its way only with the status it has read.
Controls ==
  /\ command.type = "redraw" => command.status = lastStatus
  /\ command.type # "redraw" /\ input # "resizing" =>
       PendingControls \in {"none", lastStatus, resized}

LEMMA ControlsInitially == Init => Controls
<1> SUFFICES ASSUME Init PROVE Controls
  OBVIOUS
<1>1. queue = <<>> /\ screen = [tile |-> map, controls |-> "none"] /\ command = NoCommand
  BY DEF Init, ClientInit, RendererInit
<1> QED BY <1>1 DEF Controls, PendingControls, NoCommand

\* A step that neither tells nor draws anything.
LEMMA ControlsUndisturbed ==
  ASSUME Controls, UNCHANGED <<queue, screen, lastStatus>>,
         command' = command \/ (command'.type = "update" /\ command.type # "redraw"),
         resized' = resized, input = "resizing" => input' = "resizing"
  PROVE  Controls'
<1>1. UNCHANGED PendingControls
  BY DEF PendingControls
<1> QED BY <1>1 DEF Controls

LEMMA MainControls ==
  ASSUME Inv, Controls, MainRuns
  PROVE  Controls'
<1> USE DEF OnlyMain, rendererVars, inputVars
<1>n. main # "rendering" => command = NoCommand
  BY DEF Inv, Rendering
<1>1. CASE Loop \/ IsTurnedAway \/ IsConnected \/ ReadFails \/ SayGoodbye \/ StopInput
             \/ JoinInput \/ StopRenderer \/ JoinRenderer
  BY <1>1, ControlsUndisturbed
  DEF Loop, IsTurnedAway, IsConnected, ReadFails, SayGoodbye, StopInput, JoinInput,
      StopRenderer, JoinRenderer, StopDrawer
<1>2. CASE ReceiveMap
  <2>1. command' = RedrawCommand(lastStatus) /\ UNCHANGED lastStatus
    BY <1>2 DEF ReceiveMap
  <2> QED BY <2>1 DEF Controls, RedrawCommand
<1>3. CASE ReceiveTileChange
  <2>1. command = NoCommand /\ command'.type = "update"
    BY <1>3, <1>n DEF ReceiveTileChange, Receives, UpdateCommand
  <2>2. UNCHANGED <<queue, screen, lastStatus, resized, input>>
    BY <1>3 DEF ReceiveTileChange
  <2> QED BY <2>1, <2>2, ControlsUndisturbed DEF NoCommand
<1>4. CASE ReceivePlayerState
  <2>1. CASE lastStatus' # lastStatus
    <3>1. command' = RedrawCommand(lastStatus')
      BY <1>4, <2>1 DEF ReceivePlayerState
    <3> QED BY <3>1 DEF Controls, RedrawCommand
  <2>2. CASE lastStatus' = lastStatus
    BY <1>4, <2>2, ControlsUndisturbed DEF ReceivePlayerState
  <2> QED BY <2>1, <2>2
<1>5. CASE TellRenderer
  <2>1. /\ command \in Commands /\ queue \in Seq(Commands)
        /\ command' = NoCommand /\ UNCHANGED <<lastStatus, screen, resized, input>>
    BY <1>5 DEF TellRenderer, Inv, Types, Redraw, Update
  <2>2. CASE command.type = "redraw"
    <3>1. queue' = <<command>>
      BY <1>5, <2>2 DEF TellRenderer, Redraw
    <3>2. PendingControls' = lastStatus
      BY <2>2, <3>1 DEF Controls, PendingControls
    <3> QED BY <2>1, <3>2 DEF Controls, NoCommand
  <2>3. CASE command.type # "redraw"
    <3>1. queue' = Append(queue, command)
      BY <1>5, <2>3 DEF TellRenderer, Update
    <3>2. UNCHANGED PendingControls
      <4>1. CASE queue = <<>>
        <5>1. queue' # <<>> /\ queue'[1] = command
          BY <2>1, <3>1, <4>1
        <5> QED BY <2>1, <2>3, <4>1, <5>1 DEF PendingControls
      <4>2. CASE queue # <<>>
        <5>1. queue' # <<>> /\ queue'[1] = queue[1]
          BY <2>1, <3>1, <4>2
        <5> QED BY <2>1, <4>2, <5>1 DEF PendingControls
      <4> QED BY <4>1, <4>2
    <3> QED BY <2>1, <2>3, <3>2 DEF Controls, NoCommand
  <2> QED BY <2>2, <2>3
<1> QED BY <1>1, <1>2, <1>3, <1>4, <1>5 DEF MainRuns

LEMMA InputControls ==
  ASSUME Controls, InputRuns \/ UserActs
  PROVE  Controls'
<1> USE DEF OnlyInput, mainVars, rendererVars
<1>1. CASE CheckInputShutdown \/ Poll \/ PressExit \/ PressKey \/ PollAfterShutdown
  BY <1>1, ControlsUndisturbed
  DEF CheckInputShutdown, Poll, PressExit, PressKey, PollAfterShutdown
<1>2. CASE Resize
  BY <1>2 DEF Resize, Controls
<1>3. CASE RedrawResized
  <2>1. queue' = <<RedrawCommand(resized)>> /\ UNCHANGED <<resized, command, lastStatus>>
    BY <1>3 DEF RedrawResized, Redraw
  <2>2. PendingControls' = resized
    BY <2>1 DEF PendingControls, RedrawCommand
  <2> QED BY <2>1, <2>2 DEF Controls
<1> QED BY <1>1, <1>2, <1>3 DEF InputRuns, UserActs

\* What the drawing thread takes out of the queue is on the screen.
LEMMA DrawerControls ==
  ASSUME Inv, Controls, DrawerRuns, OnlyDrawer
  PROVE  Controls'
<1>1. UNCHANGED <<command, lastStatus, resized, input>> /\ queue \in Seq(Commands)
  BY DEF OnlyDrawer, mainVars, inputVars, Inv, Types
<1>2. UNCHANGED PendingControls
  <2>1. CASE CheckShutdown \/ CheckQueue \/ FallAsleep
    BY <2>1 DEF CheckShutdown, CheckQueue, FallAsleep, PendingControls
  <2>2. CASE DrawRedraw
    <3>1. /\ queue # <<>> /\ queue[1].type = "redraw" /\ queue' = Tail(queue)
          /\ screen'.controls = queue[1].status
      BY <2>2 DEF DrawRedraw
    <3>2. queue' # <<>> => queue'[1].type = "update"
      <4>1. queue' # <<>> => queue'[1] = queue[2] /\ 2 \in 1 .. Len(queue)
        BY <1>1, <3>1
      <4> QED BY <4>1 DEF Inv, Rendering, UpdatesAreUpdates
    <3> QED BY <3>1, <3>2 DEF PendingControls
  <2>3. CASE DrawUpdates
    <3>1. /\ queue # <<>> /\ queue[1].type = "update" /\ queue' = <<>>
          /\ screen' = [screen EXCEPT !.tile = queue[Len(queue)].tile]
      BY <2>3 DEF DrawUpdates
    <3>2. screen'.controls = screen.controls
      BY <3>1 DEF Inv, Types
    <3> QED BY <3>1, <3>2 DEF PendingControls
  <2> QED BY <2>1, <2>2, <2>3 DEF DrawerRuns
<1> QED BY <1>1, <1>2 DEF Controls

\* renderer.c and the callbacks of socket_client.c: when nothing is left to draw
\* the controls offered are those of the status last told, or of the one that a
\* resize has read.
THEOREM ControlsAreCorrect == Spec => []ControlsFollowStatus
<1>1. Inv /\ Controls /\ [Next]_vars => Controls'
  <2> SUFFICES ASSUME Inv, Controls, [Next]_vars PROVE Controls'
    OBVIOUS
  <2>1. CASE ClientStep
    BY <2>1, MainControls, InputControls, DrawerControls DEF ClientStep
  <2>2. CASE UNCHANGED clientVars
    BY <2>2, ControlsUndisturbed DEF clientVars, mainVars, inputVars, rendererVars
  <2> QED BY <2>1, <2>2 DEF Next, vars
<1>2. Controls => ControlsFollowStatus
  BY DEF Controls, ControlsFollowStatus, IsQuiet, PendingControls, NoCommand
<1> QED BY InvAlways, ControlsInitially, <1>1, <1>2, PTL DEF Spec
=============================================================================
