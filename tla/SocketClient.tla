---------------------------- MODULE SocketClient ----------------------------
(***************************************************************************)
(* A client of a socket server, client/socket_client.c with input.c: the   *)
(* main thread, which reads the server's messages, the input thread, which *)
(* calls back for every key, and the drawing thread (Renderer).            *)
(*                                                                         *)
(* It begins when all the threads have been started: the magic bytes have  *)
(* been sent before.  SIGWINCH is blocked in the main thread, so that no   *)
(* signal interrupts its reads.  SIGPIPE is left out, and so are messages  *)
(* that no server of this repository sends.                                *)
(***************************************************************************)
EXTENDS ConnectionProtocol, Renderer

VARIABLES
  main,           \* what the main thread is doing
  state,          \* socket_client_state_t
  command,        \* what the main thread is about to tell the renderer
  exit,           \* atomic flags and values, shared with the input thread
  lastStatus,
  lastDirection,
  input,          \* what the input thread is doing
  inputShutdown,  \* input_t.shutdown_
  resized         \* the status that the latest resize has read

mainVars == <<main, state, command, map, lastStatus, lastDirection>>
inputVars == <<input, exit, resized>>
clientVars == <<mainVars, inputVars, inputShutdown, rendererVars>>

MainStages == {"looping", "reading", "rendering", "leaving", "stoppingInput",
               "joiningInput", "stoppingRenderer", "joiningRenderer", "done"}
InputStages == {"checking", "entering", "polling", "resizing", "ended"}
States == {"connecting", "playing", "full", "gameEnded", "connectionError"}
NoCommand == [type |-> "none"]

ClientInit ==
  /\ map = 0
  /\ RendererInit
  /\ main = "looping"
  /\ state = "connecting"
  /\ command = NoCommand
  /\ exit = FALSE
  /\ lastStatus = "NotConnected"
  /\ lastDirection = "up"
  /\ input = "checking"
  /\ inputShutdown = FALSE
  /\ resized = "none"

-----------------------------------------------------------------------------
(* The main thread.                                                        *)

OnlyMain == UNCHANGED <<inputVars, inputShutdown, rendererVars>>

\* Mutant of the next: the exit key is looked at only before the game.
LoopWhilePlaying ==
  /\ main = "looping"
  /\ main' = IF state \in {"connecting", "playing"} THEN "reading" ELSE "leaving"
  /\ UNCHANGED <<state, command, map, lastStatus, lastDirection, socketVars>>
  /\ OnlyMain

\* The condition of the loop: the exit key counts only while playing.
Loop ==
  /\ main = "looping"
  /\ main' = IF state = "connecting" \/ (state = "playing" /\ ~exit)
             THEN "reading" ELSE "leaving"
  /\ UNCHANGED <<state, command, map, lastStatus, lastDirection, socketVars>>
  /\ OnlyMain

Receives(type) ==
  /\ main = "reading"
  /\ ClientReads
  /\ Head(toClient).type = type

\* Both break out of the loop.
IsTurnedAway ==
  /\ \/ Receives("gameFull") /\ state' = "full"
     \/ Receives("gameEnd") /\ state' = "gameEnded"
  /\ main' = "leaving"
  /\ UNCHANGED <<command, map, lastStatus, lastDirection>>
  /\ OnlyMain

IsConnected ==
  /\ Receives("connected")
  /\ state' = "playing"
  /\ main' = "looping"
  /\ UNCHANGED <<command, map, lastStatus, lastDirection>>
  /\ OnlyMain

ReceiveMap ==
  /\ Receives("map")
  /\ map' = Head(toClient).map
  /\ command' = RedrawCommand(lastStatus)
  /\ main' = "rendering"
  /\ UNCHANGED <<state, lastStatus, lastDirection>>
  /\ OnlyMain

\* Mutant of the next: the tile is looked up before it is set.
ReceiveTileChangeEarly ==
  /\ Receives("tileChange")
  /\ map' = Head(toClient).tile
  /\ command' = UpdateCommand(map)
  /\ main' = "rendering"
  /\ UNCHANGED <<state, lastStatus, lastDirection>>
  /\ OnlyMain

ReceiveTileChange ==
  /\ Receives("tileChange")
  /\ map' = Head(toClient).tile
  /\ command' = UpdateCommand(Head(toClient).tile)
  /\ main' = "rendering"
  /\ UNCHANGED <<state, lastStatus, lastDirection>>
  /\ OnlyMain

\* Mutant of the next: a new status is not drawn.
ReceivePlayerStateQuietly ==
  /\ Receives("playerState")
  /\ lastStatus' = Head(toClient).status
  /\ lastDirection' = Head(toClient).direction
  /\ main' = "looping"
  /\ UNCHANGED <<state, map, command>>
  /\ OnlyMain

ReceivePlayerState ==
  /\ Receives("playerState")
  /\ lastStatus' = Head(toClient).status
  /\ lastDirection' = Head(toClient).direction
  /\ IF lastStatus' # lastStatus
     THEN command' = RedrawCommand(lastStatus') /\ main' = "rendering"
     ELSE UNCHANGED command /\ main' = "looping"
  /\ UNCHANGED <<state, map>>
  /\ OnlyMain

ReadFails ==
  /\ main = "reading"
  /\ ClientReadFails
  /\ state' = "connectionError"
  /\ main' = "leaving"
  /\ UNCHANGED <<command, map, lastStatus, lastDirection, socketVars>>
  /\ OnlyMain

\* The map's mutex has been released before the queue's is taken.
TellRenderer ==
  /\ main = "rendering"
  /\ IF command.type = "redraw" THEN Redraw(command) ELSE Update(command)
  /\ command' = NoCommand
  /\ main' = "looping"
  /\ UNCHANGED <<state, map, lastStatus, lastDirection, inputVars, inputShutdown, socketVars>>

\* Whether the write succeeds makes no difference.
SayGoodbye ==
  /\ main = "leaving"
  /\ \/ exit /\ SendToServer([type |-> "disconnect"])
     \/ (~exit \/ reset) /\ UNCHANGED socketVars
  /\ main' = "stoppingInput"
  /\ UNCHANGED <<state, command, map, lastStatus, lastDirection>>
  /\ OnlyMain

\* input_destroy: the signal interrupts the wait for a key, if it has begun.
StopInput ==
  /\ main = "stoppingInput"
  /\ inputShutdown' = TRUE
  /\ input' = IF input = "polling" THEN "ended" ELSE input
  /\ main' = "joiningInput"
  /\ UNCHANGED <<state, command, map, lastStatus, lastDirection, exit, resized,
                 rendererVars, socketVars>>

JoinInput ==
  /\ main = "joiningInput" /\ input = "ended"
  /\ main' = "stoppingRenderer"
  /\ UNCHANGED <<state, command, map, lastStatus, lastDirection, socketVars>>
  /\ OnlyMain

StopRenderer ==
  /\ main = "stoppingRenderer"
  /\ StopDrawer
  /\ main' = "joiningRenderer"
  /\ UNCHANGED <<state, command, map, lastStatus, lastDirection, inputVars,
                 inputShutdown, socketVars>>

JoinRenderer ==
  /\ main = "joiningRenderer" /\ drawer = "ended"
  /\ CloseClientSide
  /\ main' = "done"
  /\ UNCHANGED <<state, command, map, lastStatus, lastDirection>>
  /\ OnlyMain

-----------------------------------------------------------------------------
(* The input thread.                                                       *)

OnlyInput == UNCHANGED <<mainVars, inputShutdown>>

CheckInputShutdown ==
  /\ input = "checking"
  /\ input' = IF inputShutdown THEN "ended" ELSE "entering"
  /\ UNCHANGED <<exit, resized, rendererVars, socketVars>> /\ OnlyInput

\* tb_poll_event blocks; a signal that came before does not interrupt it.
Poll ==
  /\ input = "entering"
  /\ input' = "polling"
  /\ UNCHANGED <<exit, resized, rendererVars, socketVars>> /\ OnlyInput

\* An event that comes too late is dropped.
PollAfterShutdown ==
  /\ input = "polling" /\ inputShutdown
  /\ input' = "ended"
  /\ UNCHANGED <<exit, resized, rendererVars, socketVars>> /\ OnlyInput

PressExit ==
  /\ input = "polling" /\ ~inputShutdown
  /\ exit' = TRUE
  /\ input' = "checking"
  /\ UNCHANGED <<resized, rendererVars, socketVars>> /\ OnlyInput

\* A turn back is refused, as far as the client knows the direction.
IsRefused(m) == m.type = "direction" /\ m.direction = DirectionOpposite(lastDirection)

\* Whether the write succeeds makes no difference.
PressKey ==
  /\ input = "polling" /\ ~inputShutdown
  /\ \E m \in KeyMessages :
       \/ ~IsRefused(m) /\ SendToServer(m)
       \/ (IsRefused(m) \/ reset) /\ UNCHANGED socketVars
  /\ input' = "checking"
  /\ UNCHANGED <<exit, resized, rendererVars>> /\ OnlyInput

\* The status is read before the mutex of the queue is taken.
Resize ==
  /\ input = "polling" /\ ~inputShutdown
  /\ resized' = lastStatus
  /\ input' = "resizing"
  /\ UNCHANGED <<exit, rendererVars, socketVars>> /\ OnlyInput

RedrawResized ==
  /\ input = "resizing"
  /\ Redraw(RedrawCommand(resized))
  /\ input' = "checking"
  /\ UNCHANGED <<exit, resized, socketVars>> /\ OnlyInput

-----------------------------------------------------------------------------
MainRuns ==
  \/ Loop \/ IsTurnedAway \/ IsConnected \/ ReceiveMap \/ ReceiveTileChange
  \/ ReceivePlayerState \/ ReadFails \/ TellRenderer \/ SayGoodbye
  \/ StopInput \/ JoinInput \/ StopRenderer \/ JoinRenderer

\* What the thread does by itself, and what it needs an event for.
InputRuns == CheckInputShutdown \/ Poll \/ RedrawResized
UserActs == PressExit \/ PressKey \/ Resize \/ PollAfterShutdown

OnlyDrawer == UNCHANGED <<mainVars, inputVars, inputShutdown, socketVars>>

ClientStep ==
  \/ MainRuns
  \/ InputRuns
  \/ UserActs
  \/ DrawerRuns /\ OnlyDrawer

Init == ProtocolInit /\ ClientInit

Next ==
  \/ ClientStep /\ UNCHANGED place
  \/ ServerSide /\ UNCHANGED clientVars

vars == <<clientVars, protocolVars>>

Spec == Init /\ [][Next]_vars

\* The threads run, and the main thread gets the mutex of the queue although
\* the drawing thread takes it for every resize: those come at the pace of a
\* hand.  Nobody has to press a key, but somebody who wonders why the client
\* does not end does; and nothing is asked of the server.
FairSpec ==
  /\ Spec
  /\ SF_vars(MainRuns /\ UNCHANGED place)
  /\ WF_vars((InputRuns \/ PollAfterShutdown) /\ UNCHANGED place)
  /\ WF_vars(DrawerRuns /\ OnlyDrawer /\ UNCHANGED place)

-----------------------------------------------------------------------------
TypeOK ==
  /\ main \in MainStages
  /\ state \in States
  /\ map \in Contents
  /\ exit \in BOOLEAN
  /\ lastStatus \in {s.status : s \in PlayerStates} \cup {"NotConnected"}
  /\ lastDirection \in Directions
  /\ input \in InputStages
  /\ inputShutdown \in BOOLEAN
  /\ drawer \in DrawerStages
  /\ rendererShutdown \in BOOLEAN
  /\ Len(queue) <= MaxQueue
  /\ screen.tile \in Contents

\* Nothing is left to draw, and no thread is about to ask for more.
IsQuiet ==
  /\ queue = <<>>
  /\ command = NoCommand
  /\ input # "resizing"

\* What the server has told is on the screen once it is drawn, although main
\* thread and input thread change the map, clear the queue and fill it in any
\* order, and a redraw takes the map of a later time than the updates behind it.
ScreenFollowsMap == IsQuiet => screen.tile = map

\* The controls on the screen are those of the player's status, or of the
\* status that a resize has read: the input thread may be overtaken by the
\* main thread between that and its redraw.
ControlsFollowStatus ==
  IsQuiet /\ screen.controls # "none" => screen.controls \in {lastStatus, resized}

\* Behind an update there are only updates: the drawing thread takes whatever
\* it finds there for one.
UpdatesAreUpdates ==
  \A i \in 1 .. Len(queue) : i > 1 => queue[i].type = "update"

\* The drawing thread does not sleep over a command, whenever it comes between
\* the look at the queue and the wait.
NobodySleepsOverCommands == drawer \in {"dozing", "asleep"} => queue = <<>>

InLoop == main \in {"looping", "reading", "rendering"}

\* Who wants to leave does, unless the server comes to say nothing any more: the
\* main thread, once out of its loop, does not go back to it.
ExitIsSeen == []<>(exit => ~InLoop) \/ <>[](toClient = <<>>)

\* The end of the game does not lie in the stream for ever: the main thread comes
\* to read it, which ends its loop (IsTurnedAway), and does not get stuck on a
\* mutex before.
GameEndIsSeen ==
  []<>(InLoop => \A i \in 1 .. Len(toClient) : toClient[i].type # "gameEnd")

\* renderer.c:70 offers to "leave the game"; a client that has said goodbye
\* for that comes to its end.
LeavingEnds == exit /\ main = "stoppingInput" ~> main = "done"
=============================================================================
