-------------------------- MODULE ClientConnection --------------------------
(***************************************************************************)
(* The server's side of one connection, server/client_connection.c: its    *)
(* send thread and its receive thread, and the threads of the server they  *)
(* meet: the ticks, and the handler that ends the connection after the     *)
(* game.                                                                   *)
(*                                                                         *)
(* What PlayerSlots and TickBroadcast are about is coarse here: a tick is  *)
(* one step, and so is the search for a slot, or what is done with one     *)
(* message.  The map is one tile, its content a counter.                   *)
(*                                                                         *)
(* Left out: a file descriptor is not used again; two threads that find    *)
(* shutdown_ unset at once, and signal twice; and what is in a message     *)
(* whose write a signal has cut short: the code writes on, as many bytes   *)
(* as there should be, and which bytes those are is the matter of Wire.    *)
(***************************************************************************)
EXTENDS Socket, PlayerManager

CONSTANTS
  KeyMessages,  \* what a client may ask for
  MapVersions   \* how many contents of the map are told apart

ASSUME MapVersionsAssumption == MapVersions \in Nat \ {0}

\* The callbacks of the keys make no other messages.
ASSUME KeyMessagesAssumption ==
  \A m \in KeyMessages :
    /\ m.type \in {"direction", "pause", "unpause", "respawn"}
    /\ m.type = "direction" => m.direction \in Directions

VARIABLES
  sender,      \* what the send thread is doing
  receiver,    \* what the receive thread is doing
  handler,     \* what the connection handler is doing with the connection
  shutdown,    \* client_connection_t.shutdown_
  playerId,    \* client_connection_t.player_id_
  told,        \* last_player_state; NothingTold while is_first_tick
  passed,      \* ticks_passed
  missed,      \* the ticks that the observer has not seen yet, 2 for more
  gameMap,     \* game_state_t.map_
  changed,     \* the changelog is not empty
  gameEnded    \* game_state_t.game_ended_

threadVars == <<sender, receiver, handler, shutdown, playerId, told, passed>>
gameVars == <<missed, gameMap, changed, gameEnded>>
connectionVars == <<threadVars, gameVars, players>>

NotRegistered == MaxPlayers  \* PLAYER_ID_NOT_REGISTERED
NothingTold == [status |-> "none", direction |-> "none"]
Contents == 0 .. MapVersions - 1
PlayerStates == [status : Statuses, direction : Directions]

SenderStages == {"registering", "refusing", "greeting", "mapping", "looping",
                 "waiting", "telling", "showing", "leaving", "unregistering",
                 "shuttingDown", "closing", "ended"}
ReceiverStages == {"checking", "entering", "reading", "ended"}

\* Some slots may have been taken by others.
ConnectionInit ==
  /\ players \in [PlayerIds -> {[status |-> "NotConnected", direction |-> "unset"],
                                [status |-> "Playing", direction |-> "up"]}]
  /\ sender = "registering"
  /\ receiver = "checking"
  /\ handler = "accepting"
  /\ shutdown = FALSE
  /\ playerId = NotRegistered
  /\ told = NothingTold
  /\ passed = 0
  /\ missed = 0
  /\ gameMap = 0
  /\ changed = FALSE
  /\ gameEnded = FALSE

IsRegistered == playerId # NotRegistered

\* A signal interrupts a read that waits for a message; one that has come to
\* the end of the stream does not wait, and one that has not begun is not
\* interrupted.
AfterSignal ==
  IF receiver = "reading" /\ ~(clientClosed /\ toServer = <<>>)
  THEN "ended" ELSE receiver

\* client_connection_shutdown as the send thread calls it: it waits for nothing
\* that its own signal could end.
ShutDown ==
  /\ shutdown' = TRUE
  /\ receiver' = IF shutdown THEN receiver ELSE AfterSignal

\* The send thread has a message to write, and the stream has no room for it.
IsBlocked ==
  /\ ~reset /\ Len(toClient) = BufferSize
  /\ \/ sender = "mapping"
     \/ sender = "telling" /\ told # players[playerId]
     \/ sender = "showing" /\ (passed > 1 \/ changed)
     \/ sender = "leaving" /\ gameEnded

\* What it comes to when that write is given up, with shutdown_ set.
AfterWrite ==
  CASE sender \in {"mapping", "showing"} -> "leaving"
    [] sender = "telling"               -> "showing"
    [] sender = "leaving"               -> "unregistering"

\* The signal of another thread that shuts the connection down: a write that
\* waits for room fails, and its message is lost on a connection that is intact;
\* one that has not begun is not interrupted.
SignalSender ==
  \/ UNCHANGED <<sender, told>>
  \/ /\ ~shutdown /\ IsBlocked
     /\ sender' = AfterWrite
     /\ told' = IF sender = "telling" THEN players[playerId] ELSE told

-----------------------------------------------------------------------------
(* The send thread.                                                        *)

\* A message, and then the next stage whether it could be written or not.
\* A failure shuts the connection down.
Send(m) ==
  \/ SendToClient(m) /\ UNCHANGED <<shutdown, receiver>>
  \/ reset /\ ShutDown /\ UNCHANGED socketVars

GoOn(stage) ==
  /\ sender' = stage
  /\ UNCHANGED <<handler, gameMap, changed, gameEnded>>

RegisterPlayer ==
  /\ sender = "registering"
  /\ \E p \in PlayerIds : Register(p) /\ playerId' = p
  /\ GoOn("greeting")
  /\ UNCHANGED <<receiver, shutdown, told, passed, missed, socketVars>>

\* Here alone the thread ends without shutting the connection down.
Refuse ==
  /\ sender = "registering"
  /\ \A p \in PlayerIds : ~HasStatus(p, {"NotConnected"})
  /\ Send([type |-> "gameFull"])
  /\ GoOn("refusing")
  /\ UNCHANGED <<playerId, told, passed, missed, players>>

CloseRefused ==
  /\ sender = "refusing"
  /\ CloseServerSide
  /\ GoOn("ended")
  /\ UNCHANGED <<receiver, shutdown, playerId, told, passed, missed, players>>

\* Mutant of the next: the first map is left to the ticks.
GreetWithoutMap ==
  /\ sender = "greeting"
  /\ Send([type |-> "connected"])
  /\ GoOn("looping")
  /\ UNCHANGED <<playerId, told, passed, missed, players>>

Greet ==
  /\ sender = "greeting"
  /\ Send([type |-> "connected"])
  /\ GoOn("mapping")
  /\ UNCHANGED <<playerId, told, passed, missed, players>>

MapMessage == [type |-> "map", map |-> gameMap]

\* ticker_observer_init and the first map.
SendFirstMap ==
  /\ sender = "mapping"
  /\ missed' = 0
  /\ Send(MapMessage)
  /\ GoOn("looping")
  /\ UNCHANGED <<playerId, told, passed, players>>

\* The condition of the loop.
LoopCheck ==
  /\ sender = "looping"
  /\ GoOn(IF shutdown \/ gameEnded THEN "leaving" ELSE "waiting")
  /\ UNCHANGED <<receiver, shutdown, playerId, told, passed, missed, players, socketVars>>

Wake ==
  /\ sender = "waiting"
  /\ missed > 0
  /\ passed' = missed
  /\ missed' = 0
  /\ GoOn(IF shutdown \/ gameEnded THEN "leaving" ELSE "telling")
  /\ UNCHANGED <<receiver, shutdown, playerId, told, players, socketVars>>

PlayerStateMessage ==
  [type |-> "playerState", status |-> players[playerId].status,
   direction |-> players[playerId].direction]

\* Mutant of the next: a new status does not count.
TellDirection ==
  /\ sender = "telling"
  /\ IF told.direction = players[playerId].direction
     THEN UNCHANGED <<told, receiver, shutdown, socketVars>>
     ELSE told' = players[playerId] /\ Send(PlayerStateMessage)
  /\ GoOn("showing")
  /\ UNCHANGED <<playerId, passed, missed, players>>

\* The state of the player, if it is not the one told last.
TellState ==
  /\ sender = "telling"
  /\ IF told = players[playerId]
     THEN UNCHANGED <<told, receiver, shutdown, socketVars>>
     ELSE told' = players[playerId] /\ Send(PlayerStateMessage)
  /\ GoOn("showing")
  /\ UNCHANGED <<playerId, passed, missed, players>>

\* The map, or what has changed.
Show ==
  /\ sender = "showing"
  /\ \/ passed > 1 /\ Send(MapMessage)
     \/ passed = 1 /\ changed /\ Send([type |-> "tileChange", tile |-> gameMap])
     \/ passed = 1 /\ ~changed /\ UNCHANGED <<receiver, shutdown, socketVars>>
  /\ GoOn("looping")
  /\ UNCHANGED <<playerId, told, passed, missed, players>>

Leave ==
  /\ sender = "leaving"
  /\ IF gameEnded THEN Send([type |-> "gameEnd"])
     ELSE UNCHANGED <<receiver, shutdown, socketVars>>
  /\ GoOn("unregistering")
  /\ UNCHANGED <<playerId, told, passed, missed, players>>

\* Mutant of the next: the slot stays with a player who has lost a snake.
UnregisterLiving ==
  /\ sender = "unregistering"
  /\ IF HasStatus(playerId, {"Dead"}) THEN UNCHANGED players ELSE Unregister(playerId)
  /\ GoOn("shuttingDown")
  /\ UNCHANGED <<receiver, shutdown, playerId, told, passed, missed, socketVars>>

\* The id stays.
UnregisterPlayer ==
  /\ sender = "unregistering"
  /\ Unregister(playerId)
  /\ GoOn("shuttingDown")
  /\ UNCHANGED <<receiver, shutdown, playerId, told, passed, missed, socketVars>>

SenderShutsDown ==
  /\ sender = "shuttingDown"
  /\ ShutDown
  /\ GoOn("closing")
  /\ UNCHANGED <<playerId, told, passed, missed, players, socketVars>>

\* Mutant of the next: the socket is left to the end of the process.
EndWithoutClosing ==
  /\ sender = "closing"
  /\ GoOn("ended")
  /\ UNCHANGED <<receiver, shutdown, playerId, told, passed, missed, players, socketVars>>

Close ==
  /\ sender = "closing"
  /\ CloseServerSide
  /\ GoOn("ended")
  /\ UNCHANGED <<receiver, shutdown, playerId, told, passed, missed, players>>

SenderRuns ==
  \/ RegisterPlayer \/ Refuse \/ CloseRefused \/ Greet \/ SendFirstMap
  \/ LoopCheck \/ Wake \/ TellState \/ Show
  \/ Leave \/ UnregisterPlayer \/ SenderShutsDown \/ Close

-----------------------------------------------------------------------------
(* The receive thread.                                                     *)

NotTheSender == UNCHANGED <<handler, playerId, passed, gameVars>>
OnlyReceiver == UNCHANGED <<sender, told>> /\ NotTheSender

CheckReceiver ==
  /\ receiver = "checking"
  /\ receiver' = IF shutdown THEN "ended" ELSE "entering"
  /\ UNCHANGED <<shutdown, players, socketVars>> /\ OnlyReceiver

\* The call of read: there is nothing to read from a closed socket.
EnterRead ==
  /\ receiver = "entering"
  /\ receiver' = IF serverClosed THEN "ended" ELSE "reading"
  /\ UNCHANGED <<shutdown, players, socketVars>> /\ OnlyReceiver

\* An operation that the status does not allow does nothing.
Operate(m) ==
  \/ m.type = "direction" /\ SetPlayerDirection(playerId, m.direction)
  \/ m.type = "pause"     /\ Pause(playerId)
  \/ m.type = "unpause"   /\ Unpause(playerId)
  \/ m.type = "respawn"   /\ Respawn(playerId)
  \/ /\ \/ m.type = "pause"   /\ ~HasStatus(playerId, {"Playing"})
        \/ m.type = "unpause" /\ ~HasStatus(playerId, {"Paused"})
        \/ m.type = "respawn" /\ ~HasStatus(playerId, {"Dead"})
     /\ UNCHANGED players

ReceiveOperation ==
  /\ receiver = "reading" /\ ~shutdown
  /\ ServerReads
  /\ Head(toServer).type # "disconnect"
  /\ IsRegistered
  /\ Operate(Head(toServer))
  /\ receiver' = "checking"
  /\ UNCHANGED shutdown /\ OnlyReceiver

\* A player who leaves, and one who plays before the connection is ready.
ReceiveLast ==
  /\ receiver = "reading" /\ ~shutdown
  /\ ServerReads
  /\ Head(toServer).type = "disconnect" \/ ~IsRegistered
  /\ SignalSender
  /\ shutdown' = TRUE
  /\ receiver' = "ended"
  /\ UNCHANGED players /\ NotTheSender

ReceiveTooLate ==
  /\ receiver = "reading" /\ shutdown
  /\ ServerReads
  /\ receiver' = "ended"
  /\ UNCHANGED <<shutdown, players>> /\ OnlyReceiver

ReceiveFails ==
  /\ receiver = "reading"
  /\ ServerReadFails
  /\ receiver' = "ended"
  /\ UNCHANGED <<shutdown, players, socketVars>> /\ OnlyReceiver

ReceiverRuns ==
  \/ CheckReceiver \/ EnterRead \/ ReceiveOperation \/ ReceiveLast
  \/ ReceiveTooLate \/ ReceiveFails

-----------------------------------------------------------------------------
(* The rest of the server.                                                 *)

AfterTurn(s) ==
  CASE s \in {"Joining", "Respawning"} -> {"Playing", "Dead"}
    [] s = "Disconnecting"             -> {"NotConnected"}
    [] s = "Playing"                   -> {"Playing", "Dead"}
    [] OTHER                           -> {s}

OnlyGame == UNCHANGED <<threadVars, socketVars>>

\* server_tick: a snake that plays, joins or goes changes the map.
Tick ==
  /\ ~gameEnded
  /\ \E turn \in [PlayerIds -> Statuses] :
       /\ \A p \in PlayerIds : turn[p] \in AfterTurn(players[p].status)
       /\ players' = [p \in PlayerIds |-> [players[p] EXCEPT !.status = turn[p]]]
       /\ changed' = \E p \in PlayerIds :
            \/ players[p].status \in {"Playing", "Disconnecting"}
            \/ players[p].status \in {"Joining", "Respawning"} /\ turn[p] = "Playing"
  /\ gameMap' = IF changed' THEN (gameMap + 1) % MapVersions ELSE gameMap
  /\ missed' = IF missed = 2 THEN 2 ELSE missed + 1
  /\ UNCHANGED gameEnded /\ OnlyGame

\* server_end_game, because nobody plays any more or the process is told to
\* stop.
EndGame ==
  /\ ~gameEnded
  /\ gameEnded' = TRUE
  /\ missed' = IF missed = 2 THEN 2 ELSE missed + 1
  /\ UNCHANGED <<gameMap, changed, players>> /\ OnlyGame

\* client_connection_destroy up to its joins.
DestroyConnection ==
  /\ handler = "accepting" /\ gameEnded
  /\ SignalSender
  /\ ShutDown
  /\ handler' = "joining"
  /\ UNCHANGED <<playerId, passed, gameVars, players, socketVars>>

JoinThreads ==
  /\ handler = "joining"
  /\ sender = "ended" /\ receiver = "ended"
  /\ handler' = "done"
  /\ UNCHANGED <<sender, receiver, shutdown, playerId, told, passed, gameVars,
                 players, socketVars>>

GameRuns == Tick \/ EndGame
HandlerRuns == DestroyConnection \/ JoinThreads

ConnectionStep == SenderRuns \/ ReceiverRuns \/ GameRuns \/ HandlerRuns

\* How far the send thread has come in what it says.
Place ==
  CASE sender \in {"registering", "greeting"}                  -> "silent"
    [] sender = "mapping"                                      -> "connected"
    [] sender \in {"looping", "waiting", "telling", "showing"} -> "playing"
    [] sender = "leaving"                                      -> "leaving"
    [] sender = "ended"                                        -> "closed"
    [] OTHER                                                   -> "finished"

Protocol == INSTANCE ConnectionProtocol WITH place <- Place

Init == SocketInit /\ ConnectionInit

Next ==
  \/ ConnectionStep
  \/ Protocol!ClientSide /\ UNCHANGED connectionVars

vars == <<connectionVars, socketVars>>

Spec == Init /\ [][Next]_vars

\* The server's threads run; the mutexes they wait for are held for a few
\* instructions.
ServerFairness ==
  /\ WF_vars(SenderRuns)
  /\ WF_vars(ReceiverRuns)
  /\ WF_vars(GameRuns)
  /\ WF_vars(HandlerRuns)

\* The client reads what it is told, until it closes its end.
FairSpec ==
  /\ Spec
  /\ ServerFairness
  /\ WF_vars(~clientClosed /\ ClientReads /\ UNCHANGED connectionVars)

-----------------------------------------------------------------------------
TypeOK ==
  /\ PlayersTypeOK
  /\ sender \in SenderStages
  /\ receiver \in ReceiverStages
  /\ handler \in {"accepting", "joining", "done"}
  /\ shutdown \in BOOLEAN
  /\ playerId \in PlayerIds \cup {NotRegistered}
  /\ told \in PlayerStates \cup {NothingTold}
  /\ passed \in 0 .. 2
  /\ missed \in 0 .. 2
  /\ gameMap \in Contents
  /\ changed \in BOOLEAN
  /\ gameEnded \in BOOLEAN
  /\ Len(toClient) <= BufferSize /\ Len(toServer) <= BufferSize

\* What the send thread writes, in all its ways out of the loop, is what the
\* client's loop expects.
ImplementsProtocol == Protocol!ProtocolSpec

IsServing ==
  /\ sender \in {"looping", "waiting", "telling", "showing"}
  /\ ~shutdown /\ ~gameEnded

\* A player learns of its death, and that a pause has been accepted: the send
\* thread compares with what it has told, whichever ticks it has missed.
StatusIsTold ==
  IsServing /\ HasStatus(playerId, {"Paused", "Dead"})
    ~> \/ ~IsServing
       \/ ~HasStatus(playerId, {"Paused", "Dead"})
       \/ told.status = players[playerId].status

\* A connection that either thread has shut down ends with the player's slot
\* given up, whatever the send thread was waiting for.
ShutdownFreesTheSlot ==
  shutdown ~> /\ sender \in {"shuttingDown", "closing", "ended"}
              /\ IsRegistered => ~InUse(playerId)

\* The end of the game ends the connection's threads if the client closes its
\* end, although the signal to the receive thread may come before its read, and
\* although the end of the stream does not end the read.
GameEndEndsThreads == gameEnded ~> handler = "done" \/ ~clientClosed
=============================================================================
