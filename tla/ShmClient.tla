----------------------------- MODULE ShmClient -----------------------------
(***************************************************************************)
(* A client of a shared-memory room, client/shm_client.c with input.c: the *)
(* main thread, which waits for the server's ticks and tells the renderer, *)
(* the input thread, which changes the player's slot in the room itself,   *)
(* and the drawing thread (Renderer).                                      *)
(*                                                                         *)
(* Of the room there is one slot, one tile, and the changelog as the       *)
(* contents of the tile that a tick has written: the last is in the map.   *)
(* A server's turn changes the slot as PlayerLifecycle allows.             *)
(***************************************************************************)
EXTENDS PlayerManager, Renderer

CONSTANTS
  Contents,      \* of a tile
  MaxChangelog,  \* bound of the model: how often a tick writes the tile
  MaxTicks,      \* bound of the model: how many ticks the server makes
  Arrows         \* the arrow keys somebody presses

ASSUME ShmClientAssumption ==
  /\ Arrows \subseteq Directions
  /\ MaxTicks \in Nat /\ MaxChangelog \in Nat

VARIABLES
  server,         \* what the server's main thread is doing
  changelog,
  tick,           \* ticker_t.tick_
  gameEnded,      \* game_state_t.game_ended_
  owner,          \* whose the slot is: "nobody", "me" or "other"
  main,           \* what the main thread is doing
  last,           \* ticker_observer_t.last_tick_
  passed,         \* ticks_passed
  changes,        \* what is left of the copied changelog
  lastStatus,     \* atomic flags and values, shared with the input thread
  lastDirection,
  exit,
  input,          \* what the input thread is doing
  inputShutdown,  \* input_t.shutdown_
  resized,        \* the status that a resize has read
  overtaken       \* history: a changelog was gone before it was copied

roomVars == <<server, map, changelog, tick, gameEnded>>
slotVars == <<players, owner>>
mainVars == <<main, last, passed, changes, lastStatus, lastDirection, overtaken>>
inputVars == <<input, exit, resized>>
vars == <<roomVars, slotVars, mainVars, inputVars, inputShutdown, rendererVars>>

me == 0  \* the only slot, and the player_id of who has it

Life == INSTANCE PlayerLifecycle
  WITH status <- players, locked <- FALSE, due <- {}, over <- gameEnded

Init ==
  /\ server = "waiting" /\ map \in Contents
  /\ changelog = <<>> /\ tick = 0 /\ gameEnded = FALSE
  /\ PlayerManagerInit /\ owner = "nobody"
  /\ main = "registering" /\ last = 0 /\ passed = 0 /\ changes = <<>>
  /\ lastStatus = "NotConnected" /\ lastDirection = "up" /\ overtaken = FALSE
  /\ input = "none" /\ exit = FALSE /\ resized = "none" /\ inputShutdown = FALSE
  /\ RendererInit

-----------------------------------------------------------------------------
(* The server, and whoever takes the slot when it is free.                 *)

OnlyRoom == UNCHANGED <<mainVars, inputVars, inputShutdown, rendererVars>>

\* The part of server_tick under the mutexes of the map and the slots.
ServerUpdate ==
  /\ server = "waiting" /\ tick < MaxTicks
  /\ \E n \in 0 .. MaxChangelog :
       /\ changelog' \in [1 .. n -> Contents]
       /\ map' = IF n = 0 THEN map ELSE changelog'[n]
  /\ \E s \in Life!AfterTurn(players[me].status) : SetStatus(me, s)
  /\ server' = "updated"
  /\ UNCHANGED <<tick, gameEnded, owner>> /\ OnlyRoom

ServerTick ==
  /\ server = "updated"
  /\ tick' = tick + 1
  /\ server' = "waiting"
  /\ UNCHANGED <<map, changelog, gameEnded, slotVars>> /\ OnlyRoom

EndGame ==
  /\ server = "waiting"
  /\ gameEnded' = TRUE
  /\ server' = "ending"
  /\ UNCHANGED <<map, changelog, tick, slotVars>> /\ OnlyRoom

LastTick ==
  /\ server = "ending"
  /\ tick' = tick + 1
  /\ server' = "done"
  /\ UNCHANGED <<map, changelog, gameEnded, slotVars>> /\ OnlyRoom

Newcomer ==
  /\ owner = "nobody"
  /\ Register(me)
  /\ owner' = "other"
  /\ UNCHANGED roomVars /\ OnlyRoom

-----------------------------------------------------------------------------
(* The main thread: shm_client_run, with the room open.                    *)

OnlyMain == UNCHANGED <<roomVars, inputVars, inputShutdown>>

RegisterPlayer ==
  /\ main = "registering"
  /\ \/ Register(me) /\ owner' = "me" /\ main' = "observing"
     \/ ~HasStatus(me, {"NotConnected"}) /\ main' = "full" /\ UNCHANGED slotVars
  /\ UNCHANGED <<last, passed, changes, lastStatus, lastDirection, overtaken, rendererVars>>
  /\ OnlyMain

InitObserver ==
  /\ main = "observing"
  /\ last' = tick
  /\ main' = "peeking"
  /\ UNCHANGED <<passed, changes, lastStatus, lastDirection, overtaken, slotVars, rendererVars>>
  /\ OnlyMain

ReadInitState ==
  /\ main = "peeking"
  /\ lastStatus' = players[me].status
  /\ lastDirection' = players[me].direction
  /\ main' = "drawing"
  /\ UNCHANGED <<last, passed, changes, overtaken, slotVars, rendererVars>>
  /\ OnlyMain

\* The first redraw, and then input_init.
StartInput ==
  /\ main = "drawing"
  /\ Redraw(RedrawCommand(lastStatus))
  /\ input' = "checking"
  /\ main' = "checking"
  /\ UNCHANGED <<last, passed, changes, lastStatus, lastDirection, overtaken,
                 exit, resized, inputShutdown, roomVars, slotVars>>

Leaves == exit \/ gameEnded

\* The condition of the loop.
CheckLoop ==
  /\ main = "checking"
  /\ main' = IF Leaves THEN "stoppingInput" ELSE "waiting"
  /\ UNCHANGED <<last, passed, changes, lastStatus, lastDirection, overtaken, slotVars, rendererVars>>
  /\ OnlyMain

WakeUp ==
  /\ main = "waiting" /\ last # tick
  /\ passed' = tick - last
  /\ last' = tick
  /\ main' = "woken"
  /\ UNCHANGED <<changes, lastStatus, lastDirection, overtaken, slotVars, rendererVars>>
  /\ OnlyMain

CheckWoken ==
  /\ main = "woken"
  /\ main' = IF Leaves THEN "stoppingInput" ELSE "reading"
  /\ UNCHANGED <<last, passed, changes, lastStatus, lastDirection, overtaken, slotVars, rendererVars>>
  /\ OnlyMain

ReadState ==
  /\ main = "reading"
  /\ lastDirection' = players[me].direction
  /\ lastStatus' = players[me].status
  /\ main' = IF passed > 1 \/ lastStatus' # lastStatus THEN "redrawing" ELSE "copying"
  /\ passed' = 0  \* its scope ends
  /\ UNCHANGED <<last, changes, overtaken, slotVars, rendererVars>>
  /\ OnlyMain

RedrawAll ==
  /\ main = "redrawing"
  /\ Redraw(RedrawCommand(lastStatus))
  /\ overtaken' = FALSE
  /\ main' = "checking"
  /\ UNCHANGED <<last, passed, changes, lastStatus, lastDirection, slotVars>>
  /\ OnlyMain

\* syn_changelog_copy: the latest changelog, which need not be that of the tick.
CopyChangelog ==
  /\ main = "copying"
  /\ changes' = changelog
  /\ overtaken' = (overtaken \/ server = "updated" \/ tick # last)
  /\ main' = IF changelog = <<>> THEN "checking" ELSE "telling"
  /\ UNCHANGED <<last, passed, lastStatus, lastDirection, slotVars, rendererVars>>
  /\ OnlyMain

\* shm_client_update_renderer, for one change after the other.
TellRenderer ==
  /\ main = "telling"
  /\ Update(UpdateCommand(Head(changes)))
  /\ changes' = Tail(changes)
  /\ main' = IF Len(changes) = 1 THEN "checking" ELSE "telling"
  /\ UNCHANGED <<last, passed, lastStatus, lastDirection, overtaken, slotVars>>
  /\ OnlyMain

\* input_destroy: the signal interrupts the wait for a key, if it has begun.
StopInput ==
  /\ main = "stoppingInput"
  /\ inputShutdown' = TRUE
  /\ input' = IF input = "polling" THEN "ended" ELSE input
  /\ main' = "joiningInput"
  /\ UNCHANGED <<last, passed, changes, lastStatus, lastDirection, overtaken, exit, resized,
                 roomVars, slotVars, rendererVars>>

\* Mutant of the next: pthread_join is left out.
DetachInput ==
  /\ main = "joiningInput"
  /\ StopDrawer
  /\ main' = "joiningRenderer"
  /\ UNCHANGED <<last, passed, changes, lastStatus, lastDirection, overtaken, slotVars>>
  /\ OnlyMain

\* The join, and renderer_destroy up to its join.
JoinInput ==
  /\ main = "joiningInput" /\ input = "ended"
  /\ StopDrawer
  /\ main' = "joiningRenderer"
  /\ UNCHANGED <<last, passed, changes, lastStatus, lastDirection, overtaken, slotVars>>
  /\ OnlyMain

JoinRenderer ==
  /\ main = "joiningRenderer" /\ drawer = "ended"
  /\ main' = "unregistering"
  /\ UNCHANGED <<last, passed, changes, lastStatus, lastDirection, overtaken, slotVars, rendererVars>>
  /\ OnlyMain

\* Only a player who has pressed the exit key unregisters.  Then the memory is
\* closed.
UnregisterPlayer ==
  /\ main = "unregistering"
  /\ IF exit THEN Unregister(me) /\ owner' = "nobody" ELSE UNCHANGED slotVars
  /\ main' = "closed"
  /\ UNCHANGED <<last, passed, changes, lastStatus, lastDirection, overtaken, rendererVars>>
  /\ OnlyMain

-----------------------------------------------------------------------------
(* The input thread.                                                       *)

OnlyInput == UNCHANGED <<roomVars, mainVars, inputShutdown, owner>>

CheckInputShutdown ==
  /\ input = "checking"
  /\ input' = IF inputShutdown THEN "ended" ELSE "entering"
  /\ UNCHANGED <<exit, resized, players, rendererVars>> /\ OnlyInput

\* tb_poll_event blocks; a signal that came before does not interrupt it.
Poll ==
  /\ input = "entering"
  /\ input' = "polling"
  /\ UNCHANGED <<exit, resized, players, rendererVars>> /\ OnlyInput

\* An event: looked at only if the thread is not to end.
Event(next) ==
  /\ input = "polling"
  /\ input' = IF inputShutdown THEN "ended" ELSE next
  /\ OnlyInput

PressExit ==
  /\ Event("checking")
  /\ exit' = (exit \/ ~inputShutdown)
  /\ UNCHANGED <<resized, players, rendererVars>>

PressKey ==
  /\ Event("acting")
  /\ UNCHANGED <<exit, resized, players, rendererVars>>

\* The callback of any other key: it looks at the last status or direction, by
\* which a turn back is refused, and what it calls looks at the slot again.
Act ==
  /\ input = "acting"
  /\ \/ lastStatus = "Playing" /\ Pause(me)
     \/ lastStatus = "Paused" /\ Unpause(me)
     \/ lastStatus = "Dead" /\ Respawn(me)
     \/ \E arrow \in Arrows \ {DirectionOpposite(lastDirection)} : SetPlayerDirection(me, arrow)
     \/ UNCHANGED players
  /\ input' = "checking"
  /\ UNCHANGED <<exit, resized, rendererVars>> /\ OnlyInput

Resize ==
  /\ Event("resizing")
  /\ resized' = IF inputShutdown THEN resized ELSE lastStatus
  /\ UNCHANGED <<exit, players, rendererVars>>

RedrawResized ==
  /\ input = "resizing"
  /\ Redraw(RedrawCommand(resized))
  /\ resized' = "none"
  /\ input' = "checking"
  /\ UNCHANGED <<exit, players>> /\ OnlyInput

-----------------------------------------------------------------------------
ServerRuns == ServerUpdate \/ ServerTick \/ EndGame \/ LastTick \/ Newcomer

MainRuns ==
  \/ RegisterPlayer \/ InitObserver \/ ReadInitState \/ StartInput
  \/ CheckLoop \/ WakeUp \/ CheckWoken \/ ReadState \/ RedrawAll
  \/ CopyChangelog \/ TellRenderer
  \/ StopInput \/ JoinInput \/ JoinRenderer \/ UnregisterPlayer

InputRuns ==
  \/ CheckInputShutdown \/ Poll \/ PressExit \/ PressKey \/ Act \/ Resize \/ RedrawResized

Next ==
  \/ ServerRuns
  \/ MainRuns
  \/ InputRuns
  \/ DrawerRuns /\ UNCHANGED <<roomVars, slotVars, mainVars, inputVars, inputShutdown>>

Spec == Init /\ [][Next]_vars

-----------------------------------------------------------------------------
(* The properties.                                                         *)

\* As long as the input thread lives, what its callbacks point to does: the slot
\* is the player's own, so that no key is played for who comes next, the renderer
\* has not been stopped, and the memory and the stack frame are there.
ContextOutlivesInput ==
  input \notin {"none", "ended"} =>
    /\ owner = "me"
    /\ ~rendererShutdown
    /\ main \notin {"full", "unregistering", "closed"}

\* A client that has handled the latest tick, and has nothing left to draw, shows
\* the room: whatever the input thread redraws between the copy of the changelog
\* and the updates that come of it.  A changelog that was gone before the copy is
\* the exception, until everything is drawn again.
ScreenFollowsRoom ==
  /\ main \in {"checking", "waiting"} /\ queue = <<>>
  /\ last = tick /\ server # "updated" /\ ~overtaken
  => screen.tile = map
=============================================================================
