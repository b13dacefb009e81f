---------------------------- MODULE TickBroadcast ----------------------------
(***************************************************************************)
(* How a client keeps up with the ticks: libsnake/ticker.c, and the loops  *)
(* around it in server/main.c (the server), in client_connection.c (the    *)
(* send thread of a connection, whose messages a remote client applies in  *)
(* order) and in shm_client.c (a local client).                            *)
(*                                                                         *)
(* The server updates the map and the changelog in one critical section    *)
(* (ServerTick), and counts the tick in another one.  A client waits for   *)
(* the count to change, and then, in a third one, copies the changelog, or *)
(* the whole map if it has seen more than one tick go by.                  *)
(*                                                                         *)
(* The content of a tile is abstracted to the tick that wrote it last.     *)
(* Clients do not interact here, so there is one.                          *)
(***************************************************************************)
EXTENDS Integers

CONSTANTS
  Tiles,
  IsLocal,  \* a client of a shared-memory room: a new status redraws it all
  MaxTicks  \* bound of the model: how many ticks the server makes

ASSUME TickBroadcastAssumption ==
  /\ IsLocal \in BOOLEAN
  /\ MaxTicks \in Nat

VARIABLES
  server,     \* what the server's main thread is doing
  map,        \* of each tile: the tick that wrote it last
  changed,    \* the tiles in the changelog, which holds their current content
  tick,       \* ticker_t.tick_
  gameEnded,  \* game_state_t.game_ended_
  client,     \* what the client's thread is doing
  view,       \* the map that the client shows
  last,       \* ticker_observer_t.last_tick_
  passed,     \* ticks_passed
  overtaken   \* history: a changelog was gone before the client copied it

serverVars == <<server, map, changed, tick, gameEnded>>
clientVars == <<client, view, last, passed, overtaken>>
vars == <<serverVars, clientVars>>

ServerStages == {"waiting", "updated", "ending", "done"}
ClientStages == {"entering", "drawing", "checking", "waiting", "woken", "copying", "left"}

Init ==
  /\ server = "waiting"
  /\ map = [t \in Tiles |-> 0]
  /\ changed = {}
  /\ tick = 0
  /\ gameEnded = FALSE
  /\ client = "entering"
  /\ view = map
  /\ last = 0
  /\ passed = 0
  /\ overtaken = FALSE

-----------------------------------------------------------------------------
\* The part of server_tick under the mutexes of the map and the changelog.
Update ==
  /\ server = "waiting"
  /\ tick < MaxTicks
  /\ changed' \in SUBSET Tiles
  /\ map' = [t \in Tiles |-> IF t \in changed' THEN tick + 1 ELSE map[t]]
  /\ server' = "updated"
  /\ UNCHANGED <<tick, gameEnded, clientVars>>

\* ticker_tick at the end of server_tick.
Tick ==
  /\ server = "updated"
  /\ tick' = tick + 1
  /\ server' = "waiting"
  /\ UNCHANGED <<map, changed, gameEnded, clientVars>>

\* Mutant of the next: the game ends without the last tick.
EndGameAtOnce ==
  /\ server = "waiting"
  /\ gameEnded' = TRUE
  /\ server' = "done"
  /\ UNCHANGED <<map, changed, tick, clientVars>>

\* server_end_game sets the flag without a mutex, and then ticks.
EndGame ==
  /\ server = "waiting"
  /\ gameEnded' = TRUE
  /\ server' = "ending"
  /\ UNCHANGED <<map, changed, tick, clientVars>>

LastTick ==
  /\ server = "ending"
  /\ tick' = tick + 1
  /\ server' = "done"
  /\ UNCHANGED <<map, changed, gameEnded, clientVars>>

-----------------------------------------------------------------------------
\* ticker_observer_init comes before the client's first copy of the map.
InitObserver ==
  /\ client = "entering"
  /\ last' = tick
  /\ client' = "drawing"
  /\ UNCHANGED <<serverVars, view, passed, overtaken>>

DrawFirst ==
  /\ client = "drawing"
  /\ view' = map
  /\ client' = "checking"
  /\ UNCHANGED <<serverVars, last, passed, overtaken>>

\* Mutant of the next: an endless loop, left only after a tick.
CheckNothing ==
  /\ client = "checking"
  /\ client' = "waiting"
  /\ UNCHANGED <<serverVars, view, last, passed, overtaken>>

\* The condition of the loop.
Check ==
  /\ client = "checking"
  /\ client' = IF gameEnded THEN "left" ELSE "waiting"
  /\ UNCHANGED <<serverVars, view, last, passed, overtaken>>

\* The return of ticker_observer_wait_for_next_tick.
Wake ==
  /\ client = "waiting"
  /\ last # tick
  /\ passed' = tick - last
  /\ last' = tick
  /\ client' = "woken"
  /\ UNCHANGED <<serverVars, view, overtaken>>

\* The second look at the flag.
CheckWoken ==
  /\ client = "woken"
  /\ client' = IF gameEnded THEN "left" ELSE "copying"
  /\ UNCHANGED <<serverVars, view, last, passed, overtaken>>

Redraw ==
  /\ client = "copying"
  /\ passed > 1 \/ IsLocal
  /\ view' = map
  /\ overtaken' = FALSE
  /\ client' = "checking"
  /\ UNCHANGED <<serverVars, last, passed>>

\* Mutant of the next: takes a changelog for enough whatever was missed.
ApplyAnyChangelog ==
  /\ client = "copying"
  /\ view' = [t \in Tiles |-> IF t \in changed THEN map[t] ELSE view[t]]
  /\ overtaken' = (overtaken \/ server = "updated" \/ tick # last)
  /\ client' = "checking"
  /\ UNCHANGED <<serverVars, last, passed>>

\* The copy is of the latest changelog, which need not be that of the tick
\* the client has waited for.
ApplyChangelog ==
  /\ client = "copying"
  /\ passed <= 1
  /\ view' = [t \in Tiles |-> IF t \in changed THEN map[t] ELSE view[t]]
  /\ overtaken' = (overtaken \/ server = "updated" \/ tick # last)
  /\ client' = "checking"
  /\ UNCHANGED <<serverVars, last, passed>>

-----------------------------------------------------------------------------
ServerStep == Update \/ Tick \/ EndGame \/ LastTick

ClientStep ==
  \/ InitObserver \/ DrawFirst \/ Check \/ Wake
  \/ CheckWoken \/ Redraw \/ ApplyChangelog

\* The server has returned from its loop.
Terminated == server = "done" /\ UNCHANGED vars

Next == ServerStep \/ ClientStep \/ Terminated

Spec == Init /\ [][Next]_vars

\* Both threads keep running; that the game ends is the players' affair, but
\* EndGame is here the only step of a server that has made all its ticks.
FairSpec == Spec /\ WF_vars(ServerStep) /\ WF_vars(ClientStep)

-----------------------------------------------------------------------------
TypeOK ==
  /\ server \in ServerStages
  /\ map \in [Tiles -> Nat]
  /\ changed \in SUBSET Tiles
  /\ tick \in Nat
  /\ gameEnded \in BOOLEAN
  /\ client \in ClientStages
  /\ view \in [Tiles -> Nat]
  /\ last \in Nat
  /\ passed \in Nat
  /\ overtaken \in BOOLEAN

\* A client that has handled the latest tick shows the server's map, although
\* it may have entered in the middle of a tick and copies the map and the
\* changelog in separate critical sections; unless a tick took its changelog
\* away between the count of the one before and the client's copy.
ViewFollowsMap ==
  /\ client \in {"checking", "waiting"}
  /\ last = tick
  /\ server # "updated"
  /\ ~overtaken
  => view = map

\* The flag is seen by every client: the tick after it wakes those that were
\* about to wait when it was set.
EveryoneLeaves == gameEnded ~> client = "left"

\* A client that waits is woken by the next tick, whatever it was doing when
\* the count changed: no broadcast is lost.
WaitingEnds == client = "waiting" ~> client # "waiting"
=============================================================================
