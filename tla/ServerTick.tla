----------------------------- MODULE ServerTick -----------------------------
(***************************************************************************)
(* The game itself: server_tick of server/server.c, the loop of            *)
(* server/main.c that calls it, and the clients' operations on the player  *)
(* slots that interleave with it.                                          *)
(*                                                                         *)
(* A tick holds the mutexes of the map and of the changelog from start to  *)
(* end, and those of all the slots (for_each) while it gives every slot    *)
(* its turn, so that the clients' operations fall between two ticks, or    *)
(* into the part of a tick that follows the turns.                         *)
(***************************************************************************)
EXTENDS SnakeMap, PlayerManager, Sequences

CONSTANTS
  Walls,         \* the wall tiles of the map template
  MaxTicks,      \* bound of the model: how many ticks the server makes
  MaxOperations  \* bound of the model: how many operations the clients make

ASSUME ServerTickAssumption ==
  /\ Walls \subseteq Coordinates
  /\ MaxTicks \in Nat
  /\ MaxOperations \in Nat

VARIABLES
  data,        \* process_player_data_t, with what its pointers point to
  stage,       \* what the server's main thread is doing
  index,       \* the counter of its loop over the slots, then over the fruits
  ticks,       \* ticks begun
  operations,  \* operations the clients have made
  tickedOnce,  \* game_ticked_at_least_once of main
  before       \* history: the map when the latest tick began

vars == <<players, data, stage, index, ticks, operations, tickedOnce, before>>

\* An entry of the cache that no spawn has written yet.
Unset == <<-1, -1>>

Changes == [coordinates : Coordinates, tile : Tiles]
Data ==
  [map : Maps, changelog : Seq(Changes),
   head : [PlayerIds -> Coordinates \cup {Unset}],
   tail : [PlayerIds -> Coordinates \cup {Unset}],
   fruitsEaten : Nat, playerDied : BOOLEAN, noPlayerAlive : BOOLEAN,
   failed : BOOLEAN]  \* the process has called exit(EXIT_FAILURE)

Stages == {"idle", "players", "sweep", "fruits", "ended"}

Init ==
  /\ PlayerManagerInit
  /\ data = [map |-> MapFromTemplate(Walls), changelog |-> <<>>,
             head |-> [p \in PlayerIds |-> Unset],
             tail |-> [p \in PlayerIds |-> Unset],
             fruitsEaten |-> 0, playerDied |-> FALSE, noPlayerAlive |-> TRUE,
             failed |-> FALSE]
  /\ stage = "idle"
  /\ index = 0
  /\ ticks = 0
  /\ operations = 0
  /\ tickedOnce = FALSE
  /\ before = data.map

-----------------------------------------------------------------------------
(* What the handlers of server.c do to the data of the tick.               *)

PushTile(d, c) ==
  [d EXCEPT !.changelog = Append(@, [coordinates |-> c, tile |-> d.map[c]])]

\* Mutant of the next: the head's tile gets the order of the one before it.
MovePlayerHeadInSameOrder(d, p, next) ==
  PushTile([d EXCEPT !.map = SetTilePlayer(@, next, p, d.map[d.head[p]].order),
                     !.head[p] = next], next)

MovePlayerHead(d, p, next) ==
  LET order == d.map[d.head[p]].order + 1
  IN  PushTile([d EXCEPT !.map = SetTilePlayer(@, next, p, order),
                         !.head[p] = next], next)

\* The tail's tile is cleared unless another snake has taken it or the
\* snake's own head has just moved onto it.
ClearTail(d, p) ==
  LET tail == d.tail[p]
  IN  IF IsTileOf(d.map, p, tail) /\ d.head[p] # tail
      THEN PushTile([d EXCEPT !.map = SetTileEmpty(@, tail)], tail)
      ELSE d

NextTail(d, p) == PlayerNeighborWithLowestOrder(d.map, p, d.tail[p])

MovePlayerTail(d, p) ==
  LET cleared == ClearTail(d, p)
      next    == NextTail(cleared, p)
  IN  IF HasPlayerNeighbor(cleared.map, p, cleared.tail[p])
      THEN PushTile([cleared EXCEPT !.tail[p] = next], next)
      ELSE [cleared EXCEPT !.failed = TRUE]

KillPlayer(d, p) ==
  [d EXCEPT !.map = MarkPlayerAsDead(@, p, d.head[p]), !.playerDied = TRUE]

\* The outcomes of spawn_fruit: nothing happens when no tile is empty.
FruitOutcomes(d) ==
  IF EmptyTiles(d.map) = {}
  THEN {d}
  ELSE {PushTile([d EXCEPT !.map = SetTileFruit(@, c)], c) : c \in EmptyTiles(d.map)}

\* Mutant of the next: the cached tail is not set.
SpawnPlayerWithoutTail(d, p, head) ==
  LET tail     == MoveInDirection(head, EmptyNeighborDirection(d.map, head))
      withHead == PushTile([d EXCEPT !.map = SetTilePlayer(@, head, p, 1),
                                     !.head[p] = head], head)
  IN  PushTile([withHead EXCEPT !.map = SetTilePlayer(@, tail, p, 0)], tail)

\* spawn_player once it has found a tile for the head.
SpawnPlayer(d, p, head) ==
  LET tail     == MoveInDirection(head, EmptyNeighborDirection(d.map, head))
      withHead == PushTile([d EXCEPT !.map = SetTilePlayer(@, head, p, 1),
                                     !.head[p] = head], head)
  IN  PushTile([withHead EXCEPT !.map = SetTilePlayer(@, tail, p, 0),
                                !.tail[p] = tail], tail)

\* A tick that has seen a live player does not end the game.
SeenAlive(d) == [d EXCEPT !.noPlayerAlive = FALSE]

NextHead(p) == MoveInDirection(data.head[p], players[p].direction)
TileAhead(p) == data.map[NextHead(p)]

\* Mutant of the next: does not look at what is ahead of the other snake.
IsTailVacatedByAnyMove(p) ==
  LET q == TileAhead(p).player
  IN  /\ TileAhead(p).type = "player"
      /\ NextHead(p) = data.tail[q]
      /\ q = p \/ (q > p /\ players[q].status # "Paused")

\* Mutant of the next: does not ask whether the other snake is paused.
IsTailVacatedByPaused(p) ==
  LET q == TileAhead(p).player
  IN  /\ TileAhead(p).type = "player"
      /\ NextHead(p) = data.tail[q]
      /\ q = p \/ (q > p /\ IsTileEmpty(data.map, NextHead(q)))

\* The player tile ahead of p is a tail that moves away: p's own, or that of
\* a snake whose turn is still to come and which is about to crawl on.
IsTailVacated(p) ==
  LET q == TileAhead(p).player
  IN  /\ TileAhead(p).type = "player"
      /\ NextHead(p) = data.tail[q]
      /\ \/ q = p
         \/ /\ q > p
            /\ players[q].status # "Paused"
            /\ IsTileEmpty(data.map, NextHead(q))

-----------------------------------------------------------------------------
(* server_tick_process_player, called for each slot in turn by             *)
(* player_manager_for_each, which skips the slots that are not connected.  *)

HasTurn(p) ==
  /\ stage = "players"
  /\ index = p
  /\ ~data.failed

TurnDone == /\ index' = index + 1
            /\ UNCHANGED <<stage, ticks, operations, tickedOnce, before>>

\* A player enters the map, and with a joining player a fruit.
Spawn(p) ==
  /\ HasTurn(p)
  /\ HasStatus(p, {"Joining", "Respawning"})
  /\ \E head \in SpawnSites(data.map) :
       LET spawned == SpawnPlayer(data, p, head)
           behind  == EmptyNeighborDirection(data.map, head)
       IN  /\ players' = [players EXCEPT
                            ![p] = [status |-> "Playing",
                                    direction |-> DirectionOpposite(behind)]]
           /\ \E d \in IF HasStatus(p, {"Joining"}) THEN FruitOutcomes(spawned)
                                                    ELSE {spawned} :
                data' = SeenAlive(d)
  /\ TurnDone

\* No room for a snake of two tiles: the player waits as a dead one.
FailToSpawn(p) ==
  /\ HasTurn(p)
  /\ HasStatus(p, {"Joining", "Respawning"})
  /\ SpawnSites(data.map) = {}
  /\ SetStatus(p, "Dead")
  /\ UNCHANGED data
  /\ TurnDone

\* Mutant of the next: the sweep is not told of the death.
RemoveDisconnectedQuietly(p) ==
  /\ HasTurn(p)
  /\ HasStatus(p, {"Disconnecting"})
  /\ data' = [KillPlayer(data, p) EXCEPT !.playerDied = data.playerDied]
  /\ SetStatus(p, "NotConnected")
  /\ TurnDone

\* The slot is free again at once, while its tiles wait for the sweep.
RemoveDisconnected(p) ==
  /\ HasTurn(p)
  /\ HasStatus(p, {"Disconnecting"})
  /\ data' = KillPlayer(data, p)
  /\ SetStatus(p, "NotConnected")
  /\ TurnDone

\* Mutant of the next: a paused player does not count as alive.
RestUnseen(p) ==
  /\ HasTurn(p)
  /\ HasStatus(p, {"NotConnected", "Paused", "Dead"})
  /\ UNCHANGED <<players, data>>
  /\ TurnDone

Rest(p) ==
  /\ HasTurn(p)
  /\ HasStatus(p, {"NotConnected", "Paused", "Dead"})
  /\ data' = IF HasStatus(p, {"Paused"}) THEN SeenAlive(data) ELSE data
  /\ UNCHANGED players
  /\ TurnDone

HasMove(p) == HasTurn(p) /\ HasStatus(p, {"Playing"})

Crawl(p) ==
  /\ HasMove(p)
  /\ TileAhead(p).type = "empty" \/ IsTailVacated(p)
  /\ data' = LET moved == MovePlayerTail(MovePlayerHead(data, p, NextHead(p)), p)
             IN  IF moved.failed THEN moved ELSE SeenAlive(moved)
  /\ UNCHANGED players
  /\ TurnDone

\* Mutant of the next: the eaten fruit is not counted.
EatUncounted(p) ==
  /\ HasMove(p)
  /\ TileAhead(p).type = "fruit"
  /\ data' = SeenAlive(MovePlayerHead(data, p, NextHead(p)))
  /\ UNCHANGED players
  /\ TurnDone

\* Mutant of the next: the tail moves too, as if the tile had been empty.
EatWithoutGrowing(p) ==
  /\ HasMove(p)
  /\ TileAhead(p).type = "fruit"
  /\ LET moved == MovePlayerTail(MovePlayerHead(data, p, NextHead(p)), p)
     IN  data' = [SeenAlive(moved) EXCEPT !.fruitsEaten = @ + 1]
  /\ UNCHANGED players
  /\ TurnDone

Eat(p) ==
  /\ HasMove(p)
  /\ TileAhead(p).type = "fruit"
  /\ data' = [SeenAlive(MovePlayerHead(data, p, NextHead(p)))
                EXCEPT !.fruitsEaten = @ + 1]
  /\ UNCHANGED players
  /\ TurnDone

Crash(p) ==
  /\ HasMove(p)
  /\ TileAhead(p).type \notin {"empty", "fruit"}
  /\ ~IsTailVacated(p)
  /\ data' = KillPlayer(data, p)
  /\ SetStatus(p, "Dead")
  /\ TurnDone

Turn(p) ==
  \/ Spawn(p)
  \/ FailToSpawn(p)
  \/ RemoveDisconnected(p)
  \/ Rest(p)
  \/ Crawl(p)
  \/ Eat(p)
  \/ Crash(p)

-----------------------------------------------------------------------------
(* The rest of server_tick, and the loop of main around it.                *)

\* Mutant of the next: the changelog of the tick before is still there.
BeginTickWithoutClear ==
  /\ stage = "idle"
  /\ ticks < MaxTicks
  /\ data' = [data EXCEPT !.fruitsEaten = 0, !.playerDied = FALSE, !.noPlayerAlive = TRUE]
  /\ stage' = "players"
  /\ index' = 0
  /\ ticks' = ticks + 1
  /\ before' = data.map
  /\ UNCHANGED <<players, operations, tickedOnce>>

BeginTick ==
  /\ stage = "idle"
  /\ ticks < MaxTicks
  /\ data' = [data EXCEPT !.changelog = <<>>, !.fruitsEaten = 0,
                          !.playerDied = FALSE, !.noPlayerAlive = TRUE]
  /\ stage' = "players"
  /\ index' = 0
  /\ ticks' = ticks + 1
  /\ before' = data.map
  /\ UNCHANGED <<players, operations, tickedOnce>>

\* The end of player_manager_for_each: the slots' mutexes are released.
ReleasePlayers ==
  /\ stage = "players"
  /\ index = MaxPlayers
  /\ ~data.failed
  /\ stage' = "sweep"
  /\ index' = 0
  /\ UNCHANGED <<players, data, ticks, operations, tickedOnce, before>>

DeadTiles(map) == {c \in Coordinates : map[c].type = "dead"}
RowMajorBefore(c, e) == c[1] < e[1] \/ (c[1] = e[1] /\ c[2] < e[2])

\* Mutant of the next: clears the tile without a change in the changelog.
SweepTileQuietly ==
  /\ stage = "sweep"
  /\ data.playerDied
  /\ \E c \in DeadTiles(data.map) :
       /\ \A e \in DeadTiles(data.map) : ~RowMajorBefore(e, c)
       /\ data' = [data EXCEPT !.map = SetTileEmpty(@, c)]
  /\ UNCHANGED <<players, stage, index, ticks, operations, tickedOnce, before>>

\* Clears the next dead tile the two loops over the map come to.
SweepTile ==
  /\ stage = "sweep"
  /\ data.playerDied
  /\ \E c \in DeadTiles(data.map) :
       /\ \A e \in DeadTiles(data.map) : ~RowMajorBefore(e, c)
       /\ data' = PushTile([data EXCEPT !.map = SetTileEmpty(@, c)], c)
  /\ UNCHANGED <<players, stage, index, ticks, operations, tickedOnce, before>>

EndSweep ==
  /\ stage = "sweep"
  /\ data.playerDied => DeadTiles(data.map) = {}
  /\ stage' = "fruits"
  /\ UNCHANGED <<players, data, index, ticks, operations, tickedOnce, before>>

\* A new fruit for each one eaten.
SpawnFruit ==
  /\ stage = "fruits"
  /\ index < data.fruitsEaten
  /\ data' \in FruitOutcomes(data)
  /\ index' = index + 1
  /\ UNCHANGED <<players, stage, ticks, operations, tickedOnce, before>>

\* The tick returns whether the game goes on; main goes on anyway until a
\* tick has seen a live player for the first time.
EndTick ==
  /\ stage = "fruits"
  /\ index = data.fruitsEaten
  /\ stage' = IF data.noPlayerAlive /\ tickedOnce THEN "ended" ELSE "idle"
  /\ index' = 0
  /\ tickedOnce' = (tickedOnce \/ ~data.noPlayerAlive)
  /\ UNCHANGED <<players, data, ticks, operations, before>>

\* SIGINT or SIGTERM: noticed while main waits for the next tick.
Interrupt ==
  /\ stage = "idle"
  /\ stage' = "ended"
  /\ UNCHANGED <<players, data, index, ticks, operations, tickedOnce, before>>

\* The mutexes of the slots are free, except while the tick processes them.
ClientStep(p) ==
  /\ stage # "players"
  /\ operations < MaxOperations
  /\ ClientOperation(p)
  /\ operations' = operations + 1
  /\ UNCHANGED <<data, stage, index, ticks, tickedOnce, before>>

ServerStep ==
  \/ BeginTick
  \/ \E p \in PlayerIds : Turn(p)
  \/ ReleasePlayers
  \/ SweepTile
  \/ EndSweep
  \/ SpawnFruit
  \/ EndTick
  \/ Interrupt

\* After the loop main only waits for the connections and frees the state.
Terminated == stage = "ended" /\ UNCHANGED vars

Next ==
  \/ ServerStep
  \/ \E p \in PlayerIds : ClientStep(p)
  \/ Terminated

Spec == Init /\ [][Next]_vars

-----------------------------------------------------------------------------
(* Properties.                                                             *)

\* The slots that own tiles of the map: a snake is there until a turn kills
\* it, also while its player is paused or has just left.
HasSnake(p) == HasStatus(p, {"Playing", "Paused", "Disconnecting"})

\* The variables stay in their types, and the cache of a player with a snake
\* has been written: nothing reads the uninitialised player_data_cache_t.
TypeOK ==
  /\ PlayersTypeOK
  /\ data \in Data
  /\ stage \in Stages
  /\ index \in 0 .. MaxPlayers
  /\ ticks \in 0 .. MaxTicks
  /\ operations \in 0 .. MaxOperations
  /\ tickedOnce \in BOOLEAN
  /\ before \in Maps
  /\ \A p \in PlayerIds : HasSnake(p) => data.head[p] # Unset /\ data.tail[p] # Unset

\* move_player_tail never comes to its exit: "failed to find next snake tail
\* tile, this should not happen" (server.c:107-110).
NeverFails == ~data.failed

\* A snake is a trail: the orders of its tiles are consecutive, each tile is
\* next to the one before it, and the cached head is the last.
IsTrail(p) ==
  LET body     == TilesOf(data.map, p)
      order(c) == data.map[c].order
  IN  /\ data.head[p] \in body
      /\ \A c \in body : order(c) <= order(data.head[p])
      /\ \A c, e \in body : order(c) = order(e) => c = e
      /\ \A c \in body : c # data.head[p] =>
           \E e \in body : order(e) = order(c) + 1 /\ e \in Neighbors(c)

\* Every tile of a player belongs to a snake that is still there: a slot that
\* is free, waiting or dead has left nothing behind for whoever comes next.
SnakesAreTrails ==
  /\ \A p \in PlayerIds : HasSnake(p) => IsTrail(p)
  /\ \A c \in Coordinates :
       data.map[c].type = "player" => HasSnake(data.map[c].player)

\* The cached tail is the snake's last tile, or the tile next to it that
\* another snake has taken this tick before the turn of its owner.
TailCacheFollows ==
  \A p \in PlayerIds : HasSnake(p) =>
    LET body == TilesOf(data.map, p)
    IN  \E last \in body :
          /\ \A c \in body : data.map[last].order <= data.map[c].order
          /\ \/ data.tail[p] = last
             \/ /\ data.tail[p] \notin body
                /\ data.tail[p] \in Neighbors(last)
                /\ stage = "players" /\ index <= p

\* A client that has the map old and applies the changelog in order has the
\* tile of the map new at c afterwards: the last change of a tile counts.
ChangelogGives(changelog, old, new, c) ==
  LET changes(i) == changelog[i].coordinates = c
  IN  \/ /\ \A i \in DOMAIN changelog : ~changes(i)
         /\ old[c] = new[c]
      \/ \E i \in DOMAIN changelog :
           /\ changes(i)
           /\ changelog[i].tile = new[c]
           /\ \A j \in DOMAIN changelog : j > i => ~changes(j)

\* Between two ticks the changelog leads from the map of the tick before to
\* the map: a client that applies each changelog sees the server's map.
ChangelogLeadsToMap ==
  stage \in {"idle", "ended"} =>
    \A c \in Coordinates : ChangelogGives(data.changelog, before, data.map, c)

\* The changelog fits its array: MAX_CHANGELOG_SIZE of constants.h, which
\* changelog_push_tile_state_change does not check, with the bounds of the
\* model's map for MAX_MAP_WIDTH and MAX_MAP_HEIGHT.
ChangelogFits == Len(data.changelog) <= Height * Width + MaxPlayers

\* Dead tiles last no longer than the tick they die in (server.c:268-282).
NoDeadTilesBetweenTicks == stage \in {"idle", "ended"} => DeadTiles(data.map) = {}

\* A tick never loses a fruit, unless it has filled the map.
FruitsLast ==
  LET Fruits(map) == {c \in Coordinates : map[c].type = "fruit"}
  IN  stage \in {"idle", "ended"} =>
        \/ EmptyTiles(data.map) = {}
        \/ \E f \in [Fruits(before) -> Fruits(data.map)] :
             \A c, e \in Fruits(before) : f[c] = f[e] => c = e

\* Walls are where the template has them, always.
WallsStand == \A c \in Coordinates : data.map[c].type = "wall" <=> c \in Walls

\* The game is not over for a player that could still play: when the loop of
\* main ends by itself nobody is playing or paused.
OnlyADeadGameEnds ==
  [][stage = "fruits" /\ stage' = "ended" =>
       \A p \in PlayerIds : ~HasStatus(p, {"Playing", "Paused"})]_vars

\* Nothing happens to a paused snake: others may not even follow its tail
\* (server.c:225).
PausedSnakesStay ==
  [][\A p \in PlayerIds :
       HasStatus(p, {"Paused"}) => TilesOf(data.map, p)' = TilesOf(data.map, p)]_vars
=============================================================================
