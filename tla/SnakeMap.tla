------------------------------ MODULE SnakeMap ------------------------------
(***************************************************************************)
(* The playing field of libsnake/map/map.c: a torus of tiles and the       *)
(* operations the server applies to it while it holds the map's mutex.     *)
(* A map is a value here; ServerTick keeps the current one in its state.   *)
(* A coordinate is the pair <<row, column>>.                               *)
(***************************************************************************)
EXTENDS GameConstants

CONSTANTS Height, Width  \* map_t.height_ and width_

ASSUME MapAssumption ==
  /\ Height \in Nat \ {0}
  /\ Width \in Nat \ {0}

Coordinates == (0 .. Height - 1) \X (0 .. Width - 1)
TileTypes   == {"empty", "player", "fruit", "wall", "dead"}
Tiles       == [order : Nat, type : TileTypes, player : PlayerIds]
Maps        == [Coordinates -> Tiles]

-----------------------------------------------------------------------------
(* Movement.  Every edge of the field wraps around to the opposite one.    *)

MoveInDirection(c, d) ==
  CASE d = "up"   -> <<IF c[1] = 0 THEN Height - 1 ELSE c[1] - 1, c[2]>>
    [] d = "down" -> <<IF c[1] = Height - 1 THEN 0 ELSE c[1] + 1, c[2]>>
    [] d = "left" -> <<c[1], IF c[2] = 0 THEN Width - 1 ELSE c[2] - 1>>
    [] OTHER      -> <<c[1], IF c[2] = Width - 1 THEN 0 ELSE c[2] + 1>>

Neighbors(c) == {MoveInDirection(c, d) : d \in Directions}

-----------------------------------------------------------------------------
(* Tiles.  Only map_set_tile_player writes a tile's owner and order; the   *)
(* other setters change the type and leave stale values behind.            *)

MapFromTemplate(walls) ==
  [c \in Coordinates |->
     [order |-> 0, type |-> IF c \in walls THEN "wall" ELSE "empty", player |-> 0]]

IsTileEmpty(map, c) == map[c].type = "empty"
IsTileOf(map, p, c) == map[c].type = "player" /\ map[c].player = p
TilesOf(map, p)     == {c \in Coordinates : IsTileOf(map, p, c)}

SetTileEmpty(map, c) == [map EXCEPT ![c].type = "empty"]
SetTileFruit(map, c) == [map EXCEPT ![c].type = "fruit"]
SetTilePlayer(map, c, p, order) ==
  [map EXCEPT ![c] = [order |-> order, type |-> "player", player |-> p]]

-----------------------------------------------------------------------------
(* Searches.                                                               *)

\* The order in which the neighbour searches of map.c look around a tile.
Compass == <<"up", "down", "left", "right">>

\* The first of the directions of Compass (by index) that is in S.
FirstOf(S) == CHOOSE i \in S : \A j \in S : i <= j

EmptyNeighborIndices(map, c) ==
  {i \in 1 .. 4 : IsTileEmpty(map, MoveInDirection(c, Compass[i]))}

HasEmptyNeighbor(map, c) == EmptyNeighborIndices(map, c) # {}

\* map_find_empty_neighbor: the direction of the first empty neighbour.
EmptyNeighborDirection(map, c) == Compass[FirstOf(EmptyNeighborIndices(map, c))]

\* map_find_player_neighbor_with_lowest_order: the neighbours that qualify,
\* empty when the search fails.  The search replaces its candidate only by a
\* strictly lower order, so that of two equal ones the earlier wins.
LowestOrderIndices(map, p, c) ==
  LET own      == {i \in 1 .. 4 : IsTileOf(map, p, MoveInDirection(c, Compass[i]))}
      order(i) == map[MoveInDirection(c, Compass[i])].order
  IN  {i \in own : \A j \in own : order(i) <= order(j)}

HasPlayerNeighbor(map, p, c) == LowestOrderIndices(map, p, c) # {}

PlayerNeighborWithLowestOrder(map, p, c) ==
  MoveInDirection(c, Compass[FirstOf(LowestOrderIndices(map, p, c))])

\* map_find_random_matching_predicate walks the whole torus from a random
\* tile, in random order: it may return any tile that matches and fails only
\* when none does (MapAlgorithms compares the recursive search).
EmptyTiles(map) == {c \in Coordinates : IsTileEmpty(map, c)}
SpawnSites(map) == {c \in EmptyTiles(map) : HasEmptyNeighbor(map, c)}

-----------------------------------------------------------------------------
(* map_mark_player_as_dead floods from the start tile over the tiles of    *)
(* the player and marks all it reaches: the smallest set of the player's   *)
(* tiles that holds the start and is closed under neighbourhood.           *)

ConnectedTiles(map, p, start) ==
  LET own    == TilesOf(map, p)
      closed == {S \in SUBSET own :
                   start \in S /\ \A c \in S : Neighbors(c) \cap own \subseteq S}
  IN  {c \in own : start \in own /\ \A S \in closed : c \in S}

MarkPlayerAsDead(map, p, start) ==
  LET hit == ConnectedTiles(map, p, start)
  IN  [c \in Coordinates |-> IF c \in hit THEN [map[c] EXCEPT !.type = "dead"] ELSE map[c]]
=============================================================================
