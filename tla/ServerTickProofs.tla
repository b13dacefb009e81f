-------------------------- MODULE ServerTickProofs --------------------------
(***************************************************************************)
(* What holds of the tick for any field, any number of players and any     *)
(* number of ticks.                                                        *)
(*                                                                         *)
(* Part 1: the types of the data (with no uninitialised read of the        *)
(* cache), the walls, and that the changelog leads from one map to the     *)
(* next; then what the tick does for its players: the status of a slot     *)
(* follows PlayerLifecycle, the game does not end over somebody who plays, *)
(* and nobody touches a snake that is paused.                              *)
(*                                                                         *)
(* Part 2: the snakes.  They stay trails whose tail is always found, the   *)
(* changelog has room for the changes of a tick, no fruit is lost, and the *)
(* ticks implement SnakeGame.  Two hypotheses come back.  Roomy: the field *)
(* has no fewer than two rows and columns, which map_loader.c asks of a    *)
(* map file and nobody of the arguments.  NobodyEatsAtItsTail: no snake    *)
(* eats the fruit on a tile that its cached tail still names; the code     *)
(* does not see to it when three players are close (the finding of the run *)
(* ServerTick_stale_tail), and the theorems about pairs prove it for two.  *)
(***************************************************************************)
EXTENDS ServerTickRefinement, FiniteSetTheorems, TLAPS

-----------------------------------------------------------------------------
(* Part 1: the data of the tick and the slots.                             *)

-----------------------------------------------------------------------------
(* The operators of SnakeMap and direction.c.                              *)

LEMMA MoveStaysOnMap ==
  ASSUME NEW c \in Coordinates, NEW d \in Directions
  PROVE  MoveInDirection(c, d) \in Coordinates
<1>1. PICK i \in 0 .. Height - 1, j \in 0 .. Width - 1 : c = <<i, j>>
  BY DEF Coordinates
<1>2. c[1] = i /\ c[2] = j /\ Height \in Nat \ {0} /\ Width \in Nat \ {0}
  BY <1>1, MapAssumption
<1>3. CASE d = "up"
  BY <1>2, <1>3 DEF MoveInDirection, Coordinates
<1>4. CASE d = "down"
  BY <1>2, <1>4 DEF MoveInDirection, Coordinates
<1>5. CASE d = "left"
  BY <1>2, <1>5 DEF MoveInDirection, Coordinates
<1>6. CASE d = "right"
  BY <1>2, <1>6 DEF MoveInDirection, Coordinates
<1> QED BY <1>3, <1>4, <1>5, <1>6 DEF Directions

LEMMA OppositeIsDirection ==
  ASSUME NEW d \in Directions
  PROVE  DirectionOpposite(d) \in Directions
BY DEF DirectionOpposite, Directions

LEMMA FirstIsMember ==
  ASSUME NEW S \in SUBSET (1 .. 4), S # {}
  PROVE  FirstOf(S) \in S
<1>1. \E i \in S : \A j \in S : i <= j
  <2>1. CASE 1 \in S
    BY <2>1
  <2>2. CASE 1 \notin S /\ 2 \in S
    BY <2>2
  <2>3. CASE 1 \notin S /\ 2 \notin S /\ 3 \in S
    BY <2>3
  <2>4. CASE 1 \notin S /\ 2 \notin S /\ 3 \notin S
    <3>1. \A j \in S : j = 4
      BY <2>4
    <3>2. 4 \in S
      BY <3>1
    <3> QED BY <3>1, <3>2
  <2> QED BY <2>1, <2>2, <2>3, <2>4
<1> QED BY <1>1 DEF FirstOf

LEMMA CompassIsDirections ==
  ASSUME NEW i \in 1 .. 4
  PROVE  Compass[i] \in Directions
BY DEF Compass, Directions

\* The search for an empty neighbour returns one.
LEMMA EmptyNeighborFound ==
  ASSUME NEW map, NEW c \in Coordinates, HasEmptyNeighbor(map, c)
  PROVE  /\ EmptyNeighborDirection(map, c) \in Directions
         /\ MoveInDirection(c, EmptyNeighborDirection(map, c)) \in EmptyTiles(map)
<1> DEFINE S == EmptyNeighborIndices(map, c)
<1>1. FirstOf(S) \in S
  BY FirstIsMember DEF HasEmptyNeighbor, EmptyNeighborIndices
<1>2. FirstOf(S) \in 1 .. 4 /\ IsTileEmpty(map, MoveInDirection(c, Compass[FirstOf(S)]))
  BY <1>1 DEF EmptyNeighborIndices
<1> QED
  BY <1>2, CompassIsDirections, MoveStaysOnMap DEF EmptyNeighborDirection, EmptyTiles

\* The search for the player's neighbour returns one.
LEMMA PlayerNeighborFound ==
  ASSUME NEW map, NEW p, NEW c \in Coordinates, HasPlayerNeighbor(map, p, c)
  PROVE  /\ PlayerNeighborWithLowestOrder(map, p, c) \in Coordinates
         /\ IsTileOf(map, p, PlayerNeighborWithLowestOrder(map, p, c))
<1> DEFINE S == LowestOrderIndices(map, p, c)
<1>1. FirstOf(S) \in S
  BY FirstIsMember DEF HasPlayerNeighbor, LowestOrderIndices
<1>2. FirstOf(S) \in 1 .. 4 /\ IsTileOf(map, p, MoveInDirection(c, Compass[FirstOf(S)]))
  BY <1>1 DEF LowestOrderIndices
<1> QED
  BY <1>2, CompassIsDirections, MoveStaysOnMap DEF PlayerNeighborWithLowestOrder

-----------------------------------------------------------------------------
(* Writing tiles.  What each handler keeps of the map and the changelog:   *)
(* the walls are those of the template, and the changelog accounts for     *)
(* every tile but the dead ones, which the sweep is still to report.       *)

WallsOf(map) == {c \in Coordinates : map[c].type = "wall"}

Reported(changelog, old, map) ==
  \A c \in Coordinates : map[c].type # "dead" => ChangelogGives(changelog, old, map, c)

\* A tile is written and pushed: it is reported, and so are the others.
LEMMA WrittenTileIsReported ==
  ASSUME NEW map \in Maps, NEW old \in Maps, NEW changelog \in Seq(Changes),
         NEW c \in Coordinates, NEW t \in Tiles,
         Reported(changelog, old, map)
  PROVE  Reported(Append(changelog, [coordinates |-> c, tile |-> t]), old,
                  [map EXCEPT ![c] = t])
<1> DEFINE log == Append(changelog, [coordinates |-> c, tile |-> t])
           new == [map EXCEPT ![c] = t]
<1>1. /\ DOMAIN log = 1 .. Len(changelog) + 1
      /\ log[Len(changelog) + 1] = [coordinates |-> c, tile |-> t]
      /\ \A i \in 1 .. Len(changelog) : log[i] = changelog[i]
      /\ DOMAIN changelog = 1 .. Len(changelog)
      /\ Len(changelog) \in Nat
  BY DEF Changes
<1>2. new[c] = t
  BY DEF Maps
<1>3. ChangelogGives(log, old, new, c)
  <2>1. \A j \in DOMAIN log : ~ (j > Len(changelog) + 1)
    BY <1>1
  <2>2. /\ Len(changelog) + 1 \in DOMAIN log
        /\ log[Len(changelog) + 1].coordinates = c
        /\ log[Len(changelog) + 1].tile = new[c]
    BY <1>1, <1>2
  <2> HIDE DEF log, new
  <2> QED BY <2>1, <2>2 DEF ChangelogGives
<1>4. ASSUME NEW e \in Coordinates, e # c, new[e].type # "dead"
      PROVE  ChangelogGives(log, old, new, e)
  <2>1. new[e] = map[e]
    BY <1>4 DEF Maps
  <2>2. ChangelogGives(changelog, old, map, e)
    BY <1>4, <2>1 DEF Reported
  <2>3. log[Len(changelog) + 1].coordinates # e
    BY <1>1, <1>4
  <2> HIDE DEF log, new
  <2>4. CASE \A i \in DOMAIN changelog : changelog[i].coordinates # e
    <3>1. \A i \in DOMAIN log : log[i].coordinates # e
      BY <1>1, <2>3, <2>4
    <3>2. old[e] = new[e]
      BY <2>1, <2>2, <2>4 DEF ChangelogGives
    <3> QED BY <3>1, <3>2 DEF ChangelogGives
  <2>5. CASE \E i \in DOMAIN changelog : changelog[i].coordinates = e
    <3>1. PICK i \in DOMAIN changelog :
            /\ changelog[i].coordinates = e
            /\ changelog[i].tile = map[e]
            /\ \A j \in DOMAIN changelog : j > i => changelog[j].coordinates # e
      BY <2>2, <2>5 DEF ChangelogGives
    <3>2. i \in DOMAIN log /\ log[i] = changelog[i]
      BY <1>1
    <3>3. \A j \in DOMAIN log : j > i => log[j].coordinates # e
      BY <1>1, <2>3, <3>1
    <3> QED BY <2>1, <3>1, <3>2, <3>3 DEF ChangelogGives
  <2> QED BY <2>4, <2>5
<1> QED BY <1>3, <1>4 DEF Reported

\* The handlers of a turn, seen from outside: they report what they write,
\* leave the walls and the dead alone, and never unset an entry of the cache.
Progress(d, e, old) ==
  /\ e \in Data
  /\ Reported(e.changelog, old, e.map)
  /\ WallsOf(e.map) = WallsOf(d.map)
  /\ DeadTiles(e.map) \subseteq DeadTiles(d.map)
  /\ e.playerDied = d.playerDied
  /\ e.fruitsEaten = d.fruitsEaten
  /\ \A q \in PlayerIds : d.head[q] # Unset => e.head[q] # Unset
  /\ \A q \in PlayerIds : d.tail[q] # Unset => e.tail[q] # Unset

LEMMA UnsetIsNoCoordinate == Unset \notin Coordinates
BY MapAssumption DEF Unset, Coordinates

\* The map after a tile that is no wall became one that is neither wall nor
\* dead.
LEMMA WrittenTile ==
  ASSUME NEW map \in Maps, NEW c \in Coordinates, NEW t \in Tiles,
         map[c].type # "wall", t.type \notin {"wall", "dead"}
  PROVE  /\ [map EXCEPT ![c] = t] \in Maps
         /\ WallsOf([map EXCEPT ![c] = t]) = WallsOf(map)
         /\ DeadTiles([map EXCEPT ![c] = t]) \subseteq DeadTiles(map)
BY DEF Maps, WallsOf, DeadTiles

LEMMA PushedChange ==
  ASSUME NEW changelog \in Seq(Changes), NEW c \in Coordinates, NEW t \in Tiles
  PROVE  Append(changelog, [coordinates |-> c, tile |-> t]) \in Seq(Changes)
BY DEF Changes

\* Any handler that writes a tile and pushes it, whatever else it keeps.
LEMMA WriteIsProgress ==
  ASSUME NEW d \in Data, NEW old \in Maps, NEW c \in Coordinates, NEW t \in Tiles,
         NEW head \in [PlayerIds -> Coordinates \cup {Unset}],
         NEW tail \in [PlayerIds -> Coordinates \cup {Unset}],
         Reported(d.changelog, old, d.map),
         d.map[c].type # "wall", t.type \notin {"wall", "dead"},
         \A q \in PlayerIds : d.head[q] # Unset => head[q] # Unset,
         \A q \in PlayerIds : d.tail[q] # Unset => tail[q] # Unset
  PROVE  Progress(d, PushTile([d EXCEPT !.map = [@ EXCEPT ![c] = t],
                                        !.head = head, !.tail = tail], c), old)
<1> DEFINE map == [d.map EXCEPT ![c] = t]
           e   == PushTile([d EXCEPT !.map = [@ EXCEPT ![c] = t],
                                     !.head = head, !.tail = tail], c)
<1>1. d.map \in Maps /\ d.changelog \in Seq(Changes)
  BY DEF Data
<1>2. map[c] = t
  BY <1>1 DEF Maps
<1>3. e = [d EXCEPT !.map = map, !.head = head, !.tail = tail,
                    !.changelog = Append(d.changelog, [coordinates |-> c, tile |-> t])]
  BY <1>2 DEF PushTile, Data
<1>4. map \in Maps /\ WallsOf(map) = WallsOf(d.map) /\ DeadTiles(map) \subseteq DeadTiles(d.map)
  BY <1>1, WrittenTile
<1>5. Append(d.changelog, [coordinates |-> c, tile |-> t]) \in Seq(Changes)
  BY <1>1, PushedChange
<1>6. Reported(Append(d.changelog, [coordinates |-> c, tile |-> t]), old, map)
  BY <1>1, WrittenTileIsReported
<1> HIDE DEF map, e
<1>7. /\ e \in Data
      /\ e.map = map
      /\ e.changelog = Append(d.changelog, [coordinates |-> c, tile |-> t])
      /\ e.head = head
      /\ e.tail = tail
      /\ e.fruitsEaten = d.fruitsEaten
  BY <1>3, <1>4, <1>5 DEF Data
<1>8. e.playerDied = d.playerDied
  BY <1>3 DEF Data
<1>9. Progress(d, e, old)
  BY <1>4, <1>6, <1>7, <1>8 DEF Progress
<1> QED BY <1>9 DEF e

LEMMA ProgressComposes ==
  ASSUME NEW d, NEW e, NEW f, NEW old, Progress(d, e, old), Progress(e, f, old)
  PROVE  Progress(d, f, old)
BY DEF Progress

-----------------------------------------------------------------------------
(* The handlers of server.c.                                               *)

LEMMA TilesAreTiles ==
  ASSUME NEW d \in Data, NEW c \in Coordinates
  PROVE  d.map \in Maps /\ d.map[c] \in Tiles /\ d.map[c].order \in Nat
BY DEF Data, Maps, Tiles

LEMMA HeadProgress ==
  ASSUME NEW d \in Data, NEW old \in Maps, NEW p \in PlayerIds, NEW next \in Coordinates,
         Reported(d.changelog, old, d.map),
         d.head[p] \in Coordinates, d.map[next].type # "wall"
  PROVE  /\ Progress(d, MovePlayerHead(d, p, next), old)
         /\ MovePlayerHead(d, p, next).tail = d.tail
<1> DEFINE t    == [order |-> d.map[d.head[p]].order + 1, type |-> "player", player |-> p]
           head == [d.head EXCEPT ![p] = next]
<1>1. t \in Tiles /\ t.type \notin {"wall", "dead"}
  BY TilesAreTiles DEF Tiles, TileTypes
<1>2. head \in [PlayerIds -> Coordinates \cup {Unset}] /\ d.tail \in [PlayerIds -> Coordinates \cup {Unset}]
  BY DEF Data
<1>3. \A q \in PlayerIds : d.head[q] # Unset => head[q] # Unset
  BY UnsetIsNoCoordinate DEF Data
<1>4. MovePlayerHead(d, p, next) =
        PushTile([d EXCEPT !.map = [@ EXCEPT ![next] = t], !.head = head, !.tail = d.tail], next)
  BY DEF MovePlayerHead, SetTilePlayer, Data
<1> HIDE DEF t, head
<1>5. Progress(d, MovePlayerHead(d, p, next), old)
  <2>1. Progress(d, PushTile([d EXCEPT !.map = [@ EXCEPT ![next] = t],
                                       !.head = head, !.tail = d.tail], next), old)
    BY <1>1, <1>2, <1>3, WriteIsProgress
  <2> QED BY <1>4, <2>1
<1>6. MovePlayerHead(d, p, next).tail = d.tail
  BY DEF MovePlayerHead, PushTile, Data
<1> QED BY <1>5, <1>6

LEMMA ClearTailProgress ==
  ASSUME NEW d \in Data, NEW old \in Maps, NEW p \in PlayerIds,
         Reported(d.changelog, old, d.map), d.tail[p] \in Coordinates
  PROVE  /\ Progress(d, ClearTail(d, p), old)
         /\ ClearTail(d, p).tail = d.tail
<1> DEFINE c == d.tail[p]
           t == [d.map[c] EXCEPT !.type = "empty"]
<1>1. CASE IsTileOf(d.map, p, c) /\ d.head[p] # c
  <2>1. t \in Tiles /\ t.type \notin {"wall", "dead"}
    BY TilesAreTiles DEF Tiles, TileTypes
  <2>2. d.map[c].type # "wall"
    BY <1>1 DEF IsTileOf
  <2>3. /\ d.head \in [PlayerIds -> Coordinates \cup {Unset}]
        /\ d.tail \in [PlayerIds -> Coordinates \cup {Unset}]
    BY DEF Data
  <2>4. ClearTail(d, p) =
          PushTile([d EXCEPT !.map = [@ EXCEPT ![c] = t], !.head = d.head, !.tail = d.tail], c)
    BY <1>1 DEF ClearTail, SetTileEmpty, Data, Maps
  <2>5. ClearTail(d, p).tail = d.tail
    BY <1>1 DEF ClearTail, PushTile, Data
  <2> HIDE DEF t
  <2>6. Progress(d, ClearTail(d, p), old)
    <3>1. Progress(d, PushTile([d EXCEPT !.map = [@ EXCEPT ![c] = t],
                                         !.head = d.head, !.tail = d.tail], c), old)
      BY <2>1, <2>2, <2>3, WriteIsProgress
    <3> QED BY <2>4, <3>1
  <2> QED BY <2>5, <2>6
<1>2. CASE ~ (IsTileOf(d.map, p, c) /\ d.head[p] # c)
  <2>1. ClearTail(d, p) = d
    BY <1>2 DEF ClearTail
  <2> QED BY <2>1 DEF Progress
<1> QED BY <1>1, <1>2

\* Moving the tail, whether or not the search for the next tile succeeds.
LEMMA TailProgress ==
  ASSUME NEW d \in Data, NEW old \in Maps, NEW p \in PlayerIds,
         Reported(d.changelog, old, d.map), d.tail[p] \in Coordinates
  PROVE  Progress(d, MovePlayerTail(d, p), old)
<1> DEFINE e    == ClearTail(d, p)
           next == NextTail(e, p)
<1>1. Progress(d, e, old) /\ e.tail = d.tail
  BY ClearTailProgress
<1>2. e \in Data /\ Reported(e.changelog, old, e.map) /\ e.tail[p] \in Coordinates
  BY <1>1 DEF Progress
<1>3. CASE HasPlayerNeighbor(e.map, p, e.tail[p])
  <2> DEFINE tail == [e.tail EXCEPT ![p] = next]
  <2>1. next \in Coordinates /\ IsTileOf(e.map, p, next)
    BY <1>2, <1>3, PlayerNeighborFound DEF NextTail
  <2>2. e.map[next] \in Tiles /\ e.map[next].type \notin {"wall", "dead"}
    BY <1>2, <2>1, TilesAreTiles DEF IsTileOf
  <2>3. /\ e.head \in [PlayerIds -> Coordinates \cup {Unset}]
        /\ tail \in [PlayerIds -> Coordinates \cup {Unset}]
        /\ \A q \in PlayerIds : e.tail[q] # Unset => tail[q] # Unset
    BY <1>2, <2>1, UnsetIsNoCoordinate DEF Data
  <2>4. MovePlayerTail(d, p) = PushTile([e EXCEPT !.tail[p] = next], next)
    BY <1>3 DEF MovePlayerTail
  <2> HIDE DEF e, next
  <2>5. [e EXCEPT !.tail[p] = next] =
          [e EXCEPT !.map = [@ EXCEPT ![next] = e.map[next]], !.head = e.head, !.tail = tail]
    BY <1>2 DEF Data, Maps
  <2> HIDE DEF tail
  <2>6. Progress(e, MovePlayerTail(d, p), old)
    <3>1. Progress(e, PushTile([e EXCEPT !.map = [@ EXCEPT ![next] = e.map[next]],
                                         !.head = e.head, !.tail = tail], next), old)
      BY <1>2, <2>1, <2>2, <2>3, WriteIsProgress
    <3> QED BY <2>4, <2>5, <3>1
  <2> QED BY <1>1, <2>6, ProgressComposes
<1>4. CASE ~HasPlayerNeighbor(e.map, p, e.tail[p])
  <2>1. MovePlayerTail(d, p) = [e EXCEPT !.failed = TRUE]
    BY <1>4 DEF MovePlayerTail
  <2> HIDE DEF e
  <2> DEFINE f == [e EXCEPT !.failed = TRUE]
  <2>2. /\ f \in Data
        /\ f.map = e.map /\ f.changelog = e.changelog
        /\ f.head = e.head /\ f.tail = e.tail
        /\ f.fruitsEaten = e.fruitsEaten
    BY <1>2 DEF Data
  <2>3. f.playerDied = e.playerDied
    BY <1>2 DEF Data
  <2>4. Progress(e, f, old)
    BY <1>2, <2>2, <2>3 DEF Progress
  <2> QED BY <1>1, <2>1, <2>4, ProgressComposes
<1> QED BY <1>3, <1>4

\* A new fruit, or none.
LEMMA FruitProgress ==
  ASSUME NEW d \in Data, NEW old \in Maps, Reported(d.changelog, old, d.map),
         NEW e \in FruitOutcomes(d)
  PROVE  Progress(d, e, old)
<1>1. CASE e = d
  BY <1>1 DEF Progress
<1>2. ASSUME NEW c \in EmptyTiles(d.map),
             e = PushTile([d EXCEPT !.map = SetTileFruit(@, c)], c)
      PROVE  Progress(d, e, old)
  <2> DEFINE t == [d.map[c] EXCEPT !.type = "fruit"]
  <2>1. c \in Coordinates /\ d.map[c].type # "wall"
    BY DEF EmptyTiles, IsTileEmpty
  <2>2. t \in Tiles /\ t.type \notin {"wall", "dead"}
    BY <2>1, TilesAreTiles DEF Tiles, TileTypes
  <2>3. /\ d.head \in [PlayerIds -> Coordinates \cup {Unset}]
        /\ d.tail \in [PlayerIds -> Coordinates \cup {Unset}]
    BY DEF Data
  <2>4. e = PushTile([d EXCEPT !.map = [@ EXCEPT ![c] = t], !.head = d.head, !.tail = d.tail], c)
    BY <1>2, <2>1 DEF SetTileFruit, Data, Maps
  <2> HIDE DEF t
  <2> QED BY <2>1, <2>2, <2>3, <2>4, WriteIsProgress
<1> QED BY <1>1, <1>2 DEF FruitOutcomes

\* A snake of two tiles, which writes both entries of the cache.
LEMMA SpawnProgress ==
  ASSUME NEW d \in Data, NEW old \in Maps, Reported(d.changelog, old, d.map),
         NEW p \in PlayerIds, NEW head \in SpawnSites(d.map)
  PROVE  /\ Progress(d, SpawnPlayer(d, p, head), old)
         /\ SpawnPlayer(d, p, head).head[p] # Unset
         /\ SpawnPlayer(d, p, head).tail[p] # Unset
<1> DEFINE tail     == MoveInDirection(head, EmptyNeighborDirection(d.map, head))
           headTile == [order |-> 1, type |-> "player", player |-> p]
           tailTile == [order |-> 0, type |-> "player", player |-> p]
           heads    == [d.head EXCEPT ![p] = head]
           e        == PushTile([d EXCEPT !.map = SetTilePlayer(@, head, p, 1),
                                          !.head[p] = head], head)
           tails    == [e.tail EXCEPT ![p] = tail]
<1>1. /\ head \in Coordinates /\ IsTileEmpty(d.map, head)
      /\ tail \in Coordinates /\ IsTileEmpty(d.map, tail)
  BY EmptyNeighborFound DEF SpawnSites, EmptyTiles
<1>2. /\ headTile \in Tiles /\ headTile.type \notin {"wall", "dead"}
      /\ tailTile \in Tiles /\ tailTile.type \notin {"wall", "dead"}
  BY DEF Tiles, TileTypes
<1>3. Progress(d, e, old)
  <2>1. /\ heads \in [PlayerIds -> Coordinates \cup {Unset}]
        /\ d.tail \in [PlayerIds -> Coordinates \cup {Unset}]
        /\ \A q \in PlayerIds : d.head[q] # Unset => heads[q] # Unset
    BY <1>1, UnsetIsNoCoordinate DEF Data
  <2>2. e = PushTile([d EXCEPT !.map = [@ EXCEPT ![head] = headTile],
                               !.head = heads, !.tail = d.tail], head)
    BY DEF SetTilePlayer, Data
  <2>3. d.map[head].type # "wall"
    BY <1>1 DEF IsTileEmpty
  <2> HIDE DEF e, heads, headTile, tail
  <2> QED BY <1>1, <1>2, <2>1, <2>2, <2>3, WriteIsProgress
<1>4. e \in Data /\ Reported(e.changelog, old, e.map) /\ WallsOf(e.map) = WallsOf(d.map)
  BY <1>3 DEF Progress
<1>5. e.head[p] = head
  BY <1>1 DEF PushTile, Data
<1>6. SpawnPlayer(d, p, head) =
        PushTile([e EXCEPT !.map = [@ EXCEPT ![tail] = tailTile],
                           !.head = e.head, !.tail = tails], tail)
  <2>1. SpawnPlayer(d, p, head) =
          PushTile([e EXCEPT !.map = SetTilePlayer(@, tail, p, 0), !.tail[p] = tail], tail)
    BY DEF SpawnPlayer
  <2> HIDE DEF e, tail
  <2> QED BY <1>4, <2>1 DEF SetTilePlayer, Data
<1>7. e.map[tail].type # "wall"
  BY <1>1, <1>4 DEF WallsOf, IsTileEmpty
<1> HIDE DEF e, tail, tailTile
<1>8. /\ e.head \in [PlayerIds -> Coordinates \cup {Unset}]
      /\ tails \in [PlayerIds -> Coordinates \cup {Unset}]
      /\ \A q \in PlayerIds : e.tail[q] # Unset => tails[q] # Unset
      /\ tails[p] # Unset
  BY <1>1, <1>4, UnsetIsNoCoordinate DEF Data
<1>9. /\ SpawnPlayer(d, p, head).head = e.head
      /\ SpawnPlayer(d, p, head).tail = tails
  BY <1>4, <1>6 DEF PushTile, Data
<1> HIDE DEF tails
<1>10. Progress(e, SpawnPlayer(d, p, head), old)
  <2>1. Progress(e, PushTile([e EXCEPT !.map = [@ EXCEPT ![tail] = tailTile],
                                       !.head = e.head, !.tail = tails], tail), old)
    BY <1>1, <1>2, <1>4, <1>7, <1>8, WriteIsProgress
  <2> QED BY <1>6, <2>1
<1>11. Progress(d, SpawnPlayer(d, p, head), old)
  BY <1>3, <1>10, ProgressComposes
<1> QED BY <1>1, <1>5, <1>8, <1>9, <1>11, UnsetIsNoCoordinate

LEMMA SeenAliveProgress ==
  ASSUME NEW d \in Data, NEW old \in Maps, Reported(d.changelog, old, d.map)
  PROVE  Progress(d, SeenAlive(d), old)
<1> DEFINE e == [d EXCEPT !.noPlayerAlive = FALSE]
<1>1. /\ e \in Data
      /\ e.map = d.map /\ e.changelog = d.changelog
      /\ e.head = d.head /\ e.tail = d.tail
      /\ e.fruitsEaten = d.fruitsEaten
  BY DEF Data
<1>2. e.playerDied = d.playerDied
  BY DEF Data
<1> HIDE DEF e
<1>3. Progress(d, e, old)
  BY <1>1, <1>2 DEF Progress
<1> QED BY <1>3 DEF e, SeenAlive

\* The flood turns tiles of the player into dead ones and changes no other.
LEMMA KillChangesTiles ==
  ASSUME NEW d \in Data, NEW old \in Maps, Reported(d.changelog, old, d.map), NEW p \in PlayerIds
  PROVE  /\ KillPlayer(d, p) \in Data
         /\ Reported(KillPlayer(d, p).changelog, old, KillPlayer(d, p).map)
         /\ WallsOf(KillPlayer(d, p).map) = WallsOf(d.map)
         /\ KillPlayer(d, p).playerDied
         /\ KillPlayer(d, p).fruitsEaten = d.fruitsEaten
         /\ KillPlayer(d, p).head = d.head
         /\ KillPlayer(d, p).tail = d.tail
<1> DEFINE new == MarkPlayerAsDead(d.map, p, d.head[p])
           e   == [d EXCEPT !.map = new, !.playerDied = TRUE]
           hit == ConnectedTiles(d.map, p, d.head[p])
<1>1. \A c \in Coordinates : c \in hit => d.map[c].type = "player"
  BY DEF ConnectedTiles, TilesOf, IsTileOf
<1>2. new = [c \in Coordinates |-> IF c \in hit THEN [d.map[c] EXCEPT !.type = "dead"]
                                                ELSE d.map[c]]
  BY DEF MarkPlayerAsDead
<1>3. KillPlayer(d, p) = e
  BY DEF KillPlayer
<1> HIDE DEF hit, new
<1>4. new \in Maps
  <2>1. ASSUME NEW c \in Coordinates
        PROVE  [d.map[c] EXCEPT !.type = "dead"] \in Tiles /\ d.map[c] \in Tiles
    BY TilesAreTiles DEF Tiles, TileTypes
  <2> QED BY <1>2, <2>1 DEF Maps
<1>5. ASSUME NEW c \in Coordinates
      PROVE  \/ new[c] = d.map[c]
             \/ new[c].type = "dead" /\ d.map[c].type = "player"
  <2>1. d.map[c] \in Tiles
    BY TilesAreTiles
  <2> QED BY <1>1, <1>2, <2>1 DEF Tiles
<1>6. /\ e \in Data
      /\ e.map = new /\ e.changelog = d.changelog
      /\ e.head = d.head /\ e.tail = d.tail
      /\ e.fruitsEaten = d.fruitsEaten
  BY <1>4 DEF Data
<1>7. e.playerDied
  BY DEF Data
<1>8. WallsOf(new) = WallsOf(d.map)
  BY <1>5 DEF WallsOf
<1>9. Reported(d.changelog, old, new)
  <2> SUFFICES ASSUME NEW c \in Coordinates, new[c].type # "dead"
               PROVE  ChangelogGives(d.changelog, old, new, c)
    BY DEF Reported
  <2>1. new[c] = d.map[c]
    BY <1>5
  <2>2. ChangelogGives(d.changelog, old, d.map, c)
    BY <2>1 DEF Reported
  <2> QED BY <2>1, <2>2 DEF ChangelogGives
<1> HIDE DEF e
<1> QED BY <1>3, <1>6, <1>7, <1>8, <1>9

-----------------------------------------------------------------------------
(* The invariant.                                                          *)

\* What the types, the walls and the changelog rest on: the changelog has
\* told of every tile but the dead ones, dead tiles are there only while the
\* tick still remembers to sweep, and a turn eats at most one fruit.
IInv ==
  /\ TypeOK
  /\ WallsOf(data.map) = Walls
  /\ Reported(data.changelog, before, data.map)
  /\ DeadTiles(data.map) # {} => data.playerDied /\ stage \in {"players", "sweep"}
  /\ data.fruitsEaten <= MaxPlayers
  /\ stage = "players" => data.fruitsEaten <= index

LEMMA InitialInvariant == Init => IInv
<1> SUFFICES ASSUME Init PROVE IInv
  OBVIOUS
<1> DEFINE map == MapFromTemplate(Walls)
<1>1. /\ 0 \in PlayerIds /\ 0 \in 0 .. MaxPlayers /\ 0 \in 0 .. MaxTicks /\ 0 \in 0 .. MaxOperations
  BY MaxPlayersAssumption, ServerTickAssumption DEF PlayerIds
<1>2. map \in Maps
  BY <1>1 DEF MapFromTemplate, Maps, Tiles, TileTypes
<1>3. /\ data.map = map /\ data.changelog = <<>> /\ before = map /\ data.fruitsEaten = 0
      /\ data \in Data
  <2>1. <<>> \in Seq(Changes)
    OBVIOUS
  <2> HIDE DEF map
  <2> QED BY <1>2, <2>1 DEF Init, Data, map
<1>4. WallsOf(map) = Walls /\ DeadTiles(map) = {}
  BY ServerTickAssumption DEF MapFromTemplate, WallsOf, DeadTiles
<1>5. Reported(<<>>, map, map)
  BY DEF Reported, ChangelogGives
<1>6. PlayersTypeOK /\ \A p \in PlayerIds : ~HasSnake(p)
  BY DEF Init, PlayerManagerInit, PlayersTypeOK, Players, Statuses, HasSnake, HasStatus
<1>7. /\ stage = "idle" /\ index = 0 /\ ticks = 0 /\ operations = 0
  BY DEF Init
<1>8. tickedOnce \in BOOLEAN
  BY DEF Init
<1> HIDE DEF map
<1>9. TypeOK
  BY <1>1, <1>2, <1>3, <1>6, <1>7, <1>8 DEF TypeOK, Stages
<1> QED BY <1>3, <1>4, <1>5, <1>7, <1>9, MaxPlayersAssumption DEF IInv

\* A turn keeps the invariant if its handler does: what is common to all.
LEMMA TurnKeepsInvariant ==
  ASSUME IInv, NEW p \in PlayerIds, HasTurn(p), TurnDone, PlayersTypeOK',
         data' \in Data, WallsOf(data'.map) = WallsOf(data.map),
         Reported(data'.changelog, before, data'.map),
         DeadTiles(data'.map) # {} => data'.playerDied,
         data'.fruitsEaten <= data.fruitsEaten + 1,
         \A q \in PlayerIds : HasSnake(q)' => data'.head[q] # Unset /\ data'.tail[q] # Unset
  PROVE  IInv'
<1>1. /\ stage = "players" /\ index = p /\ index' = index + 1
      /\ stage' = stage /\ ticks' = ticks /\ operations' = operations /\ before' = before
  BY DEF HasTurn, TurnDone
<1>2. tickedOnce' \in BOOLEAN
  BY DEF IInv, TypeOK, TurnDone
<1>3. p \in Nat /\ p + 1 <= MaxPlayers /\ MaxPlayers \in Nat
  BY MaxPlayersAssumption DEF PlayerIds
<1>4. TypeOK'
  BY <1>1, <1>2, <1>3 DEF IInv, TypeOK
<1>5. WallsOf(data.map)' = Walls /\ Reported(data.changelog, before, data.map)'
  BY <1>1 DEF IInv
<1>6. DeadTiles(data.map)' # {} => data.playerDied' /\ stage' \in {"players", "sweep"}
  BY <1>1
<1>7. /\ data.fruitsEaten' <= MaxPlayers
      /\ stage' = "players" => data.fruitsEaten' <= index'
  <2>1. data.fruitsEaten \in Nat /\ data'.fruitsEaten \in Nat
    BY DEF IInv, TypeOK, Data
  <2>2. data.fruitsEaten <= index
    BY <1>1 DEF IInv
  <2> QED BY <1>1, <1>3, <2>1, <2>2
<1> QED BY <1>4, <1>5, <1>6, <1>7 DEF IInv

\* A turn whose handler only makes progress, of a player that has a snake
\* afterwards only if its cache is set.
LEMMA ProgressKeepsInvariant ==
  ASSUME IInv, NEW p \in PlayerIds, HasTurn(p), TurnDone, PlayersTypeOK',
         NEW d, Progress(data, d, before),
         data' \in Data, data'.map = d.map, data'.changelog = d.changelog,
         data'.head = d.head, data'.tail = d.tail, data'.playerDied = d.playerDied,
         data'.fruitsEaten <= data.fruitsEaten + 1,
         \A q \in PlayerIds \ {p} : HasSnake(q)' => HasSnake(q),
         HasSnake(p)' => data'.head[p] # Unset /\ data'.tail[p] # Unset
  PROVE  IInv'
<1>1. /\ WallsOf(data'.map) = WallsOf(data.map)
      /\ Reported(data'.changelog, before, data'.map)
      /\ DeadTiles(data'.map) \subseteq DeadTiles(data.map)
  BY DEF Progress
<1>2. DeadTiles(data'.map) # {} => data'.playerDied
  BY <1>1 DEF IInv, Progress
<1>3. ASSUME NEW q \in PlayerIds, HasSnake(q)'
      PROVE  data'.head[q] # Unset /\ data'.tail[q] # Unset
  BY <1>3 DEF IInv, TypeOK, Progress
<1> QED BY <1>1, <1>2, <1>3, TurnKeepsInvariant

-----------------------------------------------------------------------------
(* One lemma per turn.                                                     *)

LEMMA PlayerFacts ==
  ASSUME IInv, NEW p \in PlayerIds
  PROVE  /\ data \in Data /\ before \in Maps /\ data.fruitsEaten \in Nat
         /\ PlayersTypeOK /\ players \in Players
         /\ Reported(data.changelog, before, data.map)
         /\ HasSnake(p) => data.head[p] \in Coordinates /\ data.tail[p] \in Coordinates
BY DEF IInv, TypeOK, Data, PlayersTypeOK

LEMMA StatusKeepsPlayers ==
  ASSUME PlayersTypeOK, NEW p \in PlayerIds, NEW s \in Statuses, SetStatus(p, s),
         s = "NotConnected" \/ ~HasStatus(p, {"NotConnected"})
  PROVE  /\ PlayersTypeOK'
         /\ \A q \in PlayerIds \ {p} : HasSnake(q)' <=> HasSnake(q)
         /\ HasSnake(p)' <=> s \in {"Playing", "Paused", "Disconnecting"}
BY DEF PlayersTypeOK, Players, SetStatus, HasStatus, HasSnake

LEMMA SpawnKeepsInvariant ==
  ASSUME IInv, NEW p \in PlayerIds, Spawn(p)
  PROVE  IInv'
<1>1. /\ data \in Data /\ before \in Maps /\ data.fruitsEaten \in Nat
      /\ players \in Players /\ PlayersTypeOK
      /\ Reported(data.changelog, before, data.map)
  BY PlayerFacts
<1>2. PICK head \in SpawnSites(data.map) :
        /\ players' = [players EXCEPT
             ![p] = [status |-> "Playing",
                     direction |-> DirectionOpposite(EmptyNeighborDirection(data.map, head))]]
        /\ \E d \in IF HasStatus(p, {"Joining"})
                    THEN FruitOutcomes(SpawnPlayer(data, p, head))
                    ELSE {SpawnPlayer(data, p, head)} : data' = SeenAlive(d)
  BY DEF Spawn
<1> DEFINE spawned == SpawnPlayer(data, p, head)
           way     == DirectionOpposite(EmptyNeighborDirection(data.map, head))
<1>3. PICK d : /\ d = spawned \/ d \in FruitOutcomes(spawned)
               /\ data' = SeenAlive(d)
  BY <1>2
<1>4. Progress(data, spawned, before) /\ spawned.head[p] # Unset /\ spawned.tail[p] # Unset
  BY <1>1, SpawnProgress
<1> HIDE DEF spawned
<1>5. spawned \in Data /\ Reported(spawned.changelog, before, spawned.map)
  BY <1>4 DEF Progress
<1>6. Progress(spawned, d, before)
  <2>1. CASE d = spawned
    BY <1>5, <2>1 DEF Progress
  <2>2. CASE d \in FruitOutcomes(spawned)
    BY <1>1, <1>5, <2>2, FruitProgress
  <2> QED BY <1>3, <2>1, <2>2
<1>7. d \in Data /\ Reported(d.changelog, before, d.map)
  BY <1>6 DEF Progress
<1>8. Progress(d, data', before)
  BY <1>1, <1>3, <1>7, SeenAliveProgress
<1>9. Progress(data, data', before)
  BY <1>4, <1>6, <1>8, ProgressComposes
<1>10. data'.head[p] # Unset /\ data'.tail[p] # Unset
  BY <1>4, <1>6, <1>8 DEF Progress
<1>11. way \in Directions
  BY EmptyNeighborFound, OppositeIsDirection DEF SpawnSites, EmptyTiles
<1> HIDE DEF way
<1>12. players' = [players EXCEPT ![p] = [status |-> "Playing", direction |-> way]]
  BY <1>2 DEF way
<1>13. PlayersTypeOK' /\ \A q \in PlayerIds \ {p} : HasSnake(q)' => HasSnake(q)
  BY <1>1, <1>11, <1>12 DEF PlayersTypeOK, Players, Statuses, HasSnake, HasStatus, Directions
<1>14. data' \in Data /\ data'.fruitsEaten <= data.fruitsEaten + 1
  BY <1>1, <1>9 DEF Progress
<1>15. HasTurn(p) /\ TurnDone
  BY DEF Spawn
<1> QED BY <1>9, <1>10, <1>13, <1>14, <1>15, ProgressKeepsInvariant

LEMMA FailToSpawnKeepsInvariant ==
  ASSUME IInv, NEW p \in PlayerIds, FailToSpawn(p)
  PROVE  IInv'
<1>1. HasTurn(p) /\ TurnDone /\ data' = data
  BY DEF FailToSpawn
<1>2. /\ data \in Data /\ data.fruitsEaten \in Nat /\ PlayersTypeOK
      /\ Reported(data.changelog, before, data.map)
  BY PlayerFacts
<1>3. SetStatus(p, "Dead") /\ "Dead" \in Statuses /\ ~HasStatus(p, {"NotConnected"})
  BY DEF FailToSpawn, Statuses, HasStatus
<1>4. /\ PlayersTypeOK'
      /\ \A q \in PlayerIds \ {p} : HasSnake(q)' <=> HasSnake(q)
      /\ ~ HasSnake(p)'
  BY <1>2, <1>3, StatusKeepsPlayers
<1>5. Progress(data, data, before)
  BY <1>2 DEF Progress
<1>6. data' \in Data /\ data'.fruitsEaten <= data.fruitsEaten + 1
  BY <1>1, <1>2
<1> QED BY <1>1, <1>4, <1>5, <1>6, ProgressKeepsInvariant

\* What RemoveDisconnected and Crash have in common.
LEMMA KillKeepsInvariant ==
  ASSUME IInv, NEW p \in PlayerIds, HasTurn(p), TurnDone,
         NEW s \in {"Dead", "NotConnected"}, ~HasStatus(p, {"NotConnected"}),
         data' = KillPlayer(data, p), SetStatus(p, s)
  PROVE  IInv'
<1>1. /\ data \in Data /\ before \in Maps /\ data.fruitsEaten \in Nat /\ PlayersTypeOK
      /\ Reported(data.changelog, before, data.map)
  BY PlayerFacts
<1>2. /\ data' \in Data
      /\ Reported(data'.changelog, before, data'.map)
      /\ WallsOf(data'.map) = WallsOf(data.map)
      /\ data'.playerDied
      /\ data'.fruitsEaten = data.fruitsEaten
      /\ data'.head = data.head
      /\ data'.tail = data.tail
  BY <1>1, KillChangesTiles
<1>3. /\ PlayersTypeOK'
      /\ \A q \in PlayerIds \ {p} : HasSnake(q)' <=> HasSnake(q)
      /\ ~ HasSnake(p)'
  BY <1>1, StatusKeepsPlayers DEF Statuses
<1>4. ASSUME NEW q \in PlayerIds, HasSnake(q)'
      PROVE  data'.head[q] # Unset /\ data'.tail[q] # Unset
  BY <1>2, <1>3, <1>4 DEF IInv, TypeOK
<1>5. data'.fruitsEaten <= data.fruitsEaten + 1
  BY <1>1, <1>2
<1> QED BY <1>2, <1>3, <1>4, <1>5, TurnKeepsInvariant

\* What the turns that leave the players alone have in common.
LEMMA QuietTurnKeepsInvariant ==
  ASSUME IInv, NEW p \in PlayerIds, HasTurn(p), TurnDone, UNCHANGED players,
         NEW d, Progress(data, d, before), data' \in Data,
         data'.map = d.map, data'.changelog = d.changelog,
         data'.head = d.head, data'.tail = d.tail, data'.playerDied = d.playerDied,
         data'.fruitsEaten <= data.fruitsEaten + 1
  PROVE  IInv'
<1>1. PlayersTypeOK' /\ \A q \in PlayerIds : HasSnake(q)' <=> HasSnake(q)
  BY PlayerFacts DEF PlayersTypeOK, HasSnake, HasStatus
<1>2. HasSnake(p)' => data'.head[p] # Unset /\ data'.tail[p] # Unset
  BY <1>1 DEF IInv, TypeOK, Progress
<1> QED BY <1>1, <1>2, ProgressKeepsInvariant

LEMMA RestKeepsInvariant ==
  ASSUME IInv, NEW p \in PlayerIds, Rest(p)
  PROVE  IInv'
<1>1. HasTurn(p) /\ TurnDone /\ UNCHANGED players
  BY DEF Rest
<1>2. /\ data \in Data /\ before \in Maps /\ data.fruitsEaten \in Nat
      /\ Reported(data.changelog, before, data.map)
  BY PlayerFacts
<1>3. data' = SeenAlive(data) \/ data' = data
  BY DEF Rest
<1>4. Progress(data, data', before)
  BY <1>2, <1>3, SeenAliveProgress DEF Progress
<1>5. data' \in Data /\ data'.fruitsEaten <= data.fruitsEaten + 1
  BY <1>2, <1>4 DEF Progress
<1> QED BY <1>1, <1>4, <1>5, QuietTurnKeepsInvariant

\* What HasMove gives to the handlers of a move.
LEMMA MoverFacts ==
  ASSUME IInv, NEW p \in PlayerIds, HasMove(p)
  PROVE  /\ data.head[p] \in Coordinates /\ data.tail[p] \in Coordinates
         /\ NextHead(p) \in Coordinates
<1>1. HasSnake(p) /\ players[p].direction \in Directions
  BY PlayerFacts DEF HasMove, HasStatus, HasSnake, PlayersTypeOK, Players
<1>2. data.head[p] \in Coordinates /\ data.tail[p] \in Coordinates
  BY <1>1, PlayerFacts
<1> QED BY <1>1, <1>2, MoveStaysOnMap DEF NextHead

LEMMA CrawlKeepsInvariant ==
  ASSUME IInv, NEW p \in PlayerIds, Crawl(p)
  PROVE  IInv'
<1>1. HasTurn(p) /\ TurnDone /\ UNCHANGED players /\ HasMove(p)
  BY DEF Crawl, HasMove
<1>2. /\ data \in Data /\ before \in Maps /\ data.fruitsEaten \in Nat
      /\ Reported(data.changelog, before, data.map)
      /\ data.head[p] \in Coordinates /\ data.tail[p] \in Coordinates
      /\ NextHead(p) \in Coordinates
  BY <1>1, PlayerFacts, MoverFacts
<1>3. data.map[NextHead(p)].type # "wall"
  BY DEF Crawl, IsTailVacated, TileAhead
<1> DEFINE d == MovePlayerHead(data, p, NextHead(p))
           e == MovePlayerTail(d, p)
<1>4. Progress(data, d, before) /\ d.tail = data.tail
  BY <1>2, <1>3, HeadProgress
<1> HIDE DEF d
<1>5. Progress(d, e, before)
  BY <1>2, <1>4, TailProgress DEF Progress
<1> HIDE DEF e
<1>6. data' = e \/ data' = SeenAlive(e)
  BY DEF Crawl, d, e
<1>7. Progress(e, data', before)
  BY <1>2, <1>5, <1>6, SeenAliveProgress DEF Progress
<1>8. Progress(data, data', before)
  BY <1>4, <1>5, <1>7, ProgressComposes
<1>9. data' \in Data /\ data'.fruitsEaten <= data.fruitsEaten + 1
  BY <1>2, <1>8 DEF Progress
<1> QED BY <1>1, <1>8, <1>9, QuietTurnKeepsInvariant

LEMMA EatKeepsInvariant ==
  ASSUME IInv, NEW p \in PlayerIds, Eat(p)
  PROVE  IInv'
<1>1. HasTurn(p) /\ TurnDone /\ UNCHANGED players /\ HasMove(p)
  BY DEF Eat, HasMove
<1>2. /\ data \in Data /\ before \in Maps /\ data.fruitsEaten \in Nat
      /\ Reported(data.changelog, before, data.map)
      /\ data.head[p] \in Coordinates
      /\ NextHead(p) \in Coordinates
  BY <1>1, PlayerFacts, MoverFacts
<1>3. data.map[NextHead(p)].type # "wall"
  BY DEF Eat, TileAhead
<1> DEFINE d == MovePlayerHead(data, p, NextHead(p))
           e == SeenAlive(d)
<1>4. Progress(data, d, before)
  BY <1>2, <1>3, HeadProgress
<1> HIDE DEF d
<1>5. Progress(d, e, before)
  BY <1>2, <1>4, SeenAliveProgress DEF Progress
<1>6. Progress(data, e, before)
  BY <1>4, <1>5, ProgressComposes
<1> HIDE DEF e
<1>7. e \in Data /\ e.fruitsEaten = data.fruitsEaten
  BY <1>6 DEF Progress
<1>8. data' = [e EXCEPT !.fruitsEaten = @ + 1]
  BY DEF Eat, d, e
<1>9. /\ data'.map = e.map /\ data'.changelog = e.changelog
      /\ data'.head = e.head /\ data'.tail = e.tail
      /\ data'.fruitsEaten <= data.fruitsEaten + 1
      /\ data' \in Data
  <2>1. e.fruitsEaten + 1 \in Nat
    BY <1>2, <1>7
  <2>2. data' \in Data
    BY <1>7, <1>8, <2>1 DEF Data
  <2>3. /\ data'.map = e.map /\ data'.changelog = e.changelog
        /\ data'.head = e.head /\ data'.tail = e.tail
        /\ data'.fruitsEaten = e.fruitsEaten + 1
    BY <1>7, <1>8 DEF Data
  <2> QED BY <1>2, <1>7, <2>2, <2>3
<1>10. data'.playerDied = e.playerDied
  BY <1>7, <1>8 DEF Data
<1> QED BY <1>1, <1>6, <1>9, <1>10, QuietTurnKeepsInvariant

LEMMA TurnInvariant ==
  ASSUME IInv, NEW p \in PlayerIds, Turn(p)
  PROVE  IInv'
<1>1. CASE Spawn(p)
  BY <1>1, SpawnKeepsInvariant
<1>2. CASE FailToSpawn(p)
  BY <1>2, FailToSpawnKeepsInvariant
<1>3. CASE RemoveDisconnected(p)
  BY <1>3, KillKeepsInvariant DEF RemoveDisconnected, HasStatus
<1>4. CASE Rest(p)
  BY <1>4, RestKeepsInvariant
<1>5. CASE Crawl(p)
  BY <1>5, CrawlKeepsInvariant
<1>6. CASE Eat(p)
  BY <1>6, EatKeepsInvariant
<1>7. CASE Crash(p)
  BY <1>7, KillKeepsInvariant DEF Crash, HasMove, HasStatus
<1> QED BY <1>1, <1>2, <1>3, <1>4, <1>5, <1>6, <1>7 DEF Turn

-----------------------------------------------------------------------------
(* The rest of the tick, and the theorems.                                 *)

LEMMA ClientOperationKeepsPlayers ==
  ASSUME PlayersTypeOK, NEW p \in PlayerIds, ClientOperation(p)
  PROVE  PlayersTypeOK' /\ \A q \in PlayerIds : HasSnake(q)' => HasSnake(q)
<1> USE DEF PlayersTypeOK, Players, Statuses, Directions, HasSnake, HasStatus
<1>1. CASE Register(p)
  BY <1>1 DEF Register
<1>2. CASE InUse(p) /\ Unregister(p)
  BY <1>2 DEF InUse, Unregister, SetStatus
<1>3. CASE Pause(p)
  BY <1>3 DEF Pause, SetStatus
<1>4. CASE Unpause(p)
  BY <1>4 DEF Unpause, SetStatus
<1>5. CASE Respawn(p)
  BY <1>5 DEF Respawn, SetStatus
<1>6. CASE InUse(p) /\ \E d \in Directions : SetPlayerDirection(p, d)
  BY <1>6 DEF InUse, SetPlayerDirection
<1> QED BY <1>1, <1>2, <1>3, <1>4, <1>5, <1>6 DEF ClientOperation

LEMMA BeginTickKeepsInvariant ==
  ASSUME IInv, BeginTick
  PROVE  IInv'
<1>1. /\ data \in Data /\ before \in Maps /\ players' = players
      /\ stage = "idle" /\ stage' = "players" /\ index' = 0
      /\ ticks' = ticks + 1 /\ ticks < MaxTicks /\ operations' = operations
      /\ before' = data.map
  BY DEF BeginTick, IInv, TypeOK
<1>2. tickedOnce' \in BOOLEAN
  BY DEF BeginTick, IInv, TypeOK
<1>3. /\ data'.map = data.map /\ data'.changelog = <<>>
      /\ data'.head = data.head /\ data'.tail = data.tail
      /\ data'.fruitsEaten = 0 /\ data' \in Data
  <2>1. <<>> \in Seq(Changes)
    OBVIOUS
  <2> QED BY <1>1, <2>1 DEF BeginTick, Data
<1>4. data.map \in Maps
  BY <1>1 DEF Data
<1>5. TypeOK'
  <2>1. PlayersTypeOK' /\ \A p \in PlayerIds : HasSnake(p)' <=> HasSnake(p)
    BY <1>1 DEF IInv, TypeOK, PlayersTypeOK, HasSnake, HasStatus
  <2>2. \A p \in PlayerIds : HasSnake(p)' => data'.head[p] # Unset /\ data'.tail[p] # Unset
    BY <1>3, <2>1 DEF IInv, TypeOK
  <2>3. /\ index' \in 0 .. MaxPlayers /\ ticks' \in 0 .. MaxTicks
        /\ operations' \in 0 .. MaxOperations
    BY <1>1, MaxPlayersAssumption, ServerTickAssumption DEF IInv, TypeOK
  <2> QED BY <1>1, <1>2, <1>3, <1>4, <2>1, <2>2, <2>3 DEF TypeOK, Stages
<1>6. DeadTiles(data.map) = {} /\ WallsOf(data.map) = Walls
  BY <1>1 DEF IInv
<1>7. Reported(data'.changelog, before', data'.map)
  BY <1>1, <1>3 DEF Reported, ChangelogGives
<1> QED BY <1>1, <1>3, <1>5, <1>6, <1>7, MaxPlayersAssumption DEF IInv

\* The steps of the main thread outside for_each that neither write a tile
\* nor touch a player.
LEMMA StageKeepsInvariant ==
  ASSUME IInv, UNCHANGED <<players, data, ticks, operations, before>>,
         tickedOnce' \in BOOLEAN, index' = 0, stage' \in Stages \ {"players"},
         DeadTiles(data.map) = {} \/ stage' = "sweep"
  PROVE  IInv'
<1>1. TypeOK'
  <2>1. PlayersTypeOK' /\ \A p \in PlayerIds : HasSnake(p)' <=> HasSnake(p)
    BY DEF IInv, TypeOK, PlayersTypeOK, HasSnake, HasStatus
  <2>2. index' \in 0 .. MaxPlayers
    BY MaxPlayersAssumption
  <2> QED BY <2>1, <2>2 DEF IInv, TypeOK
<1>2. Reported(data.changelog, before, data.map)' /\ WallsOf(data.map)' = Walls
  BY DEF IInv
<1>3. DeadTiles(data.map)' # {} => data.playerDied' /\ stage' \in {"players", "sweep"}
  BY DEF IInv
<1>4. data.fruitsEaten' <= MaxPlayers /\ stage' # "players"
  BY DEF IInv
<1> QED BY <1>1, <1>2, <1>3, <1>4 DEF IInv

LEMMA ClientStepKeepsInvariant ==
  ASSUME IInv, NEW p \in PlayerIds, ClientStep(p)
  PROVE  IInv'
<1>1. /\ stage # "players" /\ operations < MaxOperations /\ operations' = operations + 1
      /\ data' = data /\ stage' = stage /\ index' = index /\ ticks' = ticks /\ before' = before
  BY DEF ClientStep
<1>2. tickedOnce' \in BOOLEAN
  BY DEF ClientStep, IInv, TypeOK
<1>3. PlayersTypeOK' /\ \A q \in PlayerIds : HasSnake(q)' => HasSnake(q)
  BY ClientOperationKeepsPlayers DEF ClientStep, IInv, TypeOK
<1>4. operations' \in 0 .. MaxOperations
  BY <1>1, ServerTickAssumption DEF IInv, TypeOK
<1>5. TypeOK'
  BY <1>1, <1>2, <1>3, <1>4 DEF IInv, TypeOK
<1> QED BY <1>1, <1>5 DEF IInv

\* A tile is written and pushed after the turns: the sweep and the fruits.
LEMMA WriteKeepsInvariant ==
  ASSUME IInv, UNCHANGED <<players, ticks, operations, before>>,
         stage' = stage, stage \in {"sweep", "fruits"}, index' \in 0 .. MaxPlayers,
         Progress(data, data', before), tickedOnce' = tickedOnce
  PROVE  IInv'
<1>1. tickedOnce' \in BOOLEAN
  BY DEF IInv, TypeOK
<1>2. PlayersTypeOK' /\ \A p \in PlayerIds : HasSnake(p)' <=> HasSnake(p)
  BY DEF IInv, TypeOK, PlayersTypeOK, HasSnake, HasStatus
<1>3. TypeOK'
  BY <1>1, <1>2 DEF IInv, TypeOK, Progress
<1>4. DeadTiles(data.map)' # {} => data.playerDied' /\ stage' \in {"players", "sweep"}
  BY DEF IInv, Progress
<1>5. /\ Reported(data.changelog, before, data.map)'
      /\ WallsOf(data.map)' = Walls
      /\ data.fruitsEaten' <= MaxPlayers
      /\ stage' # "players"
  BY DEF IInv, Progress
<1> QED BY <1>3, <1>4, <1>5 DEF IInv

LEMMA SweepTileKeepsInvariant ==
  ASSUME IInv, SweepTile
  PROVE  IInv'
<1>1. PICK c \in DeadTiles(data.map) :
        data' = PushTile([data EXCEPT !.map = SetTileEmpty(@, c)], c)
  BY DEF SweepTile
<1>2. /\ stage' = stage /\ stage = "sweep" /\ index' = index /\ tickedOnce' = tickedOnce
      /\ UNCHANGED <<players, ticks, operations, before>>
  BY DEF SweepTile
<1>3. /\ data \in Data /\ before \in Maps /\ index \in 0 .. MaxPlayers
      /\ Reported(data.changelog, before, data.map)
  BY DEF IInv, TypeOK
<1>4. c \in Coordinates /\ data.map[c].type # "wall"
  BY DEF DeadTiles
<1> DEFINE t == [data.map[c] EXCEPT !.type = "empty"]
<1>5. t \in Tiles /\ t.type \notin {"wall", "dead"}
  BY <1>3, <1>4, TilesAreTiles DEF Tiles, TileTypes
<1>6. /\ data.head \in [PlayerIds -> Coordinates \cup {Unset}]
      /\ data.tail \in [PlayerIds -> Coordinates \cup {Unset}]
  BY <1>3 DEF Data
<1>7. data' = PushTile([data EXCEPT !.map = [@ EXCEPT ![c] = t],
                                    !.head = data.head, !.tail = data.tail], c)
  BY <1>1, <1>3, <1>4 DEF SetTileEmpty, Data, Maps
<1> HIDE DEF t
<1>8. Progress(data, data', before)
  BY <1>3, <1>4, <1>5, <1>6, <1>7, WriteIsProgress
<1> QED BY <1>2, <1>3, <1>8, WriteKeepsInvariant

LEMMA SpawnFruitKeepsInvariant ==
  ASSUME IInv, SpawnFruit
  PROVE  IInv'
<1>1. /\ stage' = stage /\ stage = "fruits" /\ index' = index + 1 /\ tickedOnce' = tickedOnce
      /\ index < data.fruitsEaten /\ data' \in FruitOutcomes(data)
      /\ UNCHANGED <<players, ticks, operations, before>>
  BY DEF SpawnFruit
<1>2. /\ data \in Data /\ before \in Maps /\ index \in 0 .. MaxPlayers
      /\ Reported(data.changelog, before, data.map)
      /\ data.fruitsEaten \in Nat /\ data.fruitsEaten <= MaxPlayers
  BY DEF IInv, TypeOK, Data
<1>3. index' \in 0 .. MaxPlayers
  BY <1>1, <1>2, MaxPlayersAssumption
<1>4. Progress(data, data', before)
  BY <1>1, <1>2, FruitProgress
<1> QED BY <1>1, <1>3, <1>4, WriteKeepsInvariant

LEMMA StepKeepsInvariant == IInv /\ [Next]_vars => IInv'
<1> SUFFICES ASSUME IInv, [Next]_vars PROVE IInv'
  OBVIOUS
<1>1. CASE BeginTick
  BY <1>1, BeginTickKeepsInvariant
<1>2. ASSUME NEW p \in PlayerIds, Turn(p) PROVE IInv'
  BY <1>2, TurnInvariant
<1>3. CASE ReleasePlayers
  <2>1. tickedOnce' \in BOOLEAN
    BY <1>3 DEF ReleasePlayers, IInv, TypeOK
  <2> QED BY <1>3, <2>1, StageKeepsInvariant DEF ReleasePlayers, Stages
<1>4. CASE SweepTile
  BY <1>4, SweepTileKeepsInvariant
<1>5. CASE EndSweep
  <2>1. /\ stage' = "fruits" /\ index' = index /\ stage = "sweep"
        /\ UNCHANGED <<players, data, ticks, operations, before>>
    BY <1>5 DEF EndSweep
  <2>2. DeadTiles(data.map) = {}
    BY <1>5 DEF EndSweep, IInv
  <2>3. tickedOnce' \in BOOLEAN
    BY <1>5 DEF EndSweep, IInv, TypeOK
  <2>4. PlayersTypeOK' /\ \A p \in PlayerIds : HasSnake(p)' <=> HasSnake(p)
    BY <2>1 DEF IInv, TypeOK, PlayersTypeOK, HasSnake, HasStatus
  <2>5. TypeOK'
    BY <2>1, <2>3, <2>4 DEF IInv, TypeOK, Stages
  <2> QED BY <2>1, <2>2, <2>5 DEF IInv
<1>6. CASE SpawnFruit
  BY <1>6, SpawnFruitKeepsInvariant
<1>7. CASE EndTick
  <2>1. /\ stage' \in Stages \ {"players"} /\ index' = 0 /\ stage = "fruits"
        /\ UNCHANGED <<players, data, ticks, operations, before>>
    BY <1>7 DEF EndTick, Stages
  <2>2. tickedOnce' \in BOOLEAN
    BY <1>7 DEF EndTick, IInv, TypeOK
  <2>3. DeadTiles(data.map) = {}
    BY <2>1 DEF IInv
  <2> QED BY <2>1, <2>2, <2>3, StageKeepsInvariant
<1>8. CASE Interrupt
  <2>1. /\ stage' = "ended" /\ index' = index /\ stage = "idle"
        /\ UNCHANGED <<players, data, ticks, operations, before>>
    BY <1>8 DEF Interrupt
  <2>2. tickedOnce' \in BOOLEAN
    BY <1>8 DEF Interrupt, IInv, TypeOK
  <2>3. PlayersTypeOK' /\ \A p \in PlayerIds : HasSnake(p)' <=> HasSnake(p)
    BY <2>1 DEF IInv, TypeOK, PlayersTypeOK, HasSnake, HasStatus
  <2>4. TypeOK'
    BY <2>1, <2>2, <2>3 DEF IInv, TypeOK, Stages
  <2> QED BY <2>1, <2>4 DEF IInv
<1>9. ASSUME NEW p \in PlayerIds, ClientStep(p) PROVE IInv'
  BY <1>9, ClientStepKeepsInvariant
<1>10. CASE UNCHANGED vars
  BY <1>10 DEF vars, IInv, TypeOK, PlayersTypeOK, HasSnake, HasStatus
<1> QED
  BY <1>1, <1>2, <1>3, <1>4, <1>5, <1>6, <1>7, <1>8, <1>9, <1>10
     DEF Next, ServerStep, Terminated

LEMMA InvariantHolds == Spec => []IInv
BY InitialInvariant, StepKeepsInvariant, PTL DEF Spec

\* The variables of the tick stay in their types, and the cached head and
\* tail of every player with a snake have been written: process_player never
\* reads an entry of player_data_cache_t that no spawn has set.
THEOREM TypeCorrect == Spec => []TypeOK
<1>1. IInv => TypeOK
  BY DEF IInv
<1> QED BY <1>1, InvariantHolds, PTL

\* No handler of server.c overwrites a wall or makes one.
THEOREM WallsAlwaysStand == Spec => []WallsStand
<1>1. IInv => WallsStand
  BY ServerTickAssumption DEF IInv, WallsOf, WallsStand
<1> QED BY <1>1, InvariantHolds, PTL

\* The sweep of server_tick (server.c:268-282) leaves no dead tile behind:
\* it is skipped only when no player has died.
THEOREM DeadTilesAreSwept == Spec => []NoDeadTilesBetweenTicks
<1>1. IInv => NoDeadTilesBetweenTicks
  BY DEF IInv, NoDeadTilesBetweenTicks
<1> QED BY <1>1, InvariantHolds, PTL

\* The handlers push every change they make, and the sweep the deaths they
\* leave out: who has the map of the tick before and applies the changelog
\* has the server's map.
THEOREM ChangelogIsComplete == Spec => []ChangelogLeadsToMap
<1>1. IInv => ChangelogLeadsToMap
  <2> SUFFICES ASSUME IInv, stage \in {"idle", "ended"}, NEW c \in Coordinates
               PROVE  ChangelogGives(data.changelog, before, data.map, c)
    BY DEF ChangelogLeadsToMap
  <2>1. DeadTiles(data.map) = {}
    BY DEF IInv
  <2> QED BY <2>1 DEF IInv, Reported, DeadTiles
<1> QED BY <1>1, InvariantHolds, PTL

-----------------------------------------------------------------------------
(* The slots as PlayerLifecycle has them.                                  *)

Status == [p \in PlayerIds |-> players[p].status]
Due == IF stage = "players" THEN {p \in PlayerIds : index <= p} ELSE {}

LEMMA LifecycleInit == Init => Lifecycle!Init
BY DEF Init, PlayerManagerInit, PlayerIds, Lifecycle!Init, Lifecycle!PlayerIds

LEMMA StatusIsSet ==
  ASSUME players \in Players, NEW p \in PlayerIds, NEW s \in Statuses, SetStatus(p, s)
  PROVE  Status' = [Status EXCEPT ![p] = s]
BY DEF Players, SetStatus, Status

\* Every branch of server_tick_process_player gives the slot a status that the
\* lifecycle has behind the one before.
LEMMA TurnIsAllowed ==
  ASSUME IInv, NEW p \in PlayerIds, Turn(p)
  PROVE  \E s \in Lifecycle!AfterTurn(players[p].status) : Status' = [Status EXCEPT ![p] = s]
<1>t. players \in Players /\ players[p].status \in Statuses
  BY PlayerFacts DEF Players
<1> USE DEF Lifecycle!AfterTurn, HasStatus, Statuses
<1>1. CASE Spawn(p)
  <2>1. PICK d : players' = [players EXCEPT ![p] = [status |-> "Playing", direction |-> d]]
    BY <1>1 DEF Spawn
  <2>2. Status' = [Status EXCEPT ![p] = "Playing"]
    BY <1>t, <2>1 DEF Status, Players
  <2> QED BY <1>1, <2>2 DEF Spawn
<1>2. CASE FailToSpawn(p)
  <2>1. Status' = [Status EXCEPT ![p] = "Dead"]
    BY <1>t, <1>2, StatusIsSet DEF FailToSpawn
  <2> QED BY <1>2, <2>1 DEF FailToSpawn
<1>3. CASE RemoveDisconnected(p)
  <2>1. Status' = [Status EXCEPT ![p] = "NotConnected"]
    BY <1>t, <1>3, StatusIsSet DEF RemoveDisconnected
  <2> QED BY <1>3, <2>1 DEF RemoveDisconnected
<1>4. CASE Crash(p)
  <2>1. Status' = [Status EXCEPT ![p] = "Dead"]
    BY <1>t, <1>4, StatusIsSet DEF Crash
  <2> QED BY <1>4, <2>1 DEF Crash, HasMove
<1>5. CASE Rest(p) \/ Crawl(p) \/ Eat(p)
  <2>1. UNCHANGED players /\ players[p].status \in {"NotConnected", "Paused", "Dead", "Playing"}
    BY <1>5 DEF Rest, Crawl, Eat, HasMove
  <2>2. Status' = [Status EXCEPT ![p] = players[p].status]
    BY <2>1 DEF Status
  <2> QED BY <2>1, <2>2
<1> QED BY <1>1, <1>2, <1>3, <1>4, <1>5 DEF Turn

LEMMA ServerStepIsAllowed ==
  ASSUME IInv, ServerStep
  PROVE  [Lifecycle!Next]_Lifecycle!lifecycleVars
<1> USE DEF Lifecycle!lifecycleVars
<1>1. CASE BeginTick
  <2>1. stage = "idle" /\ stage' = "players" /\ index' = 0 /\ UNCHANGED players
    BY <1>1 DEF BeginTick
  <2>2. Due' = PlayerIds
    BY <2>1, MaxPlayersAssumption DEF Due, PlayerIds
  <2>3. Lifecycle!Lock
    BY <2>1, <2>2 DEF Lifecycle!Lock, Lifecycle!PlayerIds, PlayerIds, Due
  <2> QED BY <2>3 DEF Lifecycle!Next
<1>2. ASSUME NEW p \in PlayerIds, Turn(p) PROVE [Lifecycle!Next]_Lifecycle!lifecycleVars
  <2>1. /\ stage = "players" /\ stage' = "players" /\ index = p /\ index' = p + 1
    BY <1>2 DEF Turn, Spawn, FailToSpawn, RemoveDisconnected, Rest, Crawl, Eat, Crash,
                HasMove, HasTurn, TurnDone
  <2>2. p \in Due /\ Due' = Due \ {p}
    BY <2>1, MaxPlayersAssumption DEF Due, PlayerIds
  <2>3. PICK s \in Lifecycle!AfterTurn(players[p].status) : Status' = [Status EXCEPT ![p] = s]
    BY <1>2, TurnIsAllowed
  <2>4. Lifecycle!Turn(p)
    BY <2>1, <2>2, <2>3 DEF Lifecycle!Turn, Status, Due
  <2> QED BY <2>4 DEF Lifecycle!Next, Lifecycle!PlayerIds, PlayerIds
<1>3. CASE ReleasePlayers
  <2>1. stage = "players" /\ stage' = "sweep" /\ index = MaxPlayers /\ UNCHANGED players
    BY <1>3 DEF ReleasePlayers
  <2>2. Due = {} /\ Due' = {}
    BY <2>1, MaxPlayersAssumption DEF Due, PlayerIds
  <2>3. Lifecycle!Unlock
    BY <2>1, <2>2 DEF Lifecycle!Unlock, Due
  <2> QED BY <2>3 DEF Lifecycle!Next
<1>4. CASE SweepTile \/ EndSweep \/ SpawnFruit
  <2>1. /\ UNCHANGED players /\ stage \in {"sweep", "fruits"} /\ stage' \in {"sweep", "fruits"}
    BY <1>4 DEF SweepTile, EndSweep, SpawnFruit
  <2> QED BY <2>1
<1>5. CASE EndTick \/ Interrupt
  <2>1. /\ UNCHANGED players /\ stage \in {"idle", "fruits"} /\ stage' \in {"idle", "ended"}
    BY <1>5 DEF EndTick, Interrupt
  <2>2. CASE stage' = "idle"
    BY <2>1, <2>2
  <2>3. CASE stage' = "ended"
    <3>1. Lifecycle!Stop
      BY <2>1, <2>3 DEF Lifecycle!Stop
    <3> QED BY <3>1 DEF Lifecycle!Next
  <2> QED BY <2>1, <2>2, <2>3
<1> QED BY <1>1, <1>2, <1>3, <1>4, <1>5 DEF ServerStep

LEMMA ClientStepIsAllowed ==
  ASSUME IInv, NEW p \in PlayerIds, ClientStep(p)
  PROVE  [Lifecycle!Next]_Lifecycle!lifecycleVars
<1>1. /\ stage # "players" /\ UNCHANGED <<stage, index>> /\ ClientOperation(p)
      /\ players \in Players /\ players[p].status \in Statuses
  BY PlayerFacts DEF ClientStep, Players
<1>2. ASSUME NEW s \in Lifecycle!AfterOperation(players[p].status),
             Status' = [Status EXCEPT ![p] = s]
      PROVE  Lifecycle!Next
  <2>1. Lifecycle!Operate(p)
    BY <1>1, <1>2 DEF Lifecycle!Operate, Status
  <2> QED BY <2>1 DEF Lifecycle!Next, Lifecycle!PlayerIds, PlayerIds
<1>3. CASE Register(p)
  <2>1. players[p].status = "NotConnected" /\ Status' = [Status EXCEPT ![p] = "Joining"]
    BY <1>1, <1>3 DEF Register, HasStatus, Status, Players
  <2> QED BY <1>2, <2>1 DEF Lifecycle!AfterOperation
<1>4. CASE InUse(p) /\ (Unregister(p) \/ Pause(p) \/ Unpause(p) \/ Respawn(p))
  <2>1. PICK s \in Statuses :
          SetStatus(p, s) /\ s \in Lifecycle!AfterOperation(players[p].status)
    BY <1>1, <1>4
    DEF InUse, Unregister, Pause, Unpause, Respawn, HasStatus, Statuses, Lifecycle!AfterOperation
  <2> QED BY <1>1, <1>2, <2>1, StatusIsSet
<1>5. ASSUME NEW d, SetPlayerDirection(p, d) PROVE [Lifecycle!Next]_Lifecycle!lifecycleVars
  <2>1. Status' = Status
    BY <1>1, <1>5 DEF SetPlayerDirection, Status, Players
  <2> QED BY <1>1, <2>1 DEF Status, Lifecycle!lifecycleVars
<1> QED BY <1>1, <1>3, <1>4, <1>5 DEF ClientOperation

\* The branches of server_tick_process_player and the operations of
\* player_manager.c change the status of a slot only along the edges of the
\* lifecycle, one turn of each slot in a tick, and no operation between the turns.
THEOREM TickImplementsLifecycle == Spec => ImplementsLifecycle
<1>1. IInv /\ [Next]_vars => [Lifecycle!Next]_Lifecycle!lifecycleVars
  <2>1. UNCHANGED vars => UNCHANGED Lifecycle!lifecycleVars
    BY DEF vars, Lifecycle!lifecycleVars
  <2> QED BY <2>1, ServerStepIsAllowed, ClientStepIsAllowed DEF Next, Terminated
<1> QED BY LifecycleInit, InvariantHolds, <1>1, PTL DEF Spec, ImplementsLifecycle, Lifecycle!Spec

-----------------------------------------------------------------------------
(* The end of the game.                                                    *)

Plays(p) == HasStatus(p, {"Playing", "Paused"})

\* no_player_alive speaks for the slots that have had their turn, and still does
\* after the turns: an operation of a client revives nobody.  When the process
\* has failed no turn follows.
Alive ==
  /\ stage # "players" => ~data.failed
  /\ ~data.failed /\ data.noPlayerAlive =>
       /\ stage = "players" => \A p \in PlayerIds : p < index => ~Plays(p)
       /\ stage \in {"sweep", "fruits"} => \A p \in PlayerIds : ~Plays(p)

LEMMA AliveInit == Init => Alive
BY DEF Init, Alive

\* A turn of a slot that plays clears the flag, unless it brings the process down.
LEMMA TurnTellsAlive ==
  ASSUME IInv, NEW p \in PlayerIds, Turn(p), ~data'.failed, data'.noPlayerAlive
  PROVE  ~data.failed /\ data.noPlayerAlive /\ ~Plays(p)'
<1>t. data \in Data /\ players \in Players
  BY PlayerFacts
<1>1. CASE Spawn(p)
  <2>0. PICK head \in SpawnSites(data.map) :
          \E d \in {SpawnPlayer(data, p, head)} \cup FruitOutcomes(SpawnPlayer(data, p, head)) :
            data' = SeenAlive(d)
    BY <1>1 DEF Spawn
  <2>1. PICK d : /\ data' = SeenAlive(d)
                 /\ d = SpawnPlayer(data, p, head) \/ d \in FruitOutcomes(SpawnPlayer(data, p, head))
    BY <2>0
  <2>2. SpawnPlayer(data, p, head) \in Data
    BY PlayerFacts, SpawnProgress DEF Progress
  <2>3. d \in Data
    BY <2>1, <2>2, PlayerFacts, SpawnProgress, FruitProgress DEF Progress
  <2>4. ~data'.noPlayerAlive
    BY <2>1, <2>3 DEF SeenAlive, Data
  <2> QED BY <2>4
<1>2. CASE FailToSpawn(p)
  BY <1>t, <1>2 DEF FailToSpawn, SetStatus, Players, Plays, HasStatus
<1>3. CASE RemoveDisconnected(p) \/ Crash(p)
  <2>1. data' = KillPlayer(data, p) /\ (SetStatus(p, "NotConnected") \/ SetStatus(p, "Dead"))
    BY <1>3 DEF RemoveDisconnected, Crash
  <2>2. ~data.failed
    BY <1>t, <2>1 DEF KillPlayer, Data
  <2>3. data.noPlayerAlive
    BY <1>t, <2>1 DEF KillPlayer, Data
  <2>4. ~Plays(p)'
    BY <1>t, <2>1 DEF SetStatus, Players, Plays, HasStatus
  <2> QED BY <2>2, <2>3, <2>4
<1>4. CASE Rest(p)
  <2>1. UNCHANGED players
    BY <1>4 DEF Rest
  <2>2. CASE HasStatus(p, {"Paused"})
    <3>1. ~data'.noPlayerAlive
      BY <1>t, <1>4, <2>2 DEF Rest, SeenAlive, Data
    <3> QED BY <3>1
  <2>3. CASE ~HasStatus(p, {"Paused"})
    <3>1. data' = data
      BY <1>4, <2>3 DEF Rest
    <3>2. ~Plays(p)'
      BY <1>4, <2>1, <2>3 DEF Rest, Plays, HasStatus
    <3> QED BY <3>1, <3>2
  <2> QED BY <2>2, <2>3
<1>5. CASE Crawl(p)
  <2> DEFINE moved == MovePlayerTail(MovePlayerHead(data, p, NextHead(p)), p)
  <2>1. data' = IF moved.failed THEN moved ELSE SeenAlive(moved)
    BY <1>5 DEF Crawl
  <2>2. moved \in Data
    <3>1. HasMove(p) /\ data.head[p] \in Coordinates /\ data.tail[p] \in Coordinates
          /\ NextHead(p) \in Coordinates /\ data.map[NextHead(p)].type # "wall"
      BY <1>5, MoverFacts DEF Crawl, HasMove, TileAhead, IsTailVacated
    <3>2. Progress(data, MovePlayerHead(data, p, NextHead(p)), before)
          /\ MovePlayerHead(data, p, NextHead(p)).tail = data.tail
      BY <3>1, PlayerFacts, HeadProgress
    <3> DEFINE e == MovePlayerHead(data, p, NextHead(p))
    <3> HIDE DEF e
    <3>3. e \in Data /\ Reported(e.changelog, before, e.map) /\ e.tail[p] \in Coordinates
      BY <3>1, <3>2 DEF Progress, e
    <3>4. Progress(e, MovePlayerTail(e, p), before)
      BY <3>3, PlayerFacts, TailProgress
    <3> QED BY <3>4 DEF Progress, e
  <2> HIDE DEF moved
  <2>3. ~moved.failed
    BY <2>1
  <2>4. ~data'.noPlayerAlive
    BY <2>1, <2>2, <2>3 DEF SeenAlive, Data
  <2> QED BY <2>4
<1>6. CASE Eat(p)
  <2> DEFINE e == MovePlayerHead(data, p, NextHead(p))
  <2>1. data' = [SeenAlive(e) EXCEPT !.fruitsEaten = @ + 1]
    BY <1>6 DEF Eat
  <2>2. e \in Data
    <3>1. HasMove(p) /\ data.head[p] \in Coordinates
          /\ NextHead(p) \in Coordinates /\ data.map[NextHead(p)].type # "wall"
      BY <1>6, MoverFacts DEF Eat, HasMove, TileAhead
    <3> QED BY <3>1, PlayerFacts, HeadProgress DEF Progress
  <2> HIDE DEF e
  <2>3. ~data'.noPlayerAlive
    BY <2>1, <2>2 DEF SeenAlive, Data
  <2> QED BY <2>3
<1> QED BY <1>1, <1>2, <1>3, <1>4, <1>5, <1>6 DEF Turn

\* What a turn does to the counter, and to the other slots.
LEMMA TurnIsOne ==
  ASSUME NEW p \in PlayerIds, Turn(p)
  PROVE  /\ stage = "players" /\ stage' = "players" /\ index = p /\ index' = p + 1
         /\ players \in Players => \A q \in PlayerIds \ {p} : players'[q] = players[q]
<1>1. HasTurn(p) /\ TurnDone
  BY DEF Turn, Spawn, FailToSpawn, RemoveDisconnected, Rest, Crawl, Eat, Crash, HasMove
<1>2. \/ UNCHANGED players
      \/ \E s : SetStatus(p, s)
      \/ \E r : players' = [players EXCEPT ![p] = r]
  BY DEF Turn, Spawn, FailToSpawn, RemoveDisconnected, Rest, Crawl, Eat, Crash
<1>3. players \in Players => \A q \in PlayerIds \ {p} : players'[q] = players[q]
  BY <1>2 DEF SetStatus, Players
<1> QED BY <1>1, <1>3 DEF HasTurn, TurnDone

LEMMA AliveStep == IInv /\ Alive /\ [Next]_vars => Alive'
<1> SUFFICES ASSUME IInv, Alive, [Next]_vars PROVE Alive'
  OBVIOUS
<1>t. data \in Data /\ players \in Players /\ index \in 0 .. MaxPlayers
  BY DEF IInv, TypeOK, PlayersTypeOK
<1>1. CASE BeginTick
  BY <1>1, MaxPlayersAssumption DEF BeginTick, Alive, PlayerIds
<1>2. ASSUME NEW p \in PlayerIds, Turn(p) PROVE Alive'
  <2>1. /\ stage = "players" /\ stage' = "players" /\ index = p /\ index' = p + 1
        /\ \A q \in PlayerIds \ {p} : players'[q] = players[q]
    BY <1>t, <1>2, TurnIsOne
  <2>2. ASSUME ~data'.failed, data'.noPlayerAlive, NEW q \in PlayerIds, q < index'
        PROVE  ~Plays(q)'
    <3>1. ~data.failed /\ data.noPlayerAlive /\ ~Plays(p)'
      BY <1>2, <2>2, TurnTellsAlive
    <3>2. CASE q # p
      <4>1. q < p
        BY <2>1, <2>2, <3>2 DEF PlayerIds
      <4>2. ~Plays(q)
        BY <2>1, <3>1, <4>1 DEF Alive
      <4> QED BY <2>1, <3>2, <4>2 DEF Plays, HasStatus
    <3> QED BY <3>1, <3>2
  <2> QED BY <2>1, <2>2 DEF Alive
<1>3. CASE ReleasePlayers
  <2>1. /\ stage = "players" /\ stage' = "sweep" /\ index = MaxPlayers
        /\ UNCHANGED <<players, data>> /\ ~data.failed
    BY <1>3 DEF ReleasePlayers
  <2>2. \A p \in PlayerIds : p < index
    BY <2>1, MaxPlayersAssumption DEF PlayerIds
  <2> QED BY <2>1, <2>2 DEF Alive, Plays, HasStatus
<1>4. CASE SweepTile \/ SpawnFruit
  <2>1. /\ stage' = stage /\ stage \in {"sweep", "fruits"} /\ UNCHANGED players
    BY <1>4 DEF SweepTile, SpawnFruit
  <2>2. \/ data' = data
        \/ \E c, map : data' = PushTile([data EXCEPT !.map = map], c)
    BY <1>4 DEF SweepTile, SpawnFruit, FruitOutcomes
  <2>3. data'.failed = data.failed
    BY <1>t, <2>2 DEF PushTile, Data
  <2>4. data'.noPlayerAlive = data.noPlayerAlive
    BY <1>t, <2>2 DEF PushTile, Data
  <2> QED BY <2>1, <2>3, <2>4 DEF Alive, Plays, HasStatus
<1>5. CASE EndSweep
  BY <1>5 DEF EndSweep, Alive, Plays, HasStatus
<1>6. CASE EndTick \/ Interrupt
  <2>1. UNCHANGED data /\ stage # "players" /\ stage' \in {"idle", "ended"}
    BY <1>6 DEF EndTick, Interrupt
  <2> QED BY <2>1 DEF Alive
<1>7. ASSUME NEW p \in PlayerIds, ClientStep(p) PROVE Alive'
  <2>1. stage # "players" /\ UNCHANGED <<data, stage>> /\ ClientOperation(p)
    BY <1>7 DEF ClientStep
  <2>2. \A q \in PlayerIds : Plays(q)' => Plays(q)
    BY <1>t, <2>1
    DEF ClientOperation, Register, Unregister, Pause, Unpause, Respawn, SetPlayerDirection,
        SetStatus, HasStatus, Plays, Players
  <2> QED BY <2>1, <2>2 DEF Alive
<1>8. CASE UNCHANGED vars
  BY <1>8 DEF vars, Alive, Plays, HasStatus
<1> QED BY <1>1, <1>2, <1>3, <1>4, <1>5, <1>6, <1>7, <1>8 DEF Next, ServerStep, Terminated

\* The tick returns that nobody is alive (server.c:290) only after the turn of
\* every slot has said so, and no operation of a client (player_manager.c) since
\* has made one that plays: the game does not end over a player.
THEOREM OnlyTheDeadEndTheGame == Spec => OnlyADeadGameEnds
<1>1. IInv /\ Alive /\ [Next]_vars =>
        [stage = "fruits" /\ stage' = "ended" =>
           \A p \in PlayerIds : ~HasStatus(p, {"Playing", "Paused"})]_vars
  <2> SUFFICES ASSUME IInv, Alive, [Next]_vars, stage = "fruits", stage' = "ended",
                      NEW p \in PlayerIds
               PROVE  ~Plays(p)
    BY DEF Plays
  <2>1. ~ \E q \in PlayerIds : Turn(q)
    BY TurnIsOne
  <2>2. EndTick
    BY <2>1 DEF Next, ServerStep, BeginTick, ReleasePlayers, SweepTile, EndSweep, SpawnFruit,
                Interrupt, ClientStep, Terminated, vars
  <2>3. data.noPlayerAlive
    BY <2>2 DEF EndTick
  <2> QED BY <2>3 DEF Alive
<1>2. Spec => []Alive
  BY AliveInit, AliveStep, InvariantHolds, PTL DEF Spec
<1> QED BY <1>1, <1>2, InvariantHolds, PTL DEF Spec, OnlyADeadGameEnds

-----------------------------------------------------------------------------
(* Paused snakes.                                                          *)

\* A tile that is not q's becomes another one that is not.
LEMMA OtherTileIsWritten ==
  ASSUME NEW map \in Maps, NEW q \in PlayerIds, NEW c \in Coordinates, NEW t,
         ~IsTileOf(map, q, c), t.type # "player" \/ t.player # q
  PROVE  TilesOf([map EXCEPT ![c] = t], q) = TilesOf(map, q)
BY DEF Maps, TilesOf, IsTileOf

\* Each handler, for a snake that is not the one it moves.
LEMMA HeadKeepsOthers ==
  ASSUME NEW d \in Data, NEW p \in PlayerIds, NEW q \in PlayerIds, p # q,
         NEW next \in Coordinates, ~IsTileOf(d.map, q, next)
  PROVE  TilesOf(MovePlayerHead(d, p, next).map, q) = TilesOf(d.map, q)
<1> DEFINE t == [order |-> d.map[d.head[p]].order + 1, type |-> "player", player |-> p]
<1>1. MovePlayerHead(d, p, next).map = [d.map EXCEPT ![next] = t]
  BY DEF MovePlayerHead, PushTile, SetTilePlayer, Data
<1>2. d.map \in Maps /\ t.player # q
  BY DEF Data
<1> HIDE DEF t
<1> QED BY <1>1, <1>2, OtherTileIsWritten

LEMMA TailKeepsOthers ==
  ASSUME NEW d \in Data, NEW p \in PlayerIds, NEW q \in PlayerIds, p # q,
         d.tail[p] \in Coordinates
  PROVE  TilesOf(MovePlayerTail(d, p).map, q) = TilesOf(d.map, q)
<1> DEFINE e == ClearTail(d, p)
           c == d.tail[p]
           t == [d.map[c] EXCEPT !.type = "empty"]
<1>1. d.map \in Maps /\ d.map[c] \in Tiles
  BY TilesAreTiles
<1>2. e = d \/ (IsTileOf(d.map, p, c) /\ e = PushTile([d EXCEPT !.map = SetTileEmpty(@, c)], c))
  BY DEF ClearTail
<1>3. e.map = d.map \/ (IsTileOf(d.map, p, c) /\ e.map = [d.map EXCEPT ![c] = t])
  <2>1. PushTile([d EXCEPT !.map = SetTileEmpty(@, c)], c).map = SetTileEmpty(d.map, c)
    BY DEF PushTile, Data
  <2>2. SetTileEmpty(d.map, c) = [d.map EXCEPT ![c] = t]
    BY <1>1 DEF SetTileEmpty, Maps
  <2> QED BY <1>2, <2>1, <2>2
<1>4. TilesOf(e.map, q) = TilesOf(d.map, q)
  <2>1. t.type # "player"
    BY <1>1 DEF Tiles
  <2>2. IsTileOf(d.map, p, c) => ~IsTileOf(d.map, q, c)
    BY DEF IsTileOf
  <2> HIDE DEF t, e
  <2> QED BY <1>1, <1>3, <2>1, <2>2, OtherTileIsWritten
<1>5. e \in Data
  <2>1. PushTile([d EXCEPT !.map = SetTileEmpty(@, c)], c) \in Data
    <3>1. t \in Tiles
      BY <1>1 DEF Tiles, TileTypes
    <3>2. [d.map EXCEPT ![c] = t] \in Maps
      BY <1>1, <3>1 DEF Maps
    <3> DEFINE map == SetTileEmpty(d.map, c)
    <3>3. map \in Maps /\ map[c] \in Tiles
      BY <1>1, <3>1, <3>2 DEF SetTileEmpty, Maps
    <3>4. Append(d.changelog, [coordinates |-> c, tile |-> map[c]]) \in Seq(Changes)
      BY <3>3, PushedChange DEF Data
    <3>5. PushTile([d EXCEPT !.map = SetTileEmpty(@, c)], c) =
            [d EXCEPT !.map = map,
                      !.changelog = Append(d.changelog, [coordinates |-> c, tile |-> map[c]])]
      BY DEF PushTile, Data
    <3> HIDE DEF map
    <3> QED BY <3>3, <3>4, <3>5 DEF Data
  <2> QED BY <1>2, <2>1
<1> HIDE DEF e
<1>6. MovePlayerTail(d, p).map = e.map
  BY <1>5 DEF MovePlayerTail, PushTile, Data, e
<1> QED BY <1>4, <1>6

LEMMA FruitKeepsSnakes ==
  ASSUME NEW d \in Data, NEW q \in PlayerIds, NEW e \in FruitOutcomes(d)
  PROVE  TilesOf(e.map, q) = TilesOf(d.map, q)
<1>1. ASSUME NEW c \in EmptyTiles(d.map),
             e = PushTile([d EXCEPT !.map = SetTileFruit(@, c)], c)
      PROVE  TilesOf(e.map, q) = TilesOf(d.map, q)
  <2> DEFINE t == [d.map[c] EXCEPT !.type = "fruit"]
  <2>1. c \in Coordinates /\ ~IsTileOf(d.map, q, c)
    BY DEF EmptyTiles, IsTileEmpty, IsTileOf
  <2>2. d.map \in Maps /\ d.map[c] \in Tiles
    BY <2>1, TilesAreTiles
  <2>3. t.type # "player"
    BY <2>2 DEF Tiles
  <2>4. e.map = [d.map EXCEPT ![c] = t]
    BY <1>1, <2>1, <2>2 DEF PushTile, SetTileFruit, Data, Maps
  <2> HIDE DEF t
  <2> QED BY <2>1, <2>2, <2>3, <2>4, OtherTileIsWritten
<1> QED BY <1>1 DEF FruitOutcomes

LEMMA SpawnKeepsOthers ==
  ASSUME NEW d \in Data, NEW p \in PlayerIds, NEW q \in PlayerIds, p # q,
         NEW head \in SpawnSites(d.map)
  PROVE  TilesOf(SpawnPlayer(d, p, head).map, q) = TilesOf(d.map, q)
<1> DEFINE tail     == MoveInDirection(head, EmptyNeighborDirection(d.map, head))
           headTile == [order |-> 1, type |-> "player", player |-> p]
           tailTile == [order |-> 0, type |-> "player", player |-> p]
           map      == [d.map EXCEPT ![head] = headTile]
<1>1. /\ head \in Coordinates /\ IsTileEmpty(d.map, head)
      /\ tail \in Coordinates /\ IsTileEmpty(d.map, tail)
  BY EmptyNeighborFound DEF SpawnSites, EmptyTiles
<1>2. d.map \in Maps
  BY DEF Data
<1>3. SpawnPlayer(d, p, head).map = [map EXCEPT ![tail] = tailTile]
  BY DEF SpawnPlayer, PushTile, SetTilePlayer, Data
<1> HIDE DEF tail
<1>4. map \in Maps /\ TilesOf(map, q) = TilesOf(d.map, q)
  <2>1. headTile \in Tiles
    BY DEF Tiles, TileTypes
  <2>2. ~IsTileOf(d.map, q, head)
    BY <1>1 DEF IsTileEmpty, IsTileOf
  <2>3. map \in Maps
    BY <1>1, <1>2, <2>1 DEF Maps
  <2> QED BY <1>1, <1>2, <2>2, <2>3, OtherTileIsWritten
<1>5. ~IsTileOf(map, q, tail)
  BY <1>1, <1>2 DEF IsTileEmpty, IsTileOf, Maps
<1> HIDE DEF map
<1>6. TilesOf([map EXCEPT ![tail] = tailTile], q) = TilesOf(map, q)
  BY <1>1, <1>4, <1>5, OtherTileIsWritten
<1> QED BY <1>3, <1>4, <1>6

LEMMA KillKeepsOthers ==
  ASSUME NEW d \in Data, NEW p \in PlayerIds, NEW q \in PlayerIds, p # q
  PROVE  TilesOf(KillPlayer(d, p).map, q) = TilesOf(d.map, q)
<1> DEFINE hit == ConnectedTiles(d.map, p, d.head[p])
<1>1. KillPlayer(d, p).map = MarkPlayerAsDead(d.map, p, d.head[p])
  BY DEF KillPlayer, Data
<1>2. \A c \in hit : d.map[c].player # q
  BY DEF ConnectedTiles, TilesOf, IsTileOf
<1>3. \A c \in Coordinates : MarkPlayerAsDead(d.map, p, d.head[p])[c] =
        IF c \in hit THEN [d.map[c] EXCEPT !.type = "dead"] ELSE d.map[c]
  BY DEF MarkPlayerAsDead
<1> HIDE DEF hit
<1>4. ASSUME NEW c \in Coordinates
      PROVE  IsTileOf(MarkPlayerAsDead(d.map, p, d.head[p]), q, c) <=> IsTileOf(d.map, q, c)
  <2>1. d.map[c] \in Tiles
    BY TilesAreTiles
  <2> QED BY <1>2, <1>3, <2>1 DEF IsTileOf, Tiles
<1> QED BY <1>1, <1>4 DEF TilesOf

\* A turn touches no snake whose player pauses: a snake ahead may lose its last
\* tile only to its owner, or when it is not paused.
LEMMA TurnKeepsPaused ==
  ASSUME IInv, NEW p \in PlayerIds, Turn(p), NEW q \in PlayerIds, HasStatus(q, {"Paused"})
  PROVE  TilesOf(data'.map, q) = TilesOf(data.map, q)
<1>t. data \in Data /\ players \in Players
  BY PlayerFacts
<1>1. CASE Spawn(p)
  <2>0. PICK head \in SpawnSites(data.map) :
          \E d \in {SpawnPlayer(data, p, head)} \cup FruitOutcomes(SpawnPlayer(data, p, head)) :
            data' = SeenAlive(d)
    BY <1>1 DEF Spawn
  <2>1. PICK d : /\ data' = SeenAlive(d)
                 /\ d = SpawnPlayer(data, p, head) \/ d \in FruitOutcomes(SpawnPlayer(data, p, head))
    BY <2>0
  <2>2. p # q
    BY <1>1 DEF Spawn, HasStatus
  <2> DEFINE e == SpawnPlayer(data, p, head)
  <2>3. e \in Data
    BY PlayerFacts, SpawnProgress DEF Progress
  <2>4. TilesOf(e.map, q) = TilesOf(data.map, q)
    BY <1>t, <2>2, SpawnKeepsOthers
  <2> HIDE DEF e
  <2>5. d \in Data
    BY <2>1, <2>3, PlayerFacts, SpawnProgress, FruitProgress DEF Progress, e
  <2>6. TilesOf(d.map, q) = TilesOf(e.map, q)
    BY <2>1, <2>3, FruitKeepsSnakes DEF e
  <2>7. data'.map = d.map
    BY <2>1, <2>5 DEF SeenAlive, Data
  <2> QED BY <2>4, <2>6, <2>7
<1>2. CASE RemoveDisconnected(p) \/ Crash(p)
  <2>1. data' = KillPlayer(data, p) /\ p # q
    BY <1>2 DEF RemoveDisconnected, Crash, HasMove, HasStatus
  <2> QED BY <1>t, <2>1, KillKeepsOthers
<1>3. CASE FailToSpawn(p) \/ Rest(p)
  BY <1>t, <1>3 DEF FailToSpawn, Rest, SeenAlive, Data
<1>4. CASE Crawl(p)
  <2> DEFINE e     == MovePlayerHead(data, p, NextHead(p))
             moved == MovePlayerTail(e, p)
  <2>1. /\ HasMove(p) /\ data.head[p] \in Coordinates /\ data.tail[p] \in Coordinates
        /\ NextHead(p) \in Coordinates /\ data.map[NextHead(p)].type # "wall"
    BY <1>4, MoverFacts DEF Crawl, HasMove, TileAhead, IsTailVacated
  <2>2. p # q
    BY <2>1 DEF HasMove, HasStatus
  <2>3. ~IsTileOf(data.map, q, NextHead(p))
    <3>1. CASE TileAhead(p).type = "empty"
      BY <3>1 DEF TileAhead, IsTileOf
    <3>2. CASE IsTailVacated(p)
      <4>1. TileAhead(p).player = p \/ players[TileAhead(p).player].status # "Paused"
        BY <3>2 DEF IsTailVacated
      <4> QED BY <2>2, <4>1 DEF TileAhead, IsTileOf, HasStatus
    <3> QED BY <1>4, <3>1, <3>2 DEF Crawl
  <2>4. TilesOf(e.map, q) = TilesOf(data.map, q)
    BY <1>t, <2>1, <2>2, <2>3, HeadKeepsOthers
  <2>5. Progress(data, e, before) /\ e.tail = data.tail
    BY <2>1, PlayerFacts, HeadProgress
  <2>6. data' = IF moved.failed THEN moved ELSE SeenAlive(moved)
    BY <1>4 DEF Crawl
  <2> HIDE DEF e
  <2>7. e \in Data /\ Reported(e.changelog, before, e.map) /\ e.tail[p] \in Coordinates
    BY <2>1, <2>5 DEF Progress
  <2>8. TilesOf(moved.map, q) = TilesOf(e.map, q)
    BY <2>2, <2>7, TailKeepsOthers
  <2>9. moved \in Data
    BY <2>7, PlayerFacts, TailProgress DEF Progress
  <2> HIDE DEF moved
  <2>10. data'.map = moved.map
    BY <2>6, <2>9 DEF SeenAlive, Data
  <2> QED BY <2>4, <2>8, <2>10
<1>5. CASE Eat(p)
  <2> DEFINE e == MovePlayerHead(data, p, NextHead(p))
  <2>1. /\ HasMove(p) /\ data.head[p] \in Coordinates
        /\ NextHead(p) \in Coordinates /\ data.map[NextHead(p)].type = "fruit"
    BY <1>5, MoverFacts DEF Eat, HasMove, TileAhead
  <2>2. p # q
    BY <2>1 DEF HasMove, HasStatus
  <2>3. TilesOf(e.map, q) = TilesOf(data.map, q)
    BY <1>t, <2>1, <2>2, HeadKeepsOthers DEF IsTileOf
  <2>4. e \in Data
    BY <2>1, PlayerFacts, HeadProgress DEF Progress
  <2>5. data' = [SeenAlive(e) EXCEPT !.fruitsEaten = @ + 1]
    BY <1>5 DEF Eat
  <2> HIDE DEF e
  <2>6. data'.map = e.map
    BY <2>4, <2>5 DEF SeenAlive, Data
  <2> QED BY <2>3, <2>6
<1> QED BY <1>1, <1>2, <1>3, <1>4, <1>5 DEF Turn

LEMMA StepKeepsPaused ==
  ASSUME IInv, [Next]_vars, NEW q \in PlayerIds, HasStatus(q, {"Paused"})
  PROVE  TilesOf(data'.map, q) = TilesOf(data.map, q)
<1>t. data \in Data /\ data.map \in Maps
  BY PlayerFacts DEF Data
<1>1. ASSUME NEW p \in PlayerIds, Turn(p) PROVE TilesOf(data'.map, q) = TilesOf(data.map, q)
  BY <1>1, TurnKeepsPaused
<1>2. CASE BeginTick
  BY <1>t, <1>2 DEF BeginTick, Data
<1>3. CASE SweepTile
  <2>1. PICK c \in DeadTiles(data.map) :
          data' = PushTile([data EXCEPT !.map = SetTileEmpty(@, c)], c)
    BY <1>3 DEF SweepTile
  <2> DEFINE t == [data.map[c] EXCEPT !.type = "empty"]
  <2>2. c \in Coordinates /\ ~IsTileOf(data.map, q, c)
    BY DEF DeadTiles, IsTileOf
  <2>3. t.type # "player"
    BY <1>t, <2>2, TilesAreTiles DEF Tiles
  <2>4. data'.map = [data.map EXCEPT ![c] = t]
    BY <1>t, <2>1, <2>2 DEF PushTile, SetTileEmpty, Data, Maps
  <2> HIDE DEF t
  <2> QED BY <1>t, <2>2, <2>3, <2>4, OtherTileIsWritten
<1>4. CASE SpawnFruit
  BY <1>t, <1>4, FruitKeepsSnakes DEF SpawnFruit
<1>5. CASE UNCHANGED data
  BY <1>5
<1> QED BY <1>1, <1>2, <1>3, <1>4, <1>5
        DEF Next, ServerStep, ReleasePlayers, EndSweep, EndTick, Interrupt, ClientStep,
            Terminated, vars

\* A snake is where it was as long as its player pauses, whoever comes by, dies
\* or spawns: the last tile of a paused snake is not taken (server.c:225).
THEOREM PausedSnakesAreSafe == Spec => PausedSnakesStay
<1>1. IInv /\ [Next]_vars =>
        [\A p \in PlayerIds :
           HasStatus(p, {"Paused"}) => TilesOf(data.map, p)' = TilesOf(data.map, p)]_vars
  <2>1. \A p \in PlayerIds : TilesOf(data.map, p)' = TilesOf(data'.map, p)
    BY DEF TilesOf, IsTileOf
  <2> QED BY <2>1, StepKeepsPaused
<1> QED BY <1>1, InvariantHolds, PTL DEF Spec, PausedSnakesStay

-----------------------------------------------------------------------------
(* Part 2: the snakes.                                                     *)

-----------------------------------------------------------------------------
(* Trails.  The orders of the tiles T, from the one of last up to that of  *)
(* head, lead from tile to neighbouring tile.                              *)

Trail(T, map, head, last) ==
  /\ T \subseteq Coordinates /\ head \in T /\ last \in T
  /\ \A c \in T : map[last].order <= map[c].order /\ map[c].order <= map[head].order
  /\ \A c, e \in T : map[c].order = map[e].order => c = e
  /\ \A c \in T : c # head =>
       \E e \in T : map[e].order = map[c].order + 1 /\ e \in Neighbors(c)

LEMMA OrdersAreNumbers ==
  ASSUME NEW map \in Maps
  PROVE  \A c \in Coordinates : map[c].order \in Nat
BY DEF Maps, Tiles

LEMMA NeighborsAreMutual ==
  ASSUME NEW c \in Coordinates, NEW e \in Neighbors(c)
  PROVE  e \in Coordinates /\ c \in Neighbors(e)
<1>1. PICK d \in Directions : e = MoveInDirection(c, d)
  BY DEF Neighbors
<1>2. PICK i \in 0 .. Height - 1, j \in 0 .. Width - 1 : c = <<i, j>>
  BY DEF Coordinates
<1>3. c[1] = i /\ c[2] = j /\ Height \in Nat \ {0} /\ Width \in Nat \ {0}
  BY <1>2, MapAssumption
<1>4. MoveInDirection(e, DirectionOpposite(d)) = c
  <2>1. CASE d = "up"
    BY <1>1, <1>2, <1>3, <2>1 DEF MoveInDirection, DirectionOpposite
  <2>2. CASE d = "down"
    BY <1>1, <1>2, <1>3, <2>2 DEF MoveInDirection, DirectionOpposite
  <2>3. CASE d = "left"
    BY <1>1, <1>2, <1>3, <2>3 DEF MoveInDirection, DirectionOpposite
  <2>4. CASE d = "right"
    BY <1>1, <1>2, <1>3, <2>4 DEF MoveInDirection, DirectionOpposite
  <2> QED BY <2>1, <2>2, <2>3, <2>4 DEF Directions
<1>5. DirectionOpposite(d) \in Directions
  BY OppositeIsDirection
<1> QED BY <1>1, <1>4, <1>5, MoveStaysOnMap DEF Neighbors

\* Only the orders count.
LEMMA TrailIsKept ==
  ASSUME NEW T, NEW map, NEW new, NEW head, NEW last, Trail(T, map, head, last),
         \A c \in T : new[c].order = map[c].order
  PROVE  Trail(T, new, head, last)
BY DEF Trail

\* A new head, on a tile that is not on the trail.
LEMMA TrailGrows ==
  ASSUME NEW T, NEW map \in Maps, NEW new, NEW head, NEW last, Trail(T, map, head, last),
         NEW next \in Coordinates \ T, next \in Neighbors(head),
         \A c \in T : new[c].order = map[c].order,
         new[next].order = map[head].order + 1
  PROVE  Trail(T \cup {next}, new, next, last)
<1>1. \A c \in T : map[c].order \in Nat /\ map[head].order \in Nat
  BY OrdersAreNumbers DEF Trail
<1>2. /\ T \subseteq Coordinates /\ head \in T /\ last \in T
      /\ \A c \in T : map[last].order <= map[c].order /\ map[c].order <= map[head].order
  BY DEF Trail
<1>3. \A c \in T \cup {next} :
        new[last].order <= new[c].order /\ new[c].order <= new[next].order
  BY <1>1, <1>2
<1>4. \A c, e \in T \cup {next} : new[c].order = new[e].order => c = e
  BY <1>1, <1>2 DEF Trail
<1>5. ASSUME NEW c \in T \cup {next}, c # next
      PROVE  \E e \in T \cup {next} : new[e].order = new[c].order + 1 /\ e \in Neighbors(c)
  <2>1. CASE c = head
    BY <1>2, <2>1
  <2>2. CASE c # head
    BY <1>5, <2>2 DEF Trail
  <2> QED BY <2>1, <2>2
<1> QED BY <1>2, <1>3, <1>4, <1>5 DEF Trail

\* The last tile leaves the trail to the one before it.
LEMMA TrailShrinks ==
  ASSUME NEW T, NEW map \in Maps, NEW head, NEW last, Trail(T, map, head, last), last # head
  PROVE  \E l \in T \ {last} :
           /\ map[l].order = map[last].order + 1
           /\ last \in Neighbors(l)
           /\ Trail(T \ {last}, map, head, l)
<1>1. \A c \in T : map[c].order \in Nat
  BY OrdersAreNumbers DEF Trail
<1>2. /\ T \subseteq Coordinates /\ head \in T /\ last \in T
      /\ \A c \in T : map[last].order <= map[c].order /\ map[c].order <= map[head].order
      /\ \A c, e \in T : map[c].order = map[e].order => c = e
  BY DEF Trail
<1>3. PICK l \in T : map[l].order = map[last].order + 1 /\ l \in Neighbors(last)
  BY <1>2 DEF Trail
<1>4. l # last /\ last \in Neighbors(l)
  BY <1>1, <1>2, <1>3, NeighborsAreMutual
<1>5. \A c \in T \ {last} : map[l].order <= map[c].order
  BY <1>1, <1>2, <1>3
<1>6. ASSUME NEW c \in T \ {last}, c # head
      PROVE  \E e \in T \ {last} : map[e].order = map[c].order + 1 /\ e \in Neighbors(c)
  <2>1. PICK e \in T : map[e].order = map[c].order + 1 /\ e \in Neighbors(c)
    BY <1>6 DEF Trail
  <2>2. e # last
    BY <1>1, <1>2, <2>1
  <2> QED BY <2>1, <2>2
<1>7. Trail(T \ {last}, map, head, l)
  BY <1>2, <1>3, <1>4, <1>5, <1>6 DEF Trail
<1> QED BY <1>3, <1>4, <1>7

\* The search from a tile beside the last one of a trail finds that one.
LEMMA LastIsFound ==
  ASSUME NEW map \in Maps, NEW p, NEW head, NEW last, NEW c \in Coordinates,
         Trail(TilesOf(map, p), map, head, last), c \in Neighbors(last)
  PROVE  /\ HasPlayerNeighbor(map, p, c)
         /\ PlayerNeighborWithLowestOrder(map, p, c) = last
<1> DEFINE at(i) == MoveInDirection(c, Compass[i])
           S     == LowestOrderIndices(map, p, c)
<1>1. \A i \in 1 .. 4 : at(i) \in Coordinates
  BY CompassIsDirections, MoveStaysOnMap
<1>2. /\ last \in TilesOf(map, p) /\ last \in Coordinates
      /\ \A e \in TilesOf(map, p) : map[last].order <= map[e].order
      /\ \A e \in TilesOf(map, p) : map[last].order = map[e].order => e = last
  BY DEF Trail
<1>3. PICK k \in 1 .. 4 : at(k) = last
  <2>1. last \in Neighbors(c)
    BY <1>2, NeighborsAreMutual
  <2>2. PICK d \in Directions : last = MoveInDirection(c, d)
    BY <2>1 DEF Neighbors
  <2>3. \E i \in 1 .. 4 : Compass[i] = d
    BY DEF Directions, Compass
  <2> QED BY <2>2, <2>3
<1>4. S = {i \in 1 .. 4 : at(i) = last}
  <2> DEFINE own == {i \in 1 .. 4 : IsTileOf(map, p, at(i))}
  <2>1. S = {i \in own : \A j \in own : map[at(i)].order <= map[at(j)].order}
    BY DEF LowestOrderIndices
  <2>2. \A i \in own : at(i) \in TilesOf(map, p)
    BY <1>1 DEF TilesOf
  <2>3. k \in own
    BY <1>2, <1>3 DEF TilesOf
  <2> HIDE DEF S, at
  <2>4. \A i \in own : map[at(i)].order \in Nat
    BY <1>1, OrdersAreNumbers
  <2>5. ASSUME NEW i \in S PROVE i \in 1 .. 4 /\ at(i) = last
    <3>1. i \in own /\ map[at(i)].order <= map[last].order
      BY <1>3, <2>1, <2>3
    <3>2. map[last].order <= map[at(i)].order /\ map[last].order \in Nat
      BY <1>2, <2>2, <3>1, OrdersAreNumbers
    <3> QED BY <1>2, <2>2, <2>4, <3>1, <3>2
  <2>6. ASSUME NEW i \in 1 .. 4, at(i) = last PROVE i \in S
    <3>1. i \in own
      BY <1>2, <2>6 DEF TilesOf
    <3> QED BY <1>2, <2>1, <2>2, <2>6, <3>1
  <2> QED BY <2>5, <2>6
<1>5. S # {} /\ FirstOf(S) \in S
  <2> HIDE DEF at
  <2>1. S \in SUBSET (1 .. 4) /\ k \in S
    BY <1>3, <1>4
  <2> QED BY <2>1, FirstIsMember
<1>6. at(FirstOf(S)) = last
  <2> HIDE DEF at
  <2> QED BY <1>4, <1>5
<1> QED BY <1>5, <1>6 DEF HasPlayerNeighbor, PlayerNeighborWithLowestOrder

-----------------------------------------------------------------------------
(* A snake: a trail with its entries of the cache.  The cached tail is its *)
(* last tile, or the tile behind it that another snake has taken.          *)

SnakeOn(map, p, head, tail) ==
  \E last \in Coordinates :
    /\ Trail(TilesOf(map, p), map, head, last)
    /\ \/ tail = last /\ last # head
       \/ ~IsTileOf(map, p, tail) /\ tail \in Neighbors(last)

\* Tiles change that are not p's, and do not become p's.
LEMMA SnakeIsKept ==
  ASSUME NEW map \in Maps, NEW p \in PlayerIds, NEW c \in Coordinates, NEW t,
         ~IsTileOf(map, p, c), t.type # "player" \/ t.player # p,
         NEW head, NEW tail \in Coordinates, SnakeOn(map, p, head, tail)
  PROVE  SnakeOn([map EXCEPT ![c] = t], p, head, tail)
<1> DEFINE new == [map EXCEPT ![c] = t]
<1>1. TilesOf(new, p) = TilesOf(map, p)
  BY OtherTileIsWritten
<1>2. \A e \in TilesOf(map, p) : new[e] = map[e]
  BY DEF TilesOf, IsTileOf, Maps
<1>3. IsTileOf(new, p, tail) <=> IsTileOf(map, p, tail)
  BY <1>1 DEF TilesOf
<1>4. PICK last \in Coordinates :
        /\ Trail(TilesOf(map, p), map, head, last)
        /\ \/ tail = last /\ last # head
           \/ ~IsTileOf(map, p, tail) /\ tail \in Neighbors(last)
  BY DEF SnakeOn
<1> HIDE DEF new
<1>5. Trail(TilesOf(new, p), new, head, last)
  BY <1>1, <1>2, <1>4, TrailIsKept
<1> QED BY <1>3, <1>4, <1>5 DEF SnakeOn, new

\* Another snake takes the last tile.
LEMMA SnakeLosesItsTail ==
  ASSUME NEW map \in Maps, NEW p \in PlayerIds, NEW t, t.type # "player" \/ t.player # p,
         NEW head, NEW tail \in Coordinates, SnakeOn(map, p, head, tail),
         IsTileOf(map, p, tail)
  PROVE  /\ SnakeOn([map EXCEPT ![tail] = t], p, head, tail)
         /\ ~IsTileOf([map EXCEPT ![tail] = t], p, tail)
<1> DEFINE new == [map EXCEPT ![tail] = t]
<1>1. Trail(TilesOf(map, p), map, head, tail) /\ tail # head
  BY DEF SnakeOn
<1>2. PICK l \in TilesOf(map, p) \ {tail} :
        /\ tail \in Neighbors(l)
        /\ Trail(TilesOf(map, p) \ {tail}, map, head, l)
  BY <1>1, TrailShrinks
<1>3. TilesOf(new, p) = TilesOf(map, p) \ {tail} /\ ~IsTileOf(new, p, tail)
  BY DEF TilesOf, IsTileOf, Maps
<1>4. \A e \in TilesOf(map, p) \ {tail} : new[e].order = map[e].order
  BY DEF Maps
<1> HIDE DEF new
<1>5. Trail(TilesOf(new, p), new, head, l)
  BY <1>2, <1>3, <1>4, TrailIsKept
<1>6. l \in Coordinates
  BY <1>2 DEF TilesOf
<1>7. SnakeOn(new, p, head, tail) /\ ~IsTileOf(new, p, tail)
  BY <1>2, <1>3, <1>5, <1>6 DEF SnakeOn
<1> QED BY <1>7 DEF new

\* The map after the head of p has moved from head to next.
HeadMoved(map, p, head, next) == SetTilePlayer(map, next, p, map[head].order + 1)

HasNewHead(new, map, p, head, next) ==
  /\ new \in Maps /\ new[next].order = map[head].order + 1
  /\ \A c \in Coordinates \ {next} : new[c] = map[c]
  /\ TilesOf(new, p) = TilesOf(map, p) \cup {next}

LEMMA HeadMovedTiles ==
  ASSUME NEW map \in Maps, NEW p \in PlayerIds, NEW head \in Coordinates, NEW next \in Coordinates
  PROVE  HasNewHead(HeadMoved(map, p, head, next), map, p, head, next)
<1> DEFINE t   == [order |-> map[head].order + 1, type |-> "player", player |-> p]
           new == [map EXCEPT ![next] = t]
<1>1. t \in Tiles
  BY OrdersAreNumbers DEF Tiles, TileTypes
<1>2. /\ new \in Maps /\ new[next].order = map[head].order + 1
      /\ \A c \in Coordinates \ {next} : new[c] = map[c]
      /\ TilesOf(new, p) = TilesOf(map, p) \cup {next}
  BY <1>1 DEF Maps, TilesOf, IsTileOf
<1> QED BY <1>2 DEF HasNewHead, HeadMoved, SetTilePlayer

\* The head moves on while the cached tail stays: the snake has grown, unless
\* the head has come to stand on the cached tail.
LEMMA SnakeGrows ==
  ASSUME NEW map \in Maps, NEW p \in PlayerIds,
         NEW head \in Coordinates, NEW tail \in Coordinates, SnakeOn(map, p, head, tail),
         NEW next \in Neighbors(head), ~IsTileOf(map, p, next), next # tail
  PROVE  SnakeOn(HeadMoved(map, p, head, next), p, next, tail)
<1> DEFINE new == HeadMoved(map, p, head, next)
<1>1. next \in Coordinates
  BY NeighborsAreMutual
<1>2. PICK last \in Coordinates :
        /\ Trail(TilesOf(map, p), map, head, last)
        /\ \/ tail = last
           \/ ~IsTileOf(map, p, tail) /\ tail \in Neighbors(last)
  BY DEF SnakeOn
<1>3. /\ new[next].order = map[head].order + 1
      /\ \A c \in Coordinates \ {next} : new[c] = map[c]
      /\ TilesOf(new, p) = TilesOf(map, p) \cup {next}
      /\ next \notin TilesOf(map, p) /\ TilesOf(map, p) \subseteq Coordinates
  <2>1. HasNewHead(new, map, p, head, next)
    BY <1>1, HeadMovedTiles
  <2> HIDE DEF new
  <2>2. next \notin TilesOf(map, p) /\ TilesOf(map, p) \subseteq Coordinates
    BY DEF TilesOf
  <2> QED BY <2>1, <2>2 DEF HasNewHead
<1> HIDE DEF new
<1>4. Trail(TilesOf(new, p), new, next, last)
  <2>1. \A c \in TilesOf(map, p) : new[c].order = map[c].order
    BY <1>3
  <2> QED BY <1>1, <1>2, <1>3, <2>1, TrailGrows
<1>5. IsTileOf(new, p, tail) <=> IsTileOf(map, p, tail)
  BY <1>3 DEF IsTileOf
<1>6. tail = last => last # next
  OBVIOUS
<1> QED BY <1>2, <1>4, <1>5, <1>6 DEF SnakeOn, new

\* The map after ClearTail.
TailCleared(map, p, head, tail) ==
  IF IsTileOf(map, p, tail) /\ head # tail THEN SetTileEmpty(map, tail) ELSE map

\* The head moves on, onto the last tile if need be, the last tile goes, and
\* the search finds the next one.
LEMMA SnakeCrawls ==
  ASSUME NEW map \in Maps, NEW p \in PlayerIds,
         NEW head \in Coordinates, NEW tail \in Coordinates, SnakeOn(map, p, head, tail),
         NEW next \in Neighbors(head), ~IsTileOf(map, p, next) \/ next = tail
  PROVE  LET new == TailCleared(HeadMoved(map, p, head, next), p, next, tail)
         IN  /\ HasPlayerNeighbor(new, p, tail)
             /\ SnakeOn(new, p, next, PlayerNeighborWithLowestOrder(new, p, tail))
             /\ IsTileOf(new, p, PlayerNeighborWithLowestOrder(new, p, tail))
<1> DEFINE moved == HeadMoved(map, p, head, next)
           new   == TailCleared(moved, p, next, tail)
           T     == TilesOf(map, p)
<1>1. next \in Coordinates
  BY NeighborsAreMutual
<1>2. PICK last \in Coordinates :
        /\ Trail(T, map, head, last)
        /\ \/ tail = last /\ last # head
           \/ ~IsTileOf(map, p, tail) /\ tail \in Neighbors(last)
  BY DEF SnakeOn
<1>3. /\ moved \in Maps /\ moved[next].order = map[head].order + 1
      /\ \A c \in Coordinates \ {next} : moved[c] = map[c]
      /\ TilesOf(moved, p) = T \cup {next}
      /\ T \subseteq Coordinates
      /\ \A c \in T : map[c].order \in Nat
  <2>1. HasNewHead(moved, map, p, head, next)
    BY <1>1, HeadMovedTiles
  <2> HIDE DEF moved
  <2>2. T \subseteq Coordinates
    BY DEF TilesOf
  <2> QED BY <2>1, <2>2, OrdersAreNumbers DEF HasNewHead
<1>4. SUFFICES \E l \in Coordinates :
                 /\ new \in Maps /\ l # next
                 /\ Trail(TilesOf(new, p), new, next, l)
                 /\ tail \in Neighbors(l)
  <2> HIDE DEF new
  <2>1. PICK l \in Coordinates :
          /\ new \in Maps /\ l # next
          /\ Trail(TilesOf(new, p), new, next, l)
          /\ tail \in Neighbors(l)
    BY <1>4
  <2>2. /\ HasPlayerNeighbor(new, p, tail)
        /\ PlayerNeighborWithLowestOrder(new, p, tail) = l
    BY <2>1, LastIsFound
  <2>3. SnakeOn(new, p, next, l) /\ IsTileOf(new, p, l)
    BY <2>1 DEF SnakeOn, Trail, TilesOf
  <2>4. /\ HasPlayerNeighbor(new, p, tail)
        /\ SnakeOn(new, p, next, PlayerNeighborWithLowestOrder(new, p, tail))
        /\ IsTileOf(new, p, PlayerNeighborWithLowestOrder(new, p, tail))
    BY <2>2, <2>3
  <2> QED BY <2>4 DEF new
<1>5. CASE tail = last /\ next # tail
  <2>1. next \notin T /\ last # head /\ last \in T
    BY <1>2, <1>5 DEF TilesOf, IsTileOf, Trail
  <2>2. Trail(T \cup {next}, moved, next, last)
    <3> HIDE DEF moved
    <3>1. \A c \in T : moved[c].order = map[c].order
      BY <1>3, <2>1
    <3> QED BY <1>1, <1>2, <1>3, <2>1, <3>1, TrailGrows
  <2>3. PICK l \in (T \cup {next}) \ {last} :
          /\ moved[l].order = moved[last].order + 1
          /\ last \in Neighbors(l)
          /\ Trail((T \cup {next}) \ {last}, moved, next, l)
    <3> HIDE DEF moved
    <3> QED BY <1>3, <1>5, <2>2, TrailShrinks
  <2>4. l # next
    <3>1. map[last].order # map[head].order /\ map[last].order \in Nat /\ map[head].order \in Nat
      BY <1>2, <1>3, <2>1 DEF Trail
    <3>2. moved[last].order = map[last].order
      BY <1>2, <1>3, <1>5
    <3> HIDE DEF moved
    <3> QED BY <1>3, <2>3, <3>1, <3>2
  <2>5. new = SetTileEmpty(moved, tail)
    <3>1. IsTileOf(moved, p, tail)
      BY <1>3, <1>5, <2>1 DEF TilesOf
    <3> QED BY <1>5, <3>1 DEF TailCleared
  <2>6. /\ new \in Maps
        /\ TilesOf(new, p) = (T \cup {next}) \ {last}
        /\ \A c \in Coordinates : new[c].order = moved[c].order
    <3> HIDE DEF moved, new
    <3>1. \A c \in Coordinates : moved[c] \in Tiles
      BY <1>3 DEF Maps
    <3>2. \A c \in Coordinates :
            new[c] = IF c = tail THEN [moved[c] EXCEPT !.type = "empty"] ELSE moved[c]
      BY <1>3, <2>5 DEF SetTileEmpty, Maps
    <3>3. new \in Maps
      <4>1. [moved[tail] EXCEPT !.type = "empty"] \in Tiles
        BY <3>1 DEF Tiles, TileTypes
      <4> QED BY <1>3, <2>5, <4>1 DEF SetTileEmpty, Maps
    <3>4. \A c \in Coordinates : new[c].order = moved[c].order
      BY <3>1, <3>2 DEF Tiles
    <3>5. \A c \in Coordinates : IsTileOf(new, p, c) <=> IsTileOf(moved, p, c) /\ c # tail
      BY <3>1, <3>2 DEF Tiles, IsTileOf
    <3>6. TilesOf(new, p) = TilesOf(moved, p) \ {last}
      BY <1>5, <3>5 DEF TilesOf
    <3> QED BY <1>3, <3>3, <3>4, <3>6
  <2> HIDE DEF new, moved
  <2>7. Trail(TilesOf(new, p), new, next, l)
    <3>1. \A c \in (T \cup {next}) \ {last} : new[c].order = moved[c].order
      BY <1>1, <1>3, <2>6
    <3> QED BY <2>3, <2>6, <3>1, TrailIsKept
  <2>8. l \in Coordinates
    BY <1>1, <1>3, <2>3
  <2> QED BY <1>5, <2>3, <2>4, <2>6, <2>7, <2>8
<1>6. CASE tail = last /\ next = tail
  <2>1. last # head /\ last \in T
    BY <1>2, <1>6 DEF TilesOf, IsTileOf, Trail
  <2>2. PICK l \in T \ {last} :
          /\ last \in Neighbors(l)
          /\ Trail(T \ {last}, map, head, l)
    BY <1>2, <2>1, TrailShrinks
  <2>3. new = moved
    BY <1>6 DEF TailCleared
  <2>4. Trail((T \ {last}) \cup {next}, moved, next, l)
    <3> HIDE DEF moved
    <3>1. \A c \in T \ {last} : moved[c].order = map[c].order
      BY <1>3, <1>6
    <3>2. next \in Coordinates \ (T \ {last})
      BY <1>1, <1>6
    <3> QED BY <1>3, <2>2, <3>1, <3>2, TrailGrows
  <2>5. TilesOf(moved, p) = (T \ {last}) \cup {next}
    BY <1>3, <1>6, <2>1
  <2> HIDE DEF new, moved
  <2> QED BY <1>3, <1>6, <2>2, <2>3, <2>4, <2>5
<1>7. CASE ~IsTileOf(map, p, tail) /\ tail \in Neighbors(last)
  <2>1. next \notin T
    BY <1>7 DEF TilesOf
  <2>2. new = moved
    <3>1. IsTileOf(moved, p, tail) => next = tail
      BY <1>3, <1>7 DEF IsTileOf
    <3> QED BY <3>1 DEF TailCleared
  <2>3. Trail(T \cup {next}, moved, next, last)
    <3> HIDE DEF moved
    <3>1. \A c \in T : moved[c].order = map[c].order
      BY <1>3, <2>1
    <3> QED BY <1>1, <1>2, <1>3, <2>1, <3>1, TrailGrows
  <2>4. last # next
    BY <1>2, <2>1 DEF Trail
  <2> HIDE DEF new, moved
  <2> QED BY <1>3, <1>7, <2>2, <2>3, <2>4
<1> QED BY <1>2, <1>5, <1>6, <1>7

\* The constants of a field where a tile is not its own neighbour.  constants.h
\* wants at least ten rows and ten columns, which map_loader.c checks of a map
\* file; nothing checks the sizes that a server is given as arguments.
Roomy == Height > 1 /\ Width > 1

LEMMA NeighborIsElsewhere ==
  ASSUME Roomy, NEW c \in Coordinates, NEW d \in Directions
  PROVE  MoveInDirection(c, d) # c
<1>1. PICK i \in 0 .. Height - 1, j \in 0 .. Width - 1 : c = <<i, j>>
  BY DEF Coordinates
<1>2. c[1] = i /\ c[2] = j /\ Height \in Nat /\ Width \in Nat /\ Height > 1 /\ Width > 1
  BY <1>1, MapAssumption DEF Roomy
<1>3. CASE d = "up" \/ d = "down"
  <2>1. MoveInDirection(c, d)[1] # i
    BY <1>2, <1>3 DEF MoveInDirection
  <2> QED BY <1>2, <2>1
<1>4. CASE d = "left" \/ d = "right"
  <2>1. MoveInDirection(c, d)[2] # j
    BY <1>2, <1>4 DEF MoveInDirection
  <2> QED BY <1>2, <2>1
<1> QED BY <1>3, <1>4 DEF Directions

\* The two tiles of a snake that enters.
LEMMA SnakeEnters ==
  ASSUME NEW map \in Maps, NEW p \in PlayerIds, TilesOf(map, p) = {},
         NEW head \in Coordinates, NEW tail \in Neighbors(head), tail # head
  PROVE  SnakeOn(SetTilePlayer(SetTilePlayer(map, head, p, 1), tail, p, 0), p, head, tail)
<1> DEFINE new == SetTilePlayer(SetTilePlayer(map, head, p, 1), tail, p, 0)
<1>1. tail \in Coordinates /\ head \in Neighbors(tail)
  BY NeighborsAreMutual
<1>2. TilesOf(new, p) = {head, tail}
  BY <1>1 DEF SetTilePlayer, Maps, TilesOf, IsTileOf
<1>3. new[head].order = 1 /\ new[tail].order = 0
  BY <1>1 DEF SetTilePlayer, Maps
<1> HIDE DEF new
<1>4. Trail({head, tail}, new, head, tail)
  BY <1>1, <1>3 DEF Trail
<1> QED BY <1>1, <1>2, <1>4 DEF SnakeOn, new

\* The flood of map_mark_player_as_dead follows the trail from its head to its
\* last tile: nothing of the snake is left.
LEMMA FloodTakesAll ==
  ASSUME NEW map \in Maps, NEW p \in PlayerIds, NEW head, NEW tail, SnakeOn(map, p, head, tail)
  PROVE  ConnectedTiles(map, p, head) = TilesOf(map, p)
<1> DEFINE T == TilesOf(map, p)
<1>1. PICK last : Trail(T, map, head, last)
  BY DEF SnakeOn
<1>2. /\ T \subseteq Coordinates /\ head \in T
      /\ \A c \in T : map[c].order \in Nat /\ map[c].order <= map[head].order
  BY <1>1, OrdersAreNumbers DEF Trail
<1>3. ASSUME NEW S \in SUBSET T, head \in S, \A c \in S : Neighbors(c) \cap T \subseteq S
      PROVE  T \subseteq S
  <2> DEFINE left == {map[head].order - map[c].order : c \in T \ S}
  <2>1. SUFFICES ASSUME T \ S # {} PROVE FALSE
    OBVIOUS
  <2>2. left \subseteq Nat /\ left # {}
    BY <1>2, <2>1
  <2>3. PICK n \in left : \A m \in left : ~(<<m, n>> \in OpToRel(<, Nat))
    <3> HIDE DEF left
    <3> QED BY <2>2, NatLessThanWellFounded, WFMin
  <2>4. \A m \in left : ~(m < n)
    BY <2>2, <2>3 DEF OpToRel
  <2>5. PICK c \in T \ S : n = map[head].order - map[c].order
    OBVIOUS
  <2>6. PICK e \in T : map[e].order = map[c].order + 1 /\ e \in Neighbors(c)
    BY <1>1, <1>3, <2>5 DEF Trail
  <2>7. e \in S
    <3>1. e \in T \ S => map[head].order - map[e].order \in left
      OBVIOUS
    <3> HIDE DEF left
    <3> QED BY <1>2, <2>4, <2>5, <2>6, <3>1
  <2>8. c \in Neighbors(e)
    BY <1>2, <2>5, <2>6, NeighborsAreMutual
  <2> QED BY <1>3, <2>5, <2>7, <2>8
<1>4. ConnectedTiles(map, p, head) \subseteq T
  BY DEF ConnectedTiles
<1>5. T \subseteq ConnectedTiles(map, p, head)
  BY <1>2, <1>3 DEF ConnectedTiles
<1> QED BY <1>4, <1>5

LEMMA SnakeDies ==
  ASSUME NEW map \in Maps, NEW p \in PlayerIds, NEW head, NEW tail, SnakeOn(map, p, head, tail)
  PROVE  /\ \A c \in Coordinates :
              MarkPlayerAsDead(map, p, head)[c] =
                IF IsTileOf(map, p, c) THEN [map[c] EXCEPT !.type = "dead"] ELSE map[c]
         /\ TilesOf(MarkPlayerAsDead(map, p, head), p) = {}
<1> DEFINE new == MarkPlayerAsDead(map, p, head)
<1>1. \A c \in Coordinates :
        new[c] = IF c \in TilesOf(map, p) THEN [map[c] EXCEPT !.type = "dead"] ELSE map[c]
  BY FloodTakesAll DEF MarkPlayerAsDead
<1>2. \A c \in Coordinates : map[c] \in Tiles
  BY DEF Maps
<1> HIDE DEF new
<1>3. \A c \in Coordinates :
        new[c] = IF IsTileOf(map, p, c) THEN [map[c] EXCEPT !.type = "dead"] ELSE map[c]
  BY <1>1 DEF TilesOf
<1>4. TilesOf(new, p) = {}
  BY <1>2, <1>3 DEF TilesOf, IsTileOf, Tiles
<1> QED BY <1>3, <1>4 DEF new

-----------------------------------------------------------------------------
(* The handlers of server.c, field by field.                               *)

Cache == [PlayerIds -> Coordinates \cup {Unset}]

\* A handler has made of d the data e with this map and these entries of the
\* cache, has pushed at most n tiles, and has not failed.
Made(d, e, map, head, tail, n) ==
  /\ e \in Data /\ e.map = map /\ e.head = head /\ e.tail = tail
  /\ e.failed = d.failed /\ e.fruitsEaten = d.fruitsEaten
  /\ Len(e.changelog) <= Len(d.changelog) + n

LEMMA MadeTwice ==
  ASSUME NEW d \in Data, NEW e, NEW f, NEW map, NEW head, NEW tail, NEW n \in Nat, NEW k \in Nat,
         Made(d, e, e.map, e.head, e.tail, n), Made(e, f, map, head, tail, k)
  PROVE  Made(d, f, map, head, tail, n + k)
<1>1. f.failed = d.failed
  BY DEF Made
<1>2. /\ f \in Data /\ f.map = map /\ f.head = head /\ f.tail = tail
      /\ f.fruitsEaten = d.fruitsEaten
  BY DEF Made
<1>3. e \in Data /\ f \in Data
  BY DEF Made
<1>4. Len(d.changelog) \in Nat /\ Len(e.changelog) \in Nat /\ Len(f.changelog) \in Nat
  BY <1>3 DEF Data
<1>5. Len(f.changelog) <= Len(d.changelog) + (n + k)
  <2> DEFINE size(x) == Len(x.changelog)
  <2>1. size(e) <= size(d) + n /\ size(f) <= size(e) + k
    BY DEF Made
  <2>2. size(d) \in Nat /\ size(e) \in Nat /\ size(f) \in Nat
    BY <1>4
  <2> HIDE DEF size
  <2>3. size(f) <= size(d) + (n + k)
    BY <2>1, <2>2
  <2> QED BY <2>3 DEF size
<1> QED BY <1>1, <1>2, <1>5 DEF Made

\* A handler that writes the map and the cache and pushes one tile.
LEMMA PushMakes ==
  ASSUME NEW d \in Data, NEW map \in Maps, NEW head \in Cache, NEW tail \in Cache,
         NEW c \in Coordinates
  PROVE  Made(d, PushTile([d EXCEPT !.map = map, !.head = head, !.tail = tail], c),
              map, head, tail, 1)
<1> DEFINE log == Append(d.changelog, [coordinates |-> c, tile |-> map[c]])
           e   == PushTile([d EXCEPT !.map = map, !.head = head, !.tail = tail], c)
<1>1. log \in Seq(Changes) /\ Len(log) = Len(d.changelog) + 1 /\ Len(d.changelog) \in Nat
  BY PushedChange DEF Data, Maps
<1>2. e = [d EXCEPT !.map = map, !.head = head, !.tail = tail, !.changelog = log]
  BY DEF PushTile, Data
<1> HIDE DEF e, log
<1>3. /\ e \in Data /\ e.map = map /\ e.head = head /\ e.tail = tail
      /\ e.changelog = log /\ e.fruitsEaten = d.fruitsEaten
  BY <1>1, <1>2 DEF Data, Cache
<1>4. e.failed = d.failed
  BY <1>2 DEF Data
<1>5. Len(e.changelog) <= Len(d.changelog) + 1
  BY <1>1, <1>3
<1>6. Made(d, e, map, head, tail, 1)
  BY <1>3, <1>4, <1>5 DEF Made
<1> QED BY <1>6 DEF e

LEMMA HeadMakes ==
  ASSUME NEW d \in Data, NEW p \in PlayerIds, NEW next \in Coordinates,
         d.head[p] \in Coordinates
  PROVE  Made(d, MovePlayerHead(d, p, next), HeadMoved(d.map, p, d.head[p], next),
              [d.head EXCEPT ![p] = next], d.tail, 1)
<1> DEFINE map  == HeadMoved(d.map, p, d.head[p], next)
           head == [d.head EXCEPT ![p] = next]
<1>1. map \in Maps
  BY HeadMovedTiles DEF HasNewHead, Data
<1>2. head \in Cache /\ d.tail \in Cache /\ d.head \in Cache
  BY DEF Data, Cache
<1>3. MovePlayerHead(d, p, next) =
        PushTile([d EXCEPT !.map = map, !.head = head, !.tail = d.tail], next)
  BY DEF MovePlayerHead, HeadMoved, SetTilePlayer, Data
<1> HIDE DEF map, head
<1>4. Made(d, MovePlayerHead(d, p, next), map, head, d.tail, 1)
  BY <1>1, <1>2, <1>3, PushMakes
<1> QED BY <1>4 DEF map, head

LEMMA SetTileEmptyTiles ==
  ASSUME NEW map \in Maps, NEW c \in Coordinates
  PROVE  /\ SetTileEmpty(map, c) \in Maps
         /\ SetTileEmpty(map, c) = [map EXCEPT ![c] = [map[c] EXCEPT !.type = "empty"]]
         /\ [map[c] EXCEPT !.type = "empty"].type = "empty"
<1>1. [map[c] EXCEPT !.type = "empty"] \in Tiles
  BY DEF Maps, Tiles, TileTypes
<1>2. SetTileEmpty(map, c) = [map EXCEPT ![c] = [map[c] EXCEPT !.type = "empty"]]
  BY DEF SetTileEmpty, Maps
<1>3. SetTileEmpty(map, c) \in Maps
  BY <1>1, <1>2 DEF Maps
<1>4. [map[c] EXCEPT !.type = "empty"].type = "empty"
  BY DEF Maps, Tiles
<1> QED BY <1>2, <1>3, <1>4

LEMMA MadeNothing ==
  ASSUME NEW d \in Data, NEW n \in Nat
  PROVE  Made(d, d, d.map, d.head, d.tail, n)
<1>1. Len(d.changelog) \in Nat
  BY DEF Data
<1> QED BY <1>1 DEF Made

LEMMA ClearMakes ==
  ASSUME NEW d \in Data, NEW p \in PlayerIds, d.tail[p] \in Coordinates
  PROVE  Made(d, ClearTail(d, p), TailCleared(d.map, p, d.head[p], d.tail[p]), d.head, d.tail, 1)
<1> DEFINE c == d.tail[p]
           e == ClearTail(d, p)
<1>1. CASE IsTileOf(d.map, p, c) /\ d.head[p] # c
  <2> DEFINE map == SetTileEmpty(d.map, c)
  <2>1. map \in Maps /\ d.head \in Cache /\ d.tail \in Cache
    BY SetTileEmptyTiles DEF Data, Cache
  <2>2. e = PushTile([d EXCEPT !.map = map, !.head = d.head, !.tail = d.tail], c)
    BY <1>1 DEF ClearTail, Data
  <2>3. map = TailCleared(d.map, p, d.head[p], d.tail[p])
    BY <1>1 DEF TailCleared
  <2> HIDE DEF map, e
  <2>4. Made(d, e, map, d.head, d.tail, 1)
    BY <2>1, <2>2, PushMakes
  <2> QED BY <2>3, <2>4 DEF e
<1>2. CASE ~(IsTileOf(d.map, p, c) /\ d.head[p] # c)
  <2>1. e = d /\ TailCleared(d.map, p, d.head[p], d.tail[p]) = d.map
    BY <1>2 DEF ClearTail, TailCleared
  <2> QED BY <2>1, MadeNothing
<1> QED BY <1>1, <1>2

LEMMA TailMakes ==
  ASSUME NEW d \in Data, NEW p \in PlayerIds, d.tail[p] \in Coordinates,
         NEW new, new = TailCleared(d.map, p, d.head[p], d.tail[p]),
         HasPlayerNeighbor(new, p, d.tail[p])
  PROVE  Made(d, MovePlayerTail(d, p), new, d.head,
              [d.tail EXCEPT ![p] = PlayerNeighborWithLowestOrder(new, p, d.tail[p])], 2)
<1> DEFINE next    == PlayerNeighborWithLowestOrder(new, p, d.tail[p])
           cleared == ClearTail(d, p)
           tail    == [d.tail EXCEPT ![p] = next]
           e       == MovePlayerTail(d, p)
<1>1. Made(d, cleared, new, d.head, d.tail, 1)
  BY ClearMakes
<1>2. cleared \in Data /\ cleared.map = new /\ cleared.head = d.head /\ cleared.tail = d.tail
  BY <1>1 DEF Made
<1>3. next \in Coordinates
  BY PlayerNeighborFound
<1>4. e = PushTile([cleared EXCEPT !.tail[p] = next], next)
  BY <1>2 DEF MovePlayerTail, NextTail
<1> HIDE DEF cleared, next, e
<1>5. new \in Maps /\ d.head \in Cache /\ tail \in Cache
  BY <1>2, <1>3 DEF Data, Cache
<1>6. [cleared EXCEPT !.tail[p] = next] =
        [cleared EXCEPT !.map = new, !.head = d.head, !.tail = tail]
  BY <1>2 DEF Data
<1> HIDE DEF tail
<1>7. Made(cleared, e, new, d.head, tail, 1)
  <2>1. e = PushTile([cleared EXCEPT !.map = new, !.head = d.head, !.tail = tail], next)
    BY <1>4, <1>6
  <2> QED BY <1>2, <1>3, <1>5, <2>1, PushMakes
<1>8. Made(d, e, new, d.head, tail, 1 + 1)
  BY <1>1, <1>2, <1>7, MadeTwice
<1> QED BY <1>8 DEF e, tail, next

LEMMA SpawnMakes ==
  ASSUME NEW d \in Data, NEW p \in PlayerIds, NEW head \in SpawnSites(d.map),
         NEW tail, tail = MoveInDirection(head, EmptyNeighborDirection(d.map, head))
  PROVE  Made(d, SpawnPlayer(d, p, head),
              SetTilePlayer(SetTilePlayer(d.map, head, p, 1), tail, p, 0),
              [d.head EXCEPT ![p] = head], [d.tail EXCEPT ![p] = tail], 2)
<1> DEFINE map   == SetTilePlayer(d.map, head, p, 1)
           new   == SetTilePlayer(map, tail, p, 0)
           heads == [d.head EXCEPT ![p] = head]
           tails == [d.tail EXCEPT ![p] = tail]
           f     == PushTile([d EXCEPT !.map = map, !.head = heads, !.tail = d.tail], head)
           e     == SpawnPlayer(d, p, head)
<1>1. head \in Coordinates /\ tail \in Coordinates
  BY EmptyNeighborFound DEF SpawnSites, EmptyTiles
<1>2. f = PushTile([d EXCEPT !.map = SetTilePlayer(@, head, p, 1), !.head[p] = head], head)
  BY DEF Data
<1>3. e = PushTile([f EXCEPT !.map = SetTilePlayer(@, tail, p, 0), !.tail[p] = tail], tail)
  BY <1>2 DEF SpawnPlayer
<1> HIDE DEF f, e
<1>4. map \in Maps /\ new \in Maps /\ heads \in Cache /\ d.tail \in Cache /\ tails \in Cache
  BY <1>1 DEF Data, Cache, SetTilePlayer, Maps, Tiles, TileTypes
<1> HIDE DEF map, heads
<1>5. Made(d, f, map, heads, d.tail, 1)
  BY <1>1, <1>4, PushMakes DEF f
<1>6. f \in Data /\ f.map = map /\ f.head = heads /\ f.tail = d.tail
  BY <1>5 DEF Made
<1>7. e = PushTile([f EXCEPT !.map = new, !.head = heads, !.tail = tails], tail)
  BY <1>3, <1>6 DEF Data
<1> HIDE DEF new, tails
<1>8. Made(f, e, new, heads, tails, 1)
  BY <1>1, <1>4, <1>6, <1>7, PushMakes
<1>9. Made(d, e, new, heads, tails, 1 + 1)
  BY <1>5, <1>6, <1>8, MadeTwice
<1> QED BY <1>9 DEF e, new, tails, heads, map

LEMMA FruitMakes ==
  ASSUME NEW d \in Data, NEW e \in FruitOutcomes(d)
  PROVE  \/ e = d /\ EmptyTiles(d.map) = {}
         \/ \E c \in EmptyTiles(d.map) : Made(d, e, SetTileFruit(d.map, c), d.head, d.tail, 1)
<1>1. ASSUME NEW c \in EmptyTiles(d.map),
             e = PushTile([d EXCEPT !.map = SetTileFruit(@, c)], c)
      PROVE  Made(d, e, SetTileFruit(d.map, c), d.head, d.tail, 1)
  <2> DEFINE map == SetTileFruit(d.map, c)
  <2>1. map \in Maps /\ c \in Coordinates
    BY DEF SetTileFruit, Data, Maps, Tiles, TileTypes, EmptyTiles
  <2>2. d.head \in Cache /\ d.tail \in Cache
    BY DEF Data, Cache
  <2>3. e = PushTile([d EXCEPT !.map = map, !.head = d.head, !.tail = d.tail], c)
    BY <1>1 DEF Data
  <2> HIDE DEF map
  <2>4. Made(d, e, map, d.head, d.tail, 1)
    BY <2>1, <2>2, <2>3, PushMakes
  <2> QED BY <2>4 DEF map
<1> QED BY <1>1 DEF FruitOutcomes

LEMMA SeenAliveMakes ==
  ASSUME NEW d \in Data, NEW n \in Nat
  PROVE  Made(d, SeenAlive(d), d.map, d.head, d.tail, n)
<1> DEFINE e == SeenAlive(d)
<1>1. /\ e \in Data /\ e.map = d.map /\ e.head = d.head /\ e.tail = d.tail
      /\ e.changelog = d.changelog /\ e.fruitsEaten = d.fruitsEaten
  BY DEF SeenAlive, Data
<1>2. e.failed = d.failed
  BY DEF SeenAlive, Data
<1>3. Len(e.changelog) <= Len(d.changelog) + n
  BY <1>1 DEF Data
<1> HIDE DEF e
<1>4. Made(d, e, d.map, d.head, d.tail, n)
  BY <1>1, <1>2, <1>3 DEF Made
<1> QED BY <1>4 DEF e

LEMMA KillMakes ==
  ASSUME NEW d \in Data, NEW p \in PlayerIds
  PROVE  Made(d, KillPlayer(d, p), MarkPlayerAsDead(d.map, p, d.head[p]), d.head, d.tail, 0)
<1> DEFINE new == MarkPlayerAsDead(d.map, p, d.head[p])
           e   == KillPlayer(d, p)
<1>1. new \in Maps
  BY DEF MarkPlayerAsDead, Data, Maps, Tiles, TileTypes
<1> HIDE DEF new
<1>2. e = [d EXCEPT !.map = new, !.playerDied = TRUE]
  BY DEF KillPlayer, new
<1> HIDE DEF e
<1>3. /\ e \in Data /\ e.map = new /\ e.head = d.head /\ e.tail = d.tail
      /\ e.changelog = d.changelog /\ e.fruitsEaten = d.fruitsEaten
  BY <1>1, <1>2 DEF Data
<1>4. e.failed = d.failed
  BY <1>2 DEF Data
<1>5. Len(e.changelog) <= Len(d.changelog) + 0
  BY <1>3 DEF Data
<1>6. Made(d, e, new, d.head, d.tail, 0)
  BY <1>3, <1>4, <1>5 DEF Made
<1> QED BY <1>6 DEF e, new

-----------------------------------------------------------------------------
(* What the handlers of one player do to the snake of another.             *)

LEMMA SnakeOfSameTiles ==
  ASSUME NEW map, NEW new, NEW p, NEW head, NEW tail \in Coordinates, SnakeOn(map, p, head, tail),
         TilesOf(new, p) = TilesOf(map, p),
         \A c \in TilesOf(map, p) : new[c].order = map[c].order
  PROVE  SnakeOn(new, p, head, tail)
<1>1. PICK last \in Coordinates :
        /\ Trail(TilesOf(map, p), map, head, last)
        /\ \/ tail = last /\ last # head
           \/ ~IsTileOf(map, p, tail) /\ tail \in Neighbors(last)
  BY DEF SnakeOn
<1>2. Trail(TilesOf(new, p), new, head, last)
  BY <1>1, TrailIsKept
<1>3. IsTileOf(new, p, tail) <=> IsTileOf(map, p, tail)
  BY DEF TilesOf
<1> QED BY <1>1, <1>2, <1>3 DEF SnakeOn

\* A tile is given to p: at most the last tile of q.
LEMMA OtherSnakeAtPlayerTile ==
  ASSUME NEW map \in Maps, NEW p \in PlayerIds, NEW q \in PlayerIds \ {p},
         NEW c \in Coordinates, NEW order,
         NEW head, NEW tail \in Coordinates, SnakeOn(map, q, head, tail),
         IsTileOf(map, q, c) => c = tail
  PROVE  SnakeOn(SetTilePlayer(map, c, p, order), q, head, tail)
<1> DEFINE t == [order |-> order, type |-> "player", player |-> p]
<1>1. SetTilePlayer(map, c, p, order) = [map EXCEPT ![c] = t]
  BY DEF SetTilePlayer
<1>2. t.player # q
  OBVIOUS
<1> HIDE DEF t
<1>3. SnakeOn([map EXCEPT ![c] = t], q, head, tail)
  <2>1. q \in PlayerIds
    OBVIOUS
  <2>2. CASE IsTileOf(map, q, c)
    <3>1. c = tail
      BY <2>2
    <3> QED BY <1>2, <2>1, <2>2, <3>1, SnakeLosesItsTail
  <2>3. CASE ~IsTileOf(map, q, c)
    BY <1>2, <2>1, <2>3, SnakeIsKept
  <2> QED BY <2>2, <2>3
<1> QED BY <1>1, <1>3

LEMMA OtherSnakeAtClearedTail ==
  ASSUME NEW map \in Maps, NEW p \in PlayerIds, NEW q \in PlayerIds \ {p}, NEW hp,
         NEW tp \in Coordinates,
         NEW head, NEW tail \in Coordinates, SnakeOn(map, q, head, tail)
  PROVE  SnakeOn(TailCleared(map, p, hp, tp), q, head, tail)
<1>1. CASE IsTileOf(map, p, tp) /\ hp # tp
  <2> DEFINE t == [map[tp] EXCEPT !.type = "empty"]
  <2>1. TailCleared(map, p, hp, tp) = [map EXCEPT ![tp] = t] /\ t.type = "empty"
    BY <1>1, SetTileEmptyTiles DEF TailCleared
  <2>2. ~IsTileOf(map, q, tp)
    BY <1>1 DEF IsTileOf
  <2> HIDE DEF t
  <2>3. SnakeOn([map EXCEPT ![tp] = t], q, head, tail)
    <3>1. t.type # "player" /\ q \in PlayerIds
      BY <2>1
    <3> QED BY <2>2, <3>1, SnakeIsKept
  <2> QED BY <2>1, <2>3
<1>2. CASE ~(IsTileOf(map, p, tp) /\ hp # tp)
  BY <1>2 DEF TailCleared
<1> QED BY <1>1, <1>2

LEMMA SetTileFruitTiles ==
  ASSUME NEW map \in Maps, NEW c \in Coordinates
  PROVE  /\ SetTileFruit(map, c) \in Maps
         /\ SetTileFruit(map, c) = [map EXCEPT ![c] = [map[c] EXCEPT !.type = "fruit"]]
         /\ [map[c] EXCEPT !.type = "fruit"].type = "fruit"
<1>1. [map[c] EXCEPT !.type = "fruit"] \in Tiles
  BY DEF Maps, Tiles, TileTypes
<1>2. SetTileFruit(map, c) = [map EXCEPT ![c] = [map[c] EXCEPT !.type = "fruit"]]
  BY DEF SetTileFruit, Maps
<1>3. SetTileFruit(map, c) \in Maps
  BY <1>1, <1>2 DEF Maps
<1>4. [map[c] EXCEPT !.type = "fruit"].type = "fruit"
  BY DEF Maps, Tiles
<1> QED BY <1>2, <1>3, <1>4

LEMMA SnakeAtFruit ==
  ASSUME NEW map \in Maps, NEW q \in PlayerIds, NEW c \in EmptyTiles(map),
         NEW head, NEW tail \in Coordinates, SnakeOn(map, q, head, tail)
  PROVE  SnakeOn(SetTileFruit(map, c), q, head, tail)
<1> DEFINE t == [map[c] EXCEPT !.type = "fruit"]
<1>1. c \in Coordinates /\ ~IsTileOf(map, q, c)
  BY DEF EmptyTiles, IsTileEmpty, IsTileOf
<1>2. SetTileFruit(map, c) = [map EXCEPT ![c] = t] /\ t.type = "fruit"
  BY <1>1, SetTileFruitTiles
<1> HIDE DEF t
<1>3. SnakeOn([map EXCEPT ![c] = t], q, head, tail)
  <2>1. t.type # "player"
    BY <1>2
  <2> QED BY <1>1, <2>1, SnakeIsKept
<1> QED BY <1>2, <1>3

LEMMA OtherSnakeAtDeath ==
  ASSUME NEW map \in Maps, NEW p \in PlayerIds, NEW q \in PlayerIds \ {p}, NEW hp, NEW tp,
         SnakeOn(map, p, hp, tp),
         NEW head, NEW tail \in Coordinates, SnakeOn(map, q, head, tail)
  PROVE  SnakeOn(MarkPlayerAsDead(map, p, hp), q, head, tail)
<1> DEFINE new == MarkPlayerAsDead(map, p, hp)
<1>1. \A c \in Coordinates :
        new[c] = IF IsTileOf(map, p, c) THEN [map[c] EXCEPT !.type = "dead"] ELSE map[c]
  BY SnakeDies
<1>2. \A c \in Coordinates : map[c] \in Tiles
  BY DEF Maps
<1> HIDE DEF new
<1>3. \A c \in Coordinates : IsTileOf(new, q, c) <=> IsTileOf(map, q, c)
  BY <1>1, <1>2 DEF IsTileOf, Tiles
<1>4. TilesOf(new, q) = TilesOf(map, q)
  BY <1>3 DEF TilesOf
<1>5. \A c \in TilesOf(map, q) : new[c].order = map[c].order
  BY <1>1 DEF TilesOf, IsTileOf
<1>6. SnakeOn(new, q, head, tail)
  BY <1>4, <1>5, SnakeOfSameTiles
<1> QED BY <1>6 DEF new

-----------------------------------------------------------------------------
(* The invariant of the snakes.                                            *)

OwnersHaveSnakes(map) ==
  \A c \in Coordinates : map[c].type = "player" => HasSnake(map[c].player)

\* The process has not failed, every snake is a trail, and every tile of a
\* player belongs to one.
Snakes ==
  /\ ~data.failed
  /\ \A p \in PlayerIds : HasSnake(p) => SnakeOn(data.map, p, data.head[p], data.tail[p])
  /\ OwnersHaveSnakes(data.map)

\* What a snake must not do, though the code lets it: eat a fruit that lies on
\* the tile its cached tail still names, after another snake has taken that tile.
\* ServerTick_stale_tail shows how a game of three players comes there.
NobodyEatsAtItsTail ==
  \A p \in PlayerIds :
    HasMove(p) /\ TileAhead(p).type = "fruit" => NextHead(p) # data.tail[p]

LEMMA SnakeFacts ==
  ASSUME IInv, NEW p \in PlayerIds, HasSnake(p)
  PROVE  /\ data \in Data /\ data.map \in Maps /\ data.head \in Cache /\ data.tail \in Cache
         /\ data.head[p] \in Coordinates /\ data.tail[p] \in Coordinates
BY PlayerFacts DEF Data, Cache

LEMMA NextHeadIsNeighbor ==
  ASSUME IInv, NEW p \in PlayerIds, HasMove(p)
  PROVE  /\ NextHead(p) \in Neighbors(data.head[p]) /\ NextHead(p) \in Coordinates
         /\ HasSnake(p) /\ TileAhead(p) \in Tiles
<1>1. HasSnake(p) /\ players[p].direction \in Directions
  BY PlayerFacts DEF HasMove, HasStatus, HasSnake, PlayersTypeOK, Players
<1>2. NextHead(p) \in Coordinates
  BY MoverFacts
<1>3. TileAhead(p) \in Tiles
  BY <1>2, PlayerFacts, TilesAreTiles DEF TileAhead
<1> QED BY <1>1, <1>2, <1>3 DEF NextHead, Neighbors

\* Crawl, field by field: the map, the new head and the new tail.
CrawledMap(p) ==
  TailCleared(HeadMoved(data.map, p, data.head[p], NextHead(p)), p, NextHead(p), data.tail[p])
CrawledTail(p) == PlayerNeighborWithLowestOrder(CrawledMap(p), p, data.tail[p])

\* A snake crawls onto no tile of a snake but the cached last one.
LEMMA CrawlGoesOntoTails ==
  ASSUME NEW p \in PlayerIds, Crawl(p), NEW q \in PlayerIds, IsTileOf(data.map, q, NextHead(p))
  PROVE  NextHead(p) = data.tail[q] /\ IsTailVacated(p) /\ TileAhead(p).player = q
BY DEF Crawl, IsTailVacated, TileAhead, IsTileOf

LEMMA CrawlMakes ==
  ASSUME IInv, Snakes, NEW p \in PlayerIds, Crawl(p)
  PROVE  /\ Made(data, data', CrawledMap(p), [data.head EXCEPT ![p] = NextHead(p)],
                 [data.tail EXCEPT ![p] = CrawledTail(p)], 3)
         /\ SnakeOn(CrawledMap(p), p, NextHead(p), CrawledTail(p))
         /\ IsTileOf(CrawledMap(p), p, CrawledTail(p))
<1> DEFINE next  == NextHead(p)
           head  == data.head[p]
           tail  == data.tail[p]
           moved == HeadMoved(data.map, p, head, next)
           d     == MovePlayerHead(data, p, next)
           e     == MovePlayerTail(d, p)
<1>1. HasMove(p)
  BY DEF Crawl
<1>2. /\ next \in Neighbors(head) /\ next \in Coordinates /\ HasSnake(p)
      /\ data \in Data /\ data.map \in Maps /\ head \in Coordinates /\ tail \in Coordinates
  BY <1>1, NextHeadIsNeighbor, SnakeFacts
<1>3. SnakeOn(data.map, p, head, tail)
  BY <1>2 DEF Snakes
<1>4. ~IsTileOf(data.map, p, next) \/ next = tail
  BY CrawlGoesOntoTails
<1>5. /\ HasPlayerNeighbor(CrawledMap(p), p, tail)
      /\ SnakeOn(CrawledMap(p), p, next, CrawledTail(p))
      /\ IsTileOf(CrawledMap(p), p, CrawledTail(p))
  <2> HIDE DEF next, head, tail
  <2>1. LET new == TailCleared(HeadMoved(data.map, p, head, next), p, next, tail)
        IN  /\ HasPlayerNeighbor(new, p, tail)
            /\ SnakeOn(new, p, next, PlayerNeighborWithLowestOrder(new, p, tail))
            /\ IsTileOf(new, p, PlayerNeighborWithLowestOrder(new, p, tail))
    BY <1>2, <1>3, <1>4, SnakeCrawls
  <2> QED BY <2>1 DEF CrawledMap, CrawledTail, next, head, tail
<1>6. Made(data, d, moved, [data.head EXCEPT ![p] = next], data.tail, 1)
  BY <1>2, HeadMakes
<1> HIDE DEF d
<1>7. /\ d \in Data /\ d.map = moved /\ d.head = [data.head EXCEPT ![p] = next]
      /\ d.tail = data.tail
  BY <1>6 DEF Made
<1>8. d.head[p] = next
  BY <1>2, <1>7, SnakeFacts DEF Cache
<1>9. CrawledMap(p) = TailCleared(d.map, p, d.head[p], d.tail[p])
  BY <1>7, <1>8 DEF CrawledMap
<1>10. Made(d, e, CrawledMap(p), d.head, [d.tail EXCEPT ![p] = CrawledTail(p)], 2)
  BY <1>2, <1>5, <1>7, <1>9, TailMakes DEF CrawledTail
<1> HIDE DEF e
<1>11. Made(data, e, CrawledMap(p), d.head, [d.tail EXCEPT ![p] = CrawledTail(p)], 1 + 2)
  BY <1>2, <1>6, <1>7, <1>10, MadeTwice
<1>12. e \in Data /\ e.map = CrawledMap(p) /\ e.head = d.head
       /\ e.tail = [d.tail EXCEPT ![p] = CrawledTail(p)]
  BY <1>11 DEF Made
<1>13. data' = e \/ data' = SeenAlive(e)
  BY DEF Crawl, d, e
<1>14. Made(e, data', e.map, e.head, e.tail, 0)
  BY <1>12, <1>13, MadeNothing, SeenAliveMakes
<1>15. Made(data, data', e.map, e.head, e.tail, 3 + 0)
  BY <1>2, <1>11, <1>12, <1>14, MadeTwice
<1> QED BY <1>5, <1>7, <1>12, <1>15

\* A turn keeps the invariant: what is common to all.
LEMMA TurnKeepsSnakes ==
  ASSUME IInv, Snakes, NEW p \in PlayerIds, Turn(p), ~data'.failed,
         \A q \in PlayerIds \ {p} : data'.head[q] = data.head[q] /\ data'.tail[q] = data.tail[q],
         \A q \in PlayerIds \ {p} : HasSnake(q) => SnakeOn(data'.map, q, data.head[q], data.tail[q]),
         HasSnake(p)' => SnakeOn(data'.map, p, data'.head[p], data'.tail[p]),
         \A c \in Coordinates : data'.map[c].type = "player" =>
           \/ data'.map[c].player = p /\ HasSnake(p)'
           \/ data'.map[c].player # p /\ data'.map[c] = data.map[c]
  PROVE  Snakes'
<1>1. \A q \in PlayerIds \ {p} : HasSnake(q)' <=> HasSnake(q)
  BY PlayerFacts, TurnIsOne DEF HasSnake, HasStatus
<1>2. ASSUME NEW q \in PlayerIds, HasSnake(q)'
      PROVE  SnakeOn(data'.map, q, data'.head[q], data'.tail[q])
  <2>1. CASE q = p
    BY <1>2, <2>1
  <2>2. CASE q # p
    <3>1. SnakeOn(data'.map, q, data.head[q], data.tail[q])
      BY <1>1, <1>2, <2>2
    <3> QED BY <2>2, <3>1
  <2> QED BY <2>1, <2>2
<1>3. ASSUME NEW c \in Coordinates, data'.map[c].type = "player"
      PROVE  HasSnake(data.map[c].player)'
  <2>1. CASE data'.map[c].player = p /\ HasSnake(p)'
    BY <2>1 DEF HasSnake, HasStatus
  <2>2. CASE data'.map[c].player # p /\ data'.map[c] = data.map[c]
    <3>1. data.map[c].player \in PlayerIds \ {p} /\ data.map[c].type = "player"
      BY <1>3, <2>2, PlayerFacts, TilesAreTiles DEF Tiles
    <3>2. HasSnake(data.map[c].player)
      BY <3>1 DEF Snakes, OwnersHaveSnakes
    <3>3. PICK q \in PlayerIds \ {p} : q = data.map[c].player
      BY <3>1
    <3>4. HasSnake(q)
      BY <3>2, <3>3
    <3>5. HasSnake(q)'
      BY <1>1, <3>4
    <3>6. data'.map[c].player = q
      BY <2>2, <3>3
    <3> QED BY <3>5, <3>6 DEF HasSnake, HasStatus
  <2> QED BY <1>3, <2>1, <2>2
<1>4. \A q \in PlayerIds : HasSnake(q)' => SnakeOn(data'.map, q, data'.head[q], data'.tail[q])
  BY <1>2
<1>5. OwnersHaveSnakes(data.map)'
  BY <1>3 DEF OwnersHaveSnakes
<1> QED BY <1>4, <1>5 DEF Snakes

LEMMA OthersCache ==
  ASSUME NEW f \in Cache, NEW p \in PlayerIds, NEW c
  PROVE  /\ [f EXCEPT ![p] = c][p] = c
         /\ \A q \in PlayerIds \ {p} : [f EXCEPT ![p] = c][q] = f[q]
BY DEF Cache

LEMMA CrawlKeepsSnakes ==
  ASSUME IInv, Snakes, NEW p \in PlayerIds, Crawl(p)
  PROVE  Snakes'
<1> DEFINE next  == NextHead(p)
           moved == HeadMoved(data.map, p, data.head[p], next)
<1>1. HasMove(p) /\ HasSnake(p) /\ UNCHANGED players /\ next \in Coordinates
  BY NextHeadIsNeighbor DEF Crawl, HasMove
<1>2. /\ data.map \in Maps /\ data.head \in Cache /\ data.tail \in Cache
      /\ data.head[p] \in Coordinates /\ data.tail[p] \in Coordinates
  BY <1>1, SnakeFacts
<1>3. /\ data'.map = CrawledMap(p) /\ data'.head = [data.head EXCEPT ![p] = next]
      /\ data'.tail = [data.tail EXCEPT ![p] = CrawledTail(p)]
      /\ SnakeOn(CrawledMap(p), p, next, CrawledTail(p))
  BY CrawlMakes DEF Made
<1>4. ~data'.failed
  <2>1. data'.failed = data.failed
    BY CrawlMakes DEF Made
  <2> QED BY <2>1 DEF Snakes
<1>5. /\ moved \in Maps /\ \A c \in Coordinates \ {next} : moved[c] = data.map[c]
      /\ TilesOf(moved, p) = TilesOf(data.map, p) \cup {next}
  <2> HIDE DEF next
  <2>1. HasNewHead(moved, data.map, p, data.head[p], next)
    BY <1>1, <1>2, HeadMovedTiles
  <2> HIDE DEF moved
  <2> QED BY <2>1 DEF HasNewHead
<1>6. CrawledMap(p) = TailCleared(moved, p, next, data.tail[p])
  BY DEF CrawledMap
<1>7. ASSUME NEW q \in PlayerIds \ {p}, HasSnake(q)
      PROVE  SnakeOn(data'.map, q, data.head[q], data.tail[q])
  <2>1. /\ SnakeOn(data.map, q, data.head[q], data.tail[q])
        /\ data.head[q] \in Coordinates /\ data.tail[q] \in Coordinates
    BY <1>7, SnakeFacts DEF Snakes
  <2>2. IsTileOf(data.map, q, next) => next = data.tail[q]
    BY CrawlGoesOntoTails
  <2>3. SnakeOn(moved, q, data.head[q], data.tail[q])
    BY <1>1, <1>2, <2>1, <2>2, OtherSnakeAtPlayerTile DEF HeadMoved
  <2> HIDE DEF moved, next
  <2>4. SnakeOn(TailCleared(moved, p, next, data.tail[p]), q, data.head[q], data.tail[q])
    BY <1>2, <1>5, <2>1, <2>3, OtherSnakeAtClearedTail
  <2> QED BY <1>3, <1>6, <2>4
<1>8. ASSUME NEW c \in Coordinates, data'.map[c].type = "player"
      PROVE  \/ data'.map[c].player = p
             \/ data'.map[c].player # p /\ data'.map[c] = data.map[c]
  <2> HIDE DEF moved, next
  <2>1. CrawledMap(p)[c] = moved[c]
    <3>1. CASE CrawledMap(p) = SetTileEmpty(moved, data.tail[p])
      <4> DEFINE t == [moved[data.tail[p]] EXCEPT !.type = "empty"]
      <4>1. CrawledMap(p) = [moved EXCEPT ![data.tail[p]] = t] /\ t.type = "empty"
        BY <1>2, <1>5, <3>1, SetTileEmptyTiles
      <4> HIDE DEF t
      <4>2. CrawledMap(p)[c].type = "player"
        BY <1>3, <1>8
      <4> QED BY <1>2, <1>5, <4>1, <4>2 DEF Maps
    <3> QED BY <1>6, <3>1 DEF TailCleared
  <2>2. CASE c = next
    BY <1>3, <1>5, <2>1, <2>2 DEF TilesOf, IsTileOf
  <2>3. CASE c # next
    BY <1>3, <1>5, <2>1, <2>3
  <2> QED BY <2>2, <2>3
<1>9. HasSnake(p)' /\ Turn(p)
  BY <1>1 DEF HasSnake, HasStatus, Turn
<1>10. SnakeOn(data'.map, p, data'.head[p], data'.tail[p])
  BY <1>2, <1>3, OthersCache
<1>11. \A q \in PlayerIds \ {p} : data'.head[q] = data.head[q] /\ data'.tail[q] = data.tail[q]
  BY <1>2, <1>3, OthersCache
<1> QED BY <1>4, <1>7, <1>8, <1>9, <1>10, <1>11, TurnKeepsSnakes

LEMMA EatMakes ==
  ASSUME IInv, NEW p \in PlayerIds, Eat(p)
  PROVE  /\ data' \in Data
         /\ data'.map = HeadMoved(data.map, p, data.head[p], NextHead(p))
         /\ data'.head = [data.head EXCEPT ![p] = NextHead(p)]
         /\ data'.tail = data.tail
         /\ data'.failed = data.failed
         /\ data'.fruitsEaten = data.fruitsEaten + 1
         /\ Len(data'.changelog) <= Len(data.changelog) + 1
<1> DEFINE next == NextHead(p)
           map  == HeadMoved(data.map, p, data.head[p], next)
           head == [data.head EXCEPT ![p] = next]
           d    == MovePlayerHead(data, p, next)
           e    == SeenAlive(d)
<1>1. next \in Coordinates /\ data.head[p] \in Coordinates /\ data \in Data
      /\ data.fruitsEaten \in Nat
  BY MoverFacts, PlayerFacts DEF Eat
<1>2. Made(data, d, map, head, data.tail, 1)
  BY <1>1, HeadMakes
<1> HIDE DEF d, map, head
<1>3. d \in Data /\ d.map = map /\ d.head = head /\ d.tail = data.tail
  BY <1>2 DEF Made
<1>4. Made(d, e, map, head, data.tail, 0)
  BY <1>3, SeenAliveMakes
<1>5. Made(data, e, map, head, data.tail, 1 + 0)
  BY <1>1, <1>2, <1>3, <1>4, MadeTwice
<1> HIDE DEF e
<1>6. /\ e \in Data /\ e.map = map /\ e.head = head /\ e.tail = data.tail
      /\ e.fruitsEaten = data.fruitsEaten
      /\ Len(e.changelog) <= Len(data.changelog) + 1
  BY <1>5 DEF Made
<1>7. e.failed = data.failed
  BY <1>5 DEF Made
<1>8. data' = [e EXCEPT !.fruitsEaten = @ + 1]
  BY DEF Eat, d, e
<1>9. /\ data' \in Data /\ data'.map = e.map /\ data'.head = e.head /\ data'.tail = e.tail
      /\ data'.fruitsEaten = e.fruitsEaten + 1 /\ data'.changelog = e.changelog
  <2>1. e.fruitsEaten + 1 \in Nat
    BY <1>6 DEF Data
  <2>2. PICK n \in Nat : n = e.fruitsEaten + 1
    BY <2>1
  <2>3. data' = [e EXCEPT !.fruitsEaten = n]
    BY <1>6, <1>8, <2>2 DEF Data
  <2> QED BY <1>6, <2>2, <2>3 DEF Data
<1>10. data'.failed = e.failed
  BY <1>6, <1>8 DEF Data
<1>11. data'.failed = data.failed
  BY <1>7, <1>10
<1> QED BY <1>6, <1>9, <1>11 DEF map, head

LEMMA EatKeepsSnakes ==
  ASSUME IInv, Snakes, NobodyEatsAtItsTail, NEW p \in PlayerIds, Eat(p)
  PROVE  Snakes'
<1> DEFINE next  == NextHead(p)
           moved == HeadMoved(data.map, p, data.head[p], next)
<1>1. /\ HasMove(p) /\ HasSnake(p) /\ UNCHANGED players /\ next \in Neighbors(data.head[p])
      /\ TileAhead(p).type = "fruit" /\ next \in Coordinates
  BY NextHeadIsNeighbor DEF Eat
<1>2. /\ data.map \in Maps /\ data.head \in Cache /\ data.tail \in Cache
      /\ data.head[p] \in Coordinates /\ data.tail[p] \in Coordinates
  BY <1>1, SnakeFacts
<1>3. /\ data'.map = HeadMoved(data.map, p, data.head[p], next)
      /\ data'.head = [data.head EXCEPT ![p] = next] /\ data'.tail = data.tail
  BY EatMakes
<1>4. ~data'.failed
  <2>1. data'.failed = data.failed
    BY EatMakes
  <2> QED BY <2>1 DEF Snakes
<1>5. next # data.tail[p]
  BY <1>1 DEF NobodyEatsAtItsTail
<1>6. \A q \in PlayerIds : ~IsTileOf(data.map, q, next)
  BY <1>1 DEF IsTileOf, TileAhead
<1>7. ASSUME NEW q \in PlayerIds \ {p}, HasSnake(q)
      PROVE  SnakeOn(data'.map, q, data.head[q], data.tail[q])
  <2>1. /\ SnakeOn(data.map, q, data.head[q], data.tail[q])
        /\ data.head[q] \in Coordinates /\ data.tail[q] \in Coordinates
    BY <1>7, SnakeFacts DEF Snakes
  <2> DEFINE order == data.map[data.head[p]].order + 1
  <2>2. data'.map = SetTilePlayer(data.map, next, p, order)
    BY <1>3 DEF HeadMoved
  <2>3. ~IsTileOf(data.map, q, next)
    BY <1>6
  <2> HIDE DEF next, order
  <2>4. SnakeOn(SetTilePlayer(data.map, next, p, order), q, data.head[q], data.tail[q])
    BY <1>1, <1>2, <2>1, <2>3, OtherSnakeAtPlayerTile
  <2> QED BY <2>2, <2>4
<1>8. SnakeOn(data'.map, p, next, data.tail[p])
  <2>1. SnakeOn(data.map, p, data.head[p], data.tail[p])
    BY <1>1 DEF Snakes
  <2> HIDE DEF next
  <2> QED BY <1>1, <1>2, <1>3, <1>5, <1>6, <2>1, SnakeGrows
<1>m. /\ moved \in Maps /\ \A c \in Coordinates \ {next} : moved[c] = data.map[c]
       /\ TilesOf(moved, p) = TilesOf(data.map, p) \cup {next}
  <2> HIDE DEF next
  <2>1. HasNewHead(moved, data.map, p, data.head[p], next)
    BY <1>1, <1>2, HeadMovedTiles
  <2> HIDE DEF moved
  <2> QED BY <2>1 DEF HasNewHead
<1>9. ASSUME NEW c \in Coordinates, data'.map[c].type = "player"
      PROVE  \/ data'.map[c].player = p
             \/ data'.map[c].player # p /\ data'.map[c] = data.map[c]
  <2> HIDE DEF next
  <2>1. CASE c = next
    BY <1>1, <1>2, <1>3, <2>1, HeadMovedTiles DEF HasNewHead, TilesOf, IsTileOf
  <2>2. CASE c # next
    BY <1>3, <1>m, <2>2
  <2> QED BY <2>1, <2>2
<1>10. HasSnake(p)' /\ Turn(p)
  BY <1>1 DEF HasSnake, HasStatus, Turn
<1>11. SnakeOn(data'.map, p, data'.head[p], data'.tail[p])
  BY <1>2, <1>3, <1>8, OthersCache
<1>12. \A q \in PlayerIds \ {p} : data'.head[q] = data.head[q] /\ data'.tail[q] = data.tail[q]
  BY <1>2, <1>3, OthersCache
<1> QED BY <1>4, <1>7, <1>9, <1>10, <1>11, <1>12, TurnKeepsSnakes

-----------------------------------------------------------------------------
(* Entering, dying, and the steps that move no snake.                      *)

Entered(map, p, head, tail) == SetTilePlayer(SetTilePlayer(map, head, p, 1), tail, p, 0)

\* new is map but for the two tiles.
HasEntered(new, map, p, head, tail) ==
  /\ new \in Maps
  /\ new[head] = [order |-> 1, type |-> "player", player |-> p]
  /\ new[tail] = [order |-> 0, type |-> "player", player |-> p]
  /\ \A c \in Coordinates \ {head, tail} : new[c] = map[c]

LEMMA FirstTileEnters ==
  ASSUME NEW map \in Maps, NEW p \in PlayerIds, NEW head \in Coordinates
  PROVE  /\ SetTilePlayer(map, head, p, 1) \in Maps
         /\ \A c \in Coordinates \ {head} : SetTilePlayer(map, head, p, 1)[c] = map[c]
<1> DEFINE t == [order |-> 1, type |-> "player", player |-> p]
<1>1. t \in Tiles /\ SetTilePlayer(map, head, p, 1) = [map EXCEPT ![head] = t]
  BY DEF Tiles, TileTypes, SetTilePlayer
<1> HIDE DEF t
<1> QED BY <1>1 DEF Maps

LEMMA EnteredTiles ==
  ASSUME NEW map \in Maps, NEW p \in PlayerIds,
         NEW head \in Coordinates, NEW tail \in Coordinates, tail # head
  PROVE  HasEntered(Entered(map, p, head, tail), map, p, head, tail)
<1> DEFINE t == [order |-> 1, type |-> "player", player |-> p]
           u == [order |-> 0, type |-> "player", player |-> p]
<1>1. t \in Tiles /\ u \in Tiles
  BY DEF Tiles, TileTypes
<1>2. Entered(map, p, head, tail) = [[map EXCEPT ![head] = t] EXCEPT ![tail] = u]
  BY DEF Entered, SetTilePlayer
<1> HIDE DEF t, u
<1>3. /\ Entered(map, p, head, tail) \in Maps
      /\ Entered(map, p, head, tail)[head] = t
      /\ Entered(map, p, head, tail)[tail] = u
      /\ \A c \in Coordinates \ {head, tail} : Entered(map, p, head, tail)[c] = map[c]
  BY <1>1, <1>2 DEF Maps
<1> QED BY <1>3 DEF HasEntered, t, u

\* Spawn, field by field.
LEMMA SpawnHasMade ==
  ASSUME IInv, NEW p \in PlayerIds, Spawn(p)
  PROVE  \E head \in EmptyTiles(data.map), tail \in EmptyTiles(data.map) :
           /\ head \in Coordinates /\ tail \in Coordinates /\ tail \in Neighbors(head)
           /\ Roomy => tail # head
           /\ HasSnake(p)' /\ ~HasSnake(p) /\ players'[p].status = "Playing"
           /\ \E map :
                /\ Made(data, data', map, [data.head EXCEPT ![p] = head],
                        [data.tail EXCEPT ![p] = tail], 3)
                /\ \/ map = Entered(data.map, p, head, tail)
                   \/ \E c \in EmptyTiles(Entered(data.map, p, head, tail)) :
                        map = SetTileFruit(Entered(data.map, p, head, tail), c)
<1>1. /\ data \in Data /\ data.map \in Maps /\ players \in Players
  BY PlayerFacts DEF Data
<1>2. PICK head \in SpawnSites(data.map) :
        LET spawned == SpawnPlayer(data, p, head)
            behind  == EmptyNeighborDirection(data.map, head)
        IN  /\ players' = [players EXCEPT
                             ![p] = [status |-> "Playing",
                                     direction |-> DirectionOpposite(behind)]]
            /\ \E d \in IF HasStatus(p, {"Joining"}) THEN FruitOutcomes(spawned)
                                                     ELSE {spawned} :
                 data' = SeenAlive(d)
  BY DEF Spawn
<1> DEFINE tail    == MoveInDirection(head, EmptyNeighborDirection(data.map, head))
           spawned == SpawnPlayer(data, p, head)
           entered == Entered(data.map, p, head, tail)
           heads   == [data.head EXCEPT ![p] = head]
           tails   == [data.tail EXCEPT ![p] = tail]
<1>3. /\ head \in EmptyTiles(data.map) /\ head \in Coordinates /\ HasEmptyNeighbor(data.map, head)
  BY DEF SpawnSites, EmptyTiles
<1>4. /\ tail \in EmptyTiles(data.map) /\ tail \in Neighbors(head)
      /\ EmptyNeighborDirection(data.map, head) \in Directions
  BY <1>3, EmptyNeighborFound DEF Neighbors
<1>5. Roomy => tail # head
  BY <1>3, <1>4, NeighborIsElsewhere
<1>6. HasSnake(p)' /\ ~HasSnake(p) /\ players'[p].status = "Playing"
  BY <1>1, <1>2 DEF Spawn, HasSnake, HasStatus, Players
<1>7. Made(data, spawned, entered, heads, tails, 2)
  BY <1>1, SpawnMakes DEF Entered
<1>8. PICK d : data' = SeenAlive(d) /\ (d = spawned \/ d \in FruitOutcomes(spawned))
  BY <1>2
<1>9. /\ tail \in Coordinates
  BY <1>4 DEF EmptyTiles
<1> HIDE DEF tail, spawned, entered, heads, tails
<1>10. /\ spawned \in Data /\ spawned.map = entered /\ spawned.head = heads
       /\ spawned.tail = tails
  BY <1>7 DEF Made
<1>11. \E map :
         /\ Made(spawned, d, map, heads, tails, 1)
         /\ map = entered \/ \E c \in EmptyTiles(entered) : map = SetTileFruit(entered, c)
  <2>1. CASE d = spawned
    <3>1. Made(spawned, d, spawned.map, spawned.head, spawned.tail, 1)
      BY <1>10, <2>1, MadeNothing
    <3> QED BY <1>10, <3>1
  <2>2. CASE \E c \in EmptyTiles(spawned.map) :
               Made(spawned, d, SetTileFruit(spawned.map, c), spawned.head, spawned.tail, 1)
    BY <1>10, <2>2
  <2> QED BY <1>8, <1>10, <2>1, <2>2, FruitMakes
<1>12. PICK map :
         /\ Made(spawned, d, map, heads, tails, 1)
         /\ map = entered \/ \E c \in EmptyTiles(entered) : map = SetTileFruit(entered, c)
  BY <1>11
<1>13. d \in Data /\ d.map = map /\ d.head = heads /\ d.tail = tails
  BY <1>12 DEF Made
<1>14. Made(d, data', map, heads, tails, 0)
  <2>1. Made(d, SeenAlive(d), d.map, d.head, d.tail, 0)
    BY <1>13, SeenAliveMakes
  <2> QED BY <1>8, <1>13, <2>1
<1>15. Made(spawned, data', map, heads, tails, 1 + 0)
  BY <1>10, <1>12, <1>13, <1>14, MadeTwice
<1>16. Made(data, data', map, heads, tails, 2 + (1 + 0))
  BY <1>1, <1>7, <1>10, <1>15, MadeTwice
<1>17. \E m :
         /\ Made(data, data', m, heads, tails, 3)
         /\ m = entered \/ \E c \in EmptyTiles(entered) : m = SetTileFruit(entered, c)
  BY <1>12, <1>16
<1> QED BY <1>3, <1>4, <1>5, <1>6, <1>9, <1>17 DEF entered, heads, tails

LEMMA SpawnKeepsSnakes ==
  ASSUME Roomy, IInv, Snakes, NEW p \in PlayerIds, Spawn(p)
  PROVE  Snakes'
<1>1. PICK head \in EmptyTiles(data.map), tail \in EmptyTiles(data.map) :
        /\ head \in Coordinates /\ tail \in Coordinates /\ tail \in Neighbors(head)
        /\ tail # head
        /\ HasSnake(p)' /\ ~HasSnake(p)
        /\ \E map :
             /\ Made(data, data', map, [data.head EXCEPT ![p] = head],
                     [data.tail EXCEPT ![p] = tail], 3)
             /\ \/ map = Entered(data.map, p, head, tail)
                \/ \E c \in EmptyTiles(Entered(data.map, p, head, tail)) :
                     map = SetTileFruit(Entered(data.map, p, head, tail), c)
  BY SpawnHasMade
<1> DEFINE entered == Entered(data.map, p, head, tail)
<1>2. PICK map :
        /\ Made(data, data', map, [data.head EXCEPT ![p] = head],
                [data.tail EXCEPT ![p] = tail], 3)
        /\ map = entered \/ \E c \in EmptyTiles(entered) : map = SetTileFruit(entered, c)
  BY <1>1
<1>3. data \in Data /\ data.map \in Maps /\ data.head \in Cache /\ data.tail \in Cache
  BY PlayerFacts DEF Data, Cache
<1>4. /\ data'.map = map /\ data'.head = [data.head EXCEPT ![p] = head]
      /\ data'.tail = [data.tail EXCEPT ![p] = tail]
  BY <1>2 DEF Made
<1>5. ~data'.failed
  <2>1. data'.failed = data.failed
    BY <1>2 DEF Made
  <2> QED BY <2>1 DEF Snakes
<1>6. /\ entered \in Maps
      /\ entered[head].player = p /\ entered[tail].player = p
      /\ \A c \in Coordinates \ {head, tail} : entered[c] = data.map[c]
  <2>1. HasEntered(entered, data.map, p, head, tail)
    BY <1>1, <1>3, EnteredTiles
  <2> HIDE DEF entered
  <2> QED BY <2>1 DEF HasEntered
<1>7. TilesOf(data.map, p) = {}
  BY <1>1 DEF Snakes, OwnersHaveSnakes, TilesOf, IsTileOf
<1>8. SnakeOn(entered, p, head, tail)
  BY <1>1, <1>3, <1>7, SnakeEnters DEF Entered
<1>9. ASSUME NEW q \in PlayerIds \ {p}, HasSnake(q)
      PROVE  SnakeOn(entered, q, data.head[q], data.tail[q])
  <2>1. /\ SnakeOn(data.map, q, data.head[q], data.tail[q])
        /\ data.head[q] \in Coordinates /\ data.tail[q] \in Coordinates
    BY <1>9, SnakeFacts DEF Snakes
  <2>2. ~IsTileOf(data.map, q, head) /\ ~IsTileOf(data.map, q, tail)
    BY DEF EmptyTiles, IsTileEmpty, IsTileOf
  <2> DEFINE first == SetTilePlayer(data.map, head, p, 1)
  <2>3. SnakeOn(first, q, data.head[q], data.tail[q])
    BY <1>1, <1>3, <2>1, <2>2, OtherSnakeAtPlayerTile
  <2>4. ~IsTileOf(first, q, tail) /\ first \in Maps
    <3>1. first \in Maps /\ \A c \in Coordinates \ {head} : first[c] = data.map[c]
      BY <1>1, <1>3, FirstTileEnters
    <3> QED BY <1>1, <2>2, <3>1 DEF IsTileOf
  <2> HIDE DEF first
  <2>5. SnakeOn(SetTilePlayer(first, tail, p, 0), q, data.head[q], data.tail[q])
    BY <1>1, <2>1, <2>3, <2>4, OtherSnakeAtPlayerTile
  <2> QED BY <2>5 DEF Entered, first
<1>10. ASSUME NEW q \in PlayerIds, NEW h, NEW t \in Coordinates, SnakeOn(entered, q, h, t)
       PROVE  SnakeOn(data'.map, q, h, t)
  <2> HIDE DEF entered
  <2>1. ASSUME NEW c \in EmptyTiles(entered)
        PROVE  SnakeOn(SetTileFruit(entered, c), q, h, t)
    BY <1>6, <1>10, SnakeAtFruit
  <2> QED BY <1>2, <1>4, <1>10, <2>1
<1>11. ASSUME NEW c \in Coordinates, data'.map[c].type = "player"
       PROVE  \/ data'.map[c].player = p
              \/ data'.map[c].player # p /\ data'.map[c] = data.map[c]
  <2> HIDE DEF entered
  <2>1. data'.map[c] = entered[c]
    <3>1. ASSUME NEW e \in EmptyTiles(entered), map = SetTileFruit(entered, e)
          PROVE  map[c] = entered[c]
      <4> DEFINE t == [entered[e] EXCEPT !.type = "fruit"]
      <4>1. e \in Coordinates
        BY DEF EmptyTiles
      <4>2. map = [entered EXCEPT ![e] = t] /\ t.type = "fruit"
        BY <1>6, <3>1, <4>1, SetTileFruitTiles
      <4> HIDE DEF t
      <4>3. map[c].type = "player"
        BY <1>4, <1>11
      <4> QED BY <1>6, <4>1, <4>2, <4>3 DEF Maps
    <3> QED BY <1>2, <1>4, <3>1
  <2>2. CASE c \in {head, tail}
    BY <1>6, <2>1, <2>2
  <2>3. CASE c \notin {head, tail}
    BY <1>6, <2>1, <2>3
  <2> QED BY <2>2, <2>3
<1>12. SnakeOn(data'.map, p, data'.head[p], data'.tail[p])
  <2> HIDE DEF entered
  <2>1. SnakeOn(data'.map, p, head, tail)
    BY <1>1, <1>8, <1>10
  <2> QED BY <1>3, <1>4, <2>1, OthersCache
<1>13. \A q \in PlayerIds \ {p} : HasSnake(q) => SnakeOn(data'.map, q, data.head[q], data.tail[q])
  <2> HIDE DEF entered
  <2> SUFFICES ASSUME NEW q \in PlayerIds \ {p}, HasSnake(q)
               PROVE  SnakeOn(data'.map, q, data.head[q], data.tail[q])
    OBVIOUS
  <2>1. data.tail[q] \in Coordinates
    BY SnakeFacts
  <2> QED BY <1>9, <1>10, <2>1
<1>14. \A q \in PlayerIds \ {p} : data'.head[q] = data.head[q] /\ data'.tail[q] = data.tail[q]
  BY <1>3, <1>4, OthersCache
<1>15. Turn(p)
  BY DEF Turn
<1> HIDE DEF entered
<1> QED BY <1>1, <1>5, <1>11, <1>12, <1>13, <1>14, <1>15, TurnKeepsSnakes

LEMMA KillKeepsSnakes ==
  ASSUME IInv, Snakes, NEW p \in PlayerIds, RemoveDisconnected(p) \/ Crash(p)
  PROVE  Snakes'
<1> DEFINE new == MarkPlayerAsDead(data.map, p, data.head[p])
<1>1. /\ HasSnake(p) /\ data' = KillPlayer(data, p) /\ Turn(p)
      /\ \E s \in {"Dead", "NotConnected"} : SetStatus(p, s)
  BY DEF RemoveDisconnected, Crash, HasMove, HasStatus, HasSnake, Turn
<1>2. ~HasSnake(p)'
  BY <1>1, PlayerFacts DEF SetStatus, Players, HasSnake, HasStatus
<1>3. /\ data \in Data /\ data.map \in Maps
      /\ SnakeOn(data.map, p, data.head[p], data.tail[p])
  BY <1>1, SnakeFacts DEF Snakes
<1>4. Made(data, data', new, data.head, data.tail, 0)
  BY <1>1, <1>3, KillMakes
<1>5. data'.map = new /\ data'.head = data.head /\ data'.tail = data.tail
  BY <1>4 DEF Made
<1>6. ~data'.failed
  <2>1. data'.failed = data.failed
    BY <1>4 DEF Made
  <2> QED BY <2>1 DEF Snakes
<1>7. /\ \A c \in Coordinates :
           new[c] = IF IsTileOf(data.map, p, c) THEN [data.map[c] EXCEPT !.type = "dead"]
                                                ELSE data.map[c]
      /\ TilesOf(new, p) = {}
  BY <1>3, SnakeDies
<1>8. \A q \in PlayerIds \ {p} : HasSnake(q) => SnakeOn(data'.map, q, data.head[q], data.tail[q])
  <2> SUFFICES ASSUME NEW q \in PlayerIds \ {p}, HasSnake(q)
               PROVE  SnakeOn(new, q, data.head[q], data.tail[q])
    BY <1>5
  <2>1. data.tail[q] \in Coordinates /\ SnakeOn(data.map, q, data.head[q], data.tail[q])
    BY SnakeFacts DEF Snakes
  <2> QED BY <1>3, <2>1, OtherSnakeAtDeath
<1>9. ASSUME NEW c \in Coordinates, data'.map[c].type = "player"
      PROVE  data'.map[c].player # p /\ data'.map[c] = data.map[c]
  <2> HIDE DEF new
  <2>1. data.map[c] \in Tiles
    BY <1>3 DEF Maps
  <2>2. ~IsTileOf(data.map, p, c)
    <3>1. [data.map[c] EXCEPT !.type = "dead"].type = "dead"
      BY <2>1 DEF Tiles
    <3> QED BY <1>5, <1>7, <1>9, <3>1
  <2> QED BY <1>5, <1>7, <1>9, <2>2 DEF IsTileOf
<1> HIDE DEF new
<1>10. \A q \in PlayerIds \ {p} : data'.head[q] = data.head[q] /\ data'.tail[q] = data.tail[q]
  BY <1>5
<1> QED BY <1>1, <1>2, <1>6, <1>8, <1>9, <1>10, TurnKeepsSnakes

\* A step that leaves the tiles, the slots and the cache of all snakes alone.
Quiet ==
  /\ data'.head = data.head /\ data'.tail = data.tail /\ data'.failed = data.failed
  /\ \A q \in PlayerIds : HasSnake(q)' <=> HasSnake(q)
  /\ \A c \in Coordinates :
       \/ data'.map[c] = data.map[c]
       \/ data.map[c].type # "player" /\ data'.map[c].type # "player"

LEMMA QuietKeepsTiles ==
  ASSUME Quiet, NEW q \in PlayerIds
  PROVE  TilesOf(data'.map, q) = TilesOf(data.map, q)
BY DEF Quiet, TilesOf, IsTileOf

LEMMA QuietKeepsSnakes ==
  ASSUME IInv, Snakes, Quiet
  PROVE  Snakes'
<1>1. ASSUME NEW q \in PlayerIds, HasSnake(q)'
      PROVE  SnakeOn(data'.map, q, data'.head[q], data'.tail[q])
  <2>1. HasSnake(q) /\ data'.head = data.head /\ data'.tail = data.tail
    BY <1>1 DEF Quiet
  <2>2. SnakeOn(data.map, q, data.head[q], data.tail[q]) /\ data.tail[q] \in Coordinates
    BY <2>1, SnakeFacts DEF Snakes
  <2>3. \A c \in TilesOf(data.map, q) : data'.map[c].order = data.map[c].order
    BY DEF Quiet, TilesOf, IsTileOf
  <2>4. SnakeOn(data'.map, q, data.head[q], data.tail[q])
    BY <2>2, <2>3, QuietKeepsTiles, SnakeOfSameTiles
  <2> QED BY <2>1, <2>4
<1>2. ASSUME NEW c \in Coordinates, data'.map[c].type = "player"
      PROVE  HasSnake(data.map[c].player)'
  <2>1. data'.map[c] = data.map[c] /\ data.map[c] \in Tiles
    BY <1>2, PlayerFacts, TilesAreTiles, MaxPlayersAssumption DEF Quiet, IInv, TypeOK
  <2>2. HasSnake(data.map[c].player) /\ data.map[c].player \in PlayerIds
    BY <1>2, <2>1 DEF Snakes, OwnersHaveSnakes, Tiles
  <2>3. PICK q \in PlayerIds : q = data.map[c].player
    BY <2>2
  <2>4. HasSnake(q)'
    BY <2>2, <2>3 DEF Quiet
  <2> QED BY <2>1, <2>3, <2>4 DEF HasSnake, HasStatus
<1>3. ~data'.failed
  BY DEF Quiet, Snakes
<1>4. \A q \in PlayerIds : HasSnake(q)' => SnakeOn(data'.map, q, data'.head[q], data'.tail[q])
  BY <1>1
<1>5. OwnersHaveSnakes(data.map)'
  BY <1>2 DEF OwnersHaveSnakes
<1> QED BY <1>3, <1>4, <1>5 DEF Snakes

\* SweepTile and SpawnFruit, field by field.
LEMMA SweepTileHasMade ==
  ASSUME IInv, SweepTile
  PROVE  \E c \in DeadTiles(data.map) :
           Made(data, data', SetTileEmpty(data.map, c), data.head, data.tail, 1)
<1>1. PICK c \in DeadTiles(data.map) :
        data' = PushTile([data EXCEPT !.map = SetTileEmpty(@, c)], c)
  BY DEF SweepTile
<1>2. c \in Coordinates /\ data \in Data /\ data.map \in Maps
  BY DEF DeadTiles, IInv, TypeOK, Data
<1> DEFINE map == SetTileEmpty(data.map, c)
<1>3. map \in Maps /\ data.head \in Cache /\ data.tail \in Cache
  BY <1>2, SetTileEmptyTiles DEF Data, Cache
<1>4. data' = PushTile([data EXCEPT !.map = map, !.head = data.head, !.tail = data.tail], c)
  BY <1>1, <1>2 DEF Data
<1> HIDE DEF map
<1>5. Made(data, data', map, data.head, data.tail, 1)
  BY <1>2, <1>3, <1>4, PushMakes
<1> QED BY <1>5 DEF map

LEMMA SpawnFruitHasMade ==
  ASSUME IInv, SpawnFruit
  PROVE  \/ data' = data /\ EmptyTiles(data.map) = {}
         \/ \E c \in EmptyTiles(data.map) :
              Made(data, data', SetTileFruit(data.map, c), data.head, data.tail, 1)
<1>1. data \in Data /\ data' \in FruitOutcomes(data)
  BY DEF SpawnFruit, IInv, TypeOK
<1>2. PICK e : e = data'
  OBVIOUS
<1> QED BY <1>1, <1>2, FruitMakes

LEMMA ClientKeepsSnakes ==
  ASSUME PlayersTypeOK, NEW p \in PlayerIds, ClientOperation(p), NEW q \in PlayerIds
  PROVE  HasSnake(q)' <=> HasSnake(q)
<1> USE DEF PlayersTypeOK, Players, Statuses, Directions, HasSnake, HasStatus
<1>1. CASE Register(p)
  BY <1>1 DEF Register
<1>2. CASE InUse(p) /\ Unregister(p)
  BY <1>2 DEF InUse, Unregister, SetStatus
<1>3. CASE Pause(p)
  BY <1>3 DEF Pause, SetStatus
<1>4. CASE Unpause(p)
  BY <1>4 DEF Unpause, SetStatus
<1>5. CASE Respawn(p)
  BY <1>5 DEF Respawn, SetStatus
<1>6. CASE InUse(p) /\ \E d \in Directions : SetPlayerDirection(p, d)
  BY <1>6 DEF InUse, SetPlayerDirection
<1> QED BY <1>1, <1>2, <1>3, <1>4, <1>5, <1>6 DEF ClientOperation

\* Nothing but a turn moves a snake.
LEMMA StepsAreQuiet ==
  ASSUME IInv, [Next]_vars, \A p \in PlayerIds : ~Turn(p)
  PROVE  Quiet
<1>t. data \in Data /\ data.map \in Maps /\ PlayersTypeOK
  BY DEF IInv, TypeOK, Data
<1>1. CASE BeginTick
  <2>1. data'.head = data.head /\ data'.tail = data.tail /\ data'.map = data.map
    BY <1>t, <1>1 DEF BeginTick, Data
  <2>2. data'.failed = data.failed
    BY <1>t, <1>1 DEF BeginTick, Data
  <2>3. players' = players
    BY <1>1 DEF BeginTick
  <2> QED BY <2>1, <2>2, <2>3 DEF Quiet, HasSnake, HasStatus
<1>2. CASE SweepTile
  <2>1. PICK c \in DeadTiles(data.map) :
          Made(data, data', SetTileEmpty(data.map, c), data.head, data.tail, 1)
    BY <1>2, SweepTileHasMade
  <2> DEFINE t == [data.map[c] EXCEPT !.type = "empty"]
  <2>2. c \in Coordinates /\ data.map[c].type # "player"
    BY DEF DeadTiles
  <2>3. SetTileEmpty(data.map, c) = [data.map EXCEPT ![c] = t] /\ t.type # "player"
    BY <1>t, <2>2, SetTileEmptyTiles
  <2> HIDE DEF t
  <2>4. /\ data'.head = data.head /\ data'.tail = data.tail
        /\ data'.map = [data.map EXCEPT ![c] = t]
    BY <2>1, <2>3 DEF Made
  <2>5. data'.failed = data.failed
    BY <2>1 DEF Made
  <2>6. \A e \in Coordinates :
          \/ data'.map[e] = data.map[e]
          \/ data.map[e].type # "player" /\ data'.map[e].type # "player"
    BY <1>t, <2>2, <2>3, <2>4 DEF Maps
  <2>7. players' = players
    BY <1>2 DEF SweepTile
  <2> QED BY <2>4, <2>5, <2>6, <2>7 DEF Quiet, HasSnake, HasStatus
<1>3. CASE SpawnFruit
  <2>1. players' = players
    BY <1>3 DEF SpawnFruit
  <2>2. ASSUME NEW c \in EmptyTiles(data.map),
               Made(data, data', SetTileFruit(data.map, c), data.head, data.tail, 1)
        PROVE  Quiet
    <3> DEFINE t == [data.map[c] EXCEPT !.type = "fruit"]
    <3>2. c \in Coordinates /\ data.map[c].type # "player"
      BY DEF EmptyTiles, IsTileEmpty
    <3>3. SetTileFruit(data.map, c) = [data.map EXCEPT ![c] = t] /\ t.type # "player"
      BY <1>t, <3>2, SetTileFruitTiles
    <3> HIDE DEF t
    <3>4. /\ data'.head = data.head /\ data'.tail = data.tail
          /\ data'.map = [data.map EXCEPT ![c] = t]
      BY <2>2, <3>3 DEF Made
    <3>5. data'.failed = data.failed
      BY <2>2 DEF Made
    <3>6. \A e \in Coordinates :
            \/ data'.map[e] = data.map[e]
            \/ data.map[e].type # "player" /\ data'.map[e].type # "player"
      BY <1>t, <3>2, <3>3, <3>4 DEF Maps
    <3> QED BY <2>1, <3>4, <3>5, <3>6 DEF Quiet, HasSnake, HasStatus
  <2>3. CASE data' = data
    BY <2>1, <2>3 DEF Quiet, HasSnake, HasStatus
  <2> QED BY <1>3, <2>2, <2>3, SpawnFruitHasMade
<1>4. ASSUME NEW p \in PlayerIds, ClientStep(p) PROVE Quiet
  <2>1. data' = data /\ ClientOperation(p)
    BY <1>4 DEF ClientStep
  <2>2. \A q \in PlayerIds : HasSnake(q)' <=> HasSnake(q)
    BY <1>t, <2>1, ClientKeepsSnakes
  <2> QED BY <2>1, <2>2 DEF Quiet
<1>5. CASE UNCHANGED <<players, data>>
  BY <1>5 DEF Quiet, HasSnake, HasStatus
<1>6. ReleasePlayers \/ EndSweep \/ EndTick \/ Interrupt \/ Terminated \/ UNCHANGED vars =>
        UNCHANGED <<players, data>>
  BY DEF ReleasePlayers, EndSweep, EndTick, Interrupt, Terminated, vars
<1> QED BY <1>1, <1>2, <1>3, <1>4, <1>5, <1>6 DEF Next, ServerStep

LEMMA RestIsQuiet ==
  ASSUME IInv, NEW p \in PlayerIds, FailToSpawn(p) \/ Rest(p)
  PROVE  Quiet
<1>1. \A q \in PlayerIds : HasSnake(q)' <=> HasSnake(q)
  BY PlayerFacts DEF FailToSpawn, Rest, SetStatus, Players, HasSnake, HasStatus
<1>2. data' = data \/ data' = SeenAlive(data)
  BY DEF FailToSpawn, Rest
<1>3. data \in Data
  BY PlayerFacts
<1>4. data'.head = data.head /\ data'.tail = data.tail /\ data'.map = data.map
  BY <1>2, <1>3 DEF SeenAlive, Data
<1>5. data'.failed = data.failed
  BY <1>2, <1>3 DEF SeenAlive, Data
<1> QED BY <1>1, <1>4, <1>5 DEF Quiet

LEMMA TurnStepKeepsSnakes ==
  ASSUME Roomy, IInv, Snakes, NobodyEatsAtItsTail, NEW p \in PlayerIds, Turn(p)
  PROVE  Snakes'
BY RestIsQuiet, QuietKeepsSnakes, SpawnKeepsSnakes, KillKeepsSnakes, CrawlKeepsSnakes, EatKeepsSnakes
   DEF Turn

LEMMA SnakesInit == Init => Snakes
<1> SUFFICES ASSUME Init PROVE Snakes
  OBVIOUS
<1>1. ~data.failed
  BY DEF Init
<1>2. \A p \in PlayerIds : ~HasSnake(p)
  BY DEF Init, PlayerManagerInit, HasSnake, HasStatus
<1>3. data.map = MapFromTemplate(Walls)
  BY DEF Init
<1>4. \A c \in Coordinates : data.map[c].type # "player"
  BY <1>3 DEF MapFromTemplate
<1> QED BY <1>1, <1>2, <1>4 DEF Snakes, OwnersHaveSnakes

LEMMA SnakesStep == Roomy /\ IInv /\ NobodyEatsAtItsTail /\ Snakes /\ [Next]_vars => Snakes'
<1> SUFFICES ASSUME Roomy, IInv, NobodyEatsAtItsTail, Snakes, [Next]_vars PROVE Snakes'
  OBVIOUS
<1> QED BY StepsAreQuiet, QuietKeepsSnakes, TurnStepKeepsSnakes

LEMMA SnakesAreThere == Roomy => (Spec /\ []NobodyEatsAtItsTail => []Snakes)
<1> SUFFICES ASSUME Roomy PROVE Spec /\ []NobodyEatsAtItsTail => []Snakes
  OBVIOUS
<1>1. IInv /\ NobodyEatsAtItsTail /\ Snakes /\ [Next]_vars => Snakes'
  BY SnakesStep
<1> QED BY SnakesInit, <1>1, InvariantHolds, PTL DEF Spec

LEMMA SnakesGiveTrails == Snakes => SnakesAreTrails /\ NeverFails
<1> SUFFICES ASSUME Snakes PROVE SnakesAreTrails /\ NeverFails
  OBVIOUS
<1>1. ASSUME NEW p \in PlayerIds, HasSnake(p) PROVE IsTrail(p)
  <2>1. SnakeOn(data.map, p, data.head[p], data.tail[p])
    BY <1>1 DEF Snakes
  <2>2. PICK last : Trail(TilesOf(data.map, p), data.map, data.head[p], last)
    BY <2>1 DEF SnakeOn
  <2> QED BY <2>2 DEF Trail, IsTrail
<1> QED BY <1>1 DEF Snakes, OwnersHaveSnakes, SnakesAreTrails, NeverFails

\* As long as no snake eats at its own cached tail, every snake is a trail and
\* every tile of a player belongs to a snake that is still there.
THEOREM SnakesStayTrails == Roomy => (Spec /\ []NobodyEatsAtItsTail => []SnakesAreTrails)
BY SnakesAreThere, SnakesGiveTrails, PTL

\* As long as no snake eats at its own cached tail, move_player_tail finds the
\* next tail and never comes to its exit (server.c:107-110).
THEOREM TailIsAlwaysFound == Roomy => (Spec /\ []NobodyEatsAtItsTail => []NeverFails)
BY SnakesAreThere, SnakesGiveTrails, PTL

-----------------------------------------------------------------------------
(* The cached tail.  A snake is owed its last tile when another has taken  *)
(* the one its cache names.                                                *)

Owed(p) == HasSnake(p) /\ ~IsTileOf(data.map, p, data.tail[p])

\* What a snake must not do, though the code lets it: eat while it is owed.
WholeSnakesEat ==
  \A p \in PlayerIds :
    HasMove(p) /\ TileAhead(p).type = "fruit" => IsTileOf(data.map, p, data.tail[p])

\* A snake is owed no longer than until its turn, which will come.
Prompt ==
  \A p \in PlayerIds :
    Owed(p) => stage = "players" /\ index <= p /\ ~HasStatus(p, {"Paused"})

\* With two players only the second is ever owed, and only before a free tile.
Ahead ==
  \A p \in PlayerIds : Owed(p) => index = 1 /\ TileAhead(p).type = "empty"

LEMMA WholeSnakesDoNotEatThere == WholeSnakesEat => NobodyEatsAtItsTail
BY DEF WholeSnakesEat, NobodyEatsAtItsTail, TileAhead, IsTileOf

\* The map that a crawl leaves, tile by tile.
LEMMA CrawledTiles ==
  ASSUME IInv, NEW p \in PlayerIds, HasMove(p)
  PROVE  /\ CrawledMap(p) \in Maps /\ NextHead(p) \in Coordinates
         /\ CrawledMap(p)[NextHead(p)] =
              [order |-> data.map[data.head[p]].order + 1, type |-> "player", player |-> p]
         /\ \A c \in Coordinates \ {NextHead(p)} :
              IF c = data.tail[p] /\ IsTileOf(data.map, p, c)
              THEN CrawledMap(p)[c] = [data.map[c] EXCEPT !.type = "empty"]
              ELSE CrawledMap(p)[c] = data.map[c]
<1> DEFINE next  == NextHead(p)
           tail  == data.tail[p]
           t     == [order |-> data.map[data.head[p]].order + 1, type |-> "player", player |-> p]
           moved == [data.map EXCEPT ![next] = t]
           u     == [moved[tail] EXCEPT !.type = "empty"]
           new   == [moved EXCEPT ![tail] = u]
<1>1. /\ data.map \in Maps /\ next \in Coordinates /\ tail \in Coordinates
      /\ data.head[p] \in Coordinates
  BY NextHeadIsNeighbor, SnakeFacts
<1>2. t \in Tiles
  BY <1>1, OrdersAreNumbers DEF Tiles, TileTypes
<1>3. HeadMoved(data.map, p, data.head[p], next) = moved
  BY DEF HeadMoved, SetTilePlayer
<1>4. CrawledMap(p) = IF IsTileOf(moved, p, tail) /\ next # tail THEN SetTileEmpty(moved, tail)
                                                                ELSE moved
  BY <1>3 DEF CrawledMap, TailCleared
<1> HIDE DEF t
<1>5. moved \in Maps /\ moved[next] = t /\ \A c \in Coordinates \ {next} : moved[c] = data.map[c]
  BY <1>1, <1>2 DEF Maps
<1> HIDE DEF moved, next, tail
<1>6. SetTileEmpty(moved, tail) \in Maps /\ SetTileEmpty(moved, tail) = new
  BY <1>1, <1>5, SetTileEmptyTiles
<1>7. next # tail => u = [data.map[tail] EXCEPT !.type = "empty"] /\ new[next] = t
  BY <1>1, <1>5 DEF Maps
<1> HIDE DEF u
<1>8. \A c \in Coordinates : new[c] = IF c = tail THEN u ELSE moved[c]
  BY <1>1, <1>5 DEF Maps
<1> HIDE DEF new
<1>9. next # tail => (IsTileOf(moved, p, tail) <=> IsTileOf(data.map, p, tail))
  BY <1>1, <1>5 DEF IsTileOf
<1>10. CASE next # tail /\ IsTileOf(data.map, p, tail)
  <2>1. CrawledMap(p) = new
    BY <1>4, <1>6, <1>9, <1>10
  <2> QED BY <1>1, <1>5, <1>6, <1>7, <1>8, <1>10, <2>1 DEF t, next, tail
<1>11. CASE ~(next # tail /\ IsTileOf(data.map, p, tail))
  <2>1. CrawledMap(p) = moved
    BY <1>4, <1>9, <1>11
  <2> QED BY <1>1, <1>5, <1>11, <2>1 DEF t, next, tail
<1> QED BY <1>10, <1>11

\* A turn takes from another snake at most the tile its cached tail names,
\* and that only if the snake is about to crawl.
LEMMA TurnOnOthers ==
  ASSUME Roomy, IInv, Snakes, NEW p \in PlayerIds, Turn(p), NEW q \in PlayerIds \ {p}, HasSnake(q)
  PROVE  /\ HasSnake(q)' /\ data'.head[q] = data.head[q] /\ data'.tail[q] = data.tail[q]
         /\ players'[q] = players[q]
         /\ \A c \in Coordinates :
              IsTileOf(data.map, q, c) =>
                \/ data'.map[c] = data.map[c]
                \/ c = NextHead(p) /\ Crawl(p) /\ IsTailVacated(p) /\ c = data.tail[q]
                   /\ TileAhead(p).player = q
<1>1. players'[q] = players[q] /\ HasSnake(q)'
  BY TurnIsOne, PlayerFacts DEF HasSnake, HasStatus
<1>2. data \in Data /\ data.map \in Maps /\ data.head \in Cache /\ data.tail \in Cache
  BY SnakeFacts
<1>3. CASE Spawn(p)
  <2>1. PICK head \in EmptyTiles(data.map), tail \in EmptyTiles(data.map) :
          /\ head \in Coordinates /\ tail \in Coordinates /\ tail # head
          /\ \E map :
               /\ Made(data, data', map, [data.head EXCEPT ![p] = head],
                       [data.tail EXCEPT ![p] = tail], 3)
               /\ \/ map = Entered(data.map, p, head, tail)
                  \/ \E c \in EmptyTiles(Entered(data.map, p, head, tail)) :
                       map = SetTileFruit(Entered(data.map, p, head, tail), c)
    BY <1>3, SpawnHasMade
  <2> DEFINE entered == Entered(data.map, p, head, tail)
  <2>2. entered \in Maps /\ \A c \in Coordinates \ {head, tail} : entered[c] = data.map[c]
    <3>1. HasEntered(entered, data.map, p, head, tail)
      BY <1>2, <2>1, EnteredTiles
    <3> HIDE DEF entered
    <3> QED BY <3>1 DEF HasEntered
  <2> HIDE DEF entered
  <2>3. /\ data'.head = [data.head EXCEPT ![p] = head] /\ data'.tail = [data.tail EXCEPT ![p] = tail]
        /\ data'.map = entered \/ \E c \in EmptyTiles(entered) : data'.map = SetTileFruit(entered, c)
    BY <2>1 DEF Made, entered
  <2>4. ASSUME NEW c \in Coordinates, IsTileOf(data.map, q, c)
        PROVE  data'.map[c] = data.map[c]
    <3>1. c # head /\ c # tail
      BY <2>1, <2>4 DEF EmptyTiles, IsTileEmpty, IsTileOf
    <3>2. entered[c] = data.map[c]
      BY <2>2, <3>1
    <3>3. ASSUME NEW e \in EmptyTiles(entered)
          PROVE  SetTileFruit(entered, e)[c] = entered[c]
      <4>1. e # c /\ e \in Coordinates
        BY <2>4, <3>2 DEF EmptyTiles, IsTileEmpty, IsTileOf
      <4> QED BY <2>2, <4>1, SetTileFruitTiles DEF Maps
    <3> QED BY <2>3, <3>2, <3>3
  <2> QED BY <1>1, <1>2, <2>3, <2>4, OthersCache
<1>4. CASE RemoveDisconnected(p) \/ Crash(p)
  <2>1. HasSnake(p) /\ data' = KillPlayer(data, p)
    BY <1>4 DEF RemoveDisconnected, Crash, HasMove, HasStatus, HasSnake
  <2>2. Made(data, data', MarkPlayerAsDead(data.map, p, data.head[p]), data.head, data.tail, 0)
    BY <1>2, <2>1, KillMakes
  <2>3. \A c \in Coordinates :
          MarkPlayerAsDead(data.map, p, data.head[p])[c] =
            IF IsTileOf(data.map, p, c) THEN [data.map[c] EXCEPT !.type = "dead"] ELSE data.map[c]
    BY <1>2, <2>1, SnakeDies DEF Snakes
  <2>4. \A c \in Coordinates : IsTileOf(data.map, q, c) => ~IsTileOf(data.map, p, c)
    BY DEF IsTileOf
  <2>5. data'.map = MarkPlayerAsDead(data.map, p, data.head[p])
        /\ data'.head = data.head /\ data'.tail = data.tail
    BY <2>2 DEF Made
  <2>6. \A c \in Coordinates : IsTileOf(data.map, q, c) => data'.map[c] = data.map[c]
    BY <2>3, <2>4, <2>5
  <2> QED BY <1>1, <2>5, <2>6
<1>5. CASE FailToSpawn(p) \/ Rest(p)
  <2>1. data' = data \/ data' = SeenAlive(data)
    BY <1>5 DEF FailToSpawn, Rest
  <2>2. data'.head = data.head /\ data'.tail = data.tail /\ data'.map = data.map
    BY <1>2, <2>1 DEF SeenAlive, Data
  <2> QED BY <1>1, <2>2
<1>6. CASE Crawl(p)
  <2>1. /\ data'.map = CrawledMap(p) /\ data'.head = [data.head EXCEPT ![p] = NextHead(p)]
        /\ data'.tail = [data.tail EXCEPT ![p] = CrawledTail(p)]
    BY <1>6, CrawlMakes DEF Made
  <2>2. \A c \in Coordinates \ {NextHead(p)} :
          IF c = data.tail[p] /\ IsTileOf(data.map, p, c)
          THEN CrawledMap(p)[c] = [data.map[c] EXCEPT !.type = "empty"]
          ELSE CrawledMap(p)[c] = data.map[c]
    BY <1>6, CrawledTiles DEF Crawl
  <2>3. ASSUME NEW c \in Coordinates, IsTileOf(data.map, q, c)
        PROVE  \/ data'.map[c] = data.map[c]
               \/ c = NextHead(p) /\ Crawl(p) /\ IsTailVacated(p) /\ c = data.tail[q]
                  /\ TileAhead(p).player = q
    <3>1. CASE c = NextHead(p)
      BY <1>6, <2>3, <3>1, CrawlGoesOntoTails
    <3>2. CASE c # NextHead(p)
      <4>1. ~IsTileOf(data.map, p, c)
        BY <2>3 DEF IsTileOf
      <4> QED BY <2>1, <2>2, <3>2, <4>1
    <3> QED BY <3>1, <3>2
  <2> QED BY <1>1, <1>2, <2>1, <2>3, OthersCache
<1>7. CASE Eat(p)
  <2>1. /\ data'.map = HeadMoved(data.map, p, data.head[p], NextHead(p))
        /\ data'.head = [data.head EXCEPT ![p] = NextHead(p)] /\ data'.tail = data.tail
    BY <1>7, EatMakes
  <2>2. NextHead(p) \in Coordinates /\ data.head[p] \in Coordinates /\ TileAhead(p).type = "fruit"
    BY <1>7, MoverFacts DEF Eat
  <2> DEFINE t == [order |-> data.map[data.head[p]].order + 1, type |-> "player", player |-> p]
  <2>3. data'.map = [data.map EXCEPT ![NextHead(p)] = t]
    BY <2>1 DEF HeadMoved, SetTilePlayer
  <2> HIDE DEF t
  <2>4. ASSUME NEW c \in Coordinates, IsTileOf(data.map, q, c)
        PROVE  data'.map[c] = data.map[c]
    <3>1. c # NextHead(p)
      BY <2>2, <2>4 DEF TileAhead, IsTileOf
    <3> QED BY <1>2, <2>3, <3>1 DEF Maps
  <2> QED BY <1>1, <1>2, <2>1, <2>4, OthersCache
<1> QED BY <1>3, <1>4, <1>5, <1>6, <1>7 DEF Turn

LEMMA OwedAfterTurn ==
  ASSUME Roomy, IInv, Snakes, NEW p \in PlayerIds, Turn(p), NEW q \in PlayerIds \ {p}, Owed(q)'
  PROVE  \/ Owed(q) /\ players'[q] = players[q]
         \/ /\ Crawl(p) /\ IsTailVacated(p) /\ TileAhead(p).player = q
            /\ q > p /\ ~HasStatus(q, {"Paused"}) /\ players'[q] = players[q]
            /\ IsTileEmpty(data.map, NextHead(q))
<1>1. HasSnake(q)
  BY TurnIsOne, PlayerFacts DEF Owed, HasSnake, HasStatus
<1>2. /\ data'.tail[q] = data.tail[q] /\ players'[q] = players[q]
      /\ \A c \in Coordinates :
           IsTileOf(data.map, q, c) =>
             \/ data'.map[c] = data.map[c]
             \/ Crawl(p) /\ IsTailVacated(p) /\ TileAhead(p).player = q
  BY <1>1, TurnOnOthers
<1>3. data.tail[q] \in Coordinates
  BY <1>1, SnakeFacts
<1>4. CASE Owed(q)
  BY <1>2, <1>4
<1>5. CASE ~Owed(q)
  <2>1. IsTileOf(data.map, q, data.tail[q])
    BY <1>1, <1>5 DEF Owed
  <2>2. ~IsTileOf(data'.map, q, data.tail[q])
    BY <1>2 DEF Owed, IsTileOf
  <2>3. Crawl(p) /\ IsTailVacated(p) /\ TileAhead(p).player = q
    BY <1>2, <1>3, <2>1, <2>2 DEF IsTileOf
  <2>4. q > p /\ ~HasStatus(q, {"Paused"}) /\ IsTileEmpty(data.map, NextHead(q))
    BY <2>3 DEF IsTailVacated, HasStatus
  <2> QED BY <1>2, <2>3, <2>4
<1> QED BY <1>4, <1>5

\* After entering or crawling, the cached tail names a tile of the snake.
LEMMA TailIsOwn ==
  ASSUME Roomy, IInv, Snakes, NEW p \in PlayerIds, Spawn(p) \/ Crawl(p)
  PROVE  IsTileOf(data'.map, p, data'.tail[p])
<1>t. data \in Data /\ data.map \in Maps /\ data.tail \in Cache
  BY PlayerFacts DEF Data, Cache
<1>1. CASE Spawn(p)
  <2>1. PICK head \in EmptyTiles(data.map), tail \in EmptyTiles(data.map) :
          /\ head \in Coordinates /\ tail \in Coordinates /\ tail # head
          /\ \E map :
               /\ Made(data, data', map, [data.head EXCEPT ![p] = head],
                       [data.tail EXCEPT ![p] = tail], 3)
               /\ \/ map = Entered(data.map, p, head, tail)
                  \/ \E c \in EmptyTiles(Entered(data.map, p, head, tail)) :
                       map = SetTileFruit(Entered(data.map, p, head, tail), c)
    BY <1>1, SpawnHasMade
  <2> DEFINE entered == Entered(data.map, p, head, tail)
  <2>2. HasEntered(entered, data.map, p, head, tail)
    BY <1>t, <2>1, EnteredTiles
  <2> HIDE DEF entered
  <2>3. /\ data'.tail = [data.tail EXCEPT ![p] = tail]
        /\ data'.map = entered \/ \E c \in EmptyTiles(entered) : data'.map = SetTileFruit(entered, c)
    BY <2>1 DEF Made, entered
  <2>4. IsTileOf(entered, p, tail) /\ entered \in Maps
    BY <2>2 DEF HasEntered, IsTileOf
  <2>5. ASSUME NEW c \in EmptyTiles(entered)
        PROVE  IsTileOf(SetTileFruit(entered, c), p, tail)
    <3>1. c # tail /\ c \in Coordinates
      BY <2>4 DEF EmptyTiles, IsTileEmpty, IsTileOf
    <3>2. SetTileFruit(entered, c)[tail] = entered[tail]
      BY <2>1, <2>4, <3>1, SetTileFruitTiles DEF Maps
    <3> QED BY <2>4, <3>2 DEF IsTileOf
  <2>6. IsTileOf(data'.map, p, tail)
    BY <2>3, <2>4, <2>5
  <2>7. data'.tail[p] = tail
    BY <1>t, <2>3, OthersCache
  <2> QED BY <2>6, <2>7
<1>2. CASE Crawl(p)
  <2>1. /\ data'.map = CrawledMap(p) /\ data'.tail = [data.tail EXCEPT ![p] = CrawledTail(p)]
        /\ IsTileOf(CrawledMap(p), p, CrawledTail(p))
    BY <1>2, CrawlMakes DEF Made
  <2>2. data'.tail[p] = CrawledTail(p)
    BY <1>t, <2>1, OthersCache
  <2> QED BY <2>1, <2>2
<1> QED BY <1>1, <1>2

\* Whose turn it was is owed no more.
LEMMA TurnGivesBack ==
  ASSUME Roomy, IInv, Snakes, WholeSnakesEat, Prompt, NEW p \in PlayerIds, Turn(p)
  PROVE  ~Owed(p)'
<1>t. data \in Data /\ data.map \in Maps /\ data.head \in Cache /\ data.tail \in Cache
      /\ players \in Players
  BY PlayerFacts DEF Data, Cache
<1>1. CASE Spawn(p) \/ Crawl(p)
  <2>1. IsTileOf(data'.map, p, data'.tail[p])
    BY <1>1, TailIsOwn
  <2> QED BY <2>1 DEF Owed, IsTileOf
<1>2. CASE FailToSpawn(p) \/ RemoveDisconnected(p) \/ Crash(p)
  <2>1. ~HasSnake(p)'
    BY <1>t, <1>2 DEF FailToSpawn, RemoveDisconnected, Crash, SetStatus, Players, HasSnake, HasStatus
  <2> QED BY <2>1 DEF Owed
<1>3. CASE Rest(p)
  <2>1. data' = data \/ data' = SeenAlive(data)
    BY <1>3 DEF Rest
  <2>2. data'.tail = data.tail /\ data'.map = data.map
    BY <1>t, <2>1 DEF SeenAlive, Data
  <2>3. ~Owed(p)
    BY <1>3 DEF Rest, Prompt, Owed, HasSnake, HasStatus
  <2>4. players' = players
    BY <1>3 DEF Rest
  <2> QED BY <2>2, <2>3, <2>4 DEF Owed, HasSnake, HasStatus, IsTileOf
<1>5. CASE Eat(p)
  <2>1. /\ data'.map = HeadMoved(data.map, p, data.head[p], NextHead(p)) /\ data'.tail = data.tail
    BY <1>5, EatMakes
  <2>2. /\ NextHead(p) \in Coordinates /\ data.head[p] \in Coordinates /\ data.tail[p] \in Coordinates
        /\ TileAhead(p).type = "fruit" /\ HasMove(p)
    BY <1>5, MoverFacts DEF Eat
  <2>3. IsTileOf(data.map, p, data.tail[p])
    BY <2>2 DEF WholeSnakesEat
  <2>4. data.tail[p] # NextHead(p)
    BY <2>2, <2>3 DEF TileAhead, IsTileOf
  <2> DEFINE t == [order |-> data.map[data.head[p]].order + 1, type |-> "player", player |-> p]
  <2>5. data'.map = [data.map EXCEPT ![NextHead(p)] = t]
    BY <2>1 DEF HeadMoved, SetTilePlayer
  <2> HIDE DEF t
  <2>6. data'.map[data.tail[p]] = data.map[data.tail[p]]
    BY <1>t, <2>2, <2>4, <2>5 DEF Maps
  <2> QED BY <2>1, <2>3, <2>6 DEF Owed, IsTileOf
<1> QED BY <1>1, <1>2, <1>3, <1>5 DEF Turn

\* Nobody is owed anything when the slots are released, and later nobody
\* comes to be.
LEMMA QuietOwesNothing ==
  ASSUME IInv, Prompt, [Next]_vars, \A p \in PlayerIds : ~Turn(p), ~UNCHANGED vars,
         NEW q \in PlayerIds
  PROVE  ~Owed(q)'
<1>1. Quiet /\ index \in 0 .. MaxPlayers /\ q \in 0 .. MaxPlayers - 1
  BY StepsAreQuiet DEF IInv, TypeOK, PlayerIds
<1>2. stage # "players" \/ index = MaxPlayers
  BY DEF Next, ServerStep, BeginTick, ReleasePlayers, SweepTile, EndSweep, SpawnFruit, EndTick,
         Interrupt, ClientStep, Terminated
<1>3. ~Owed(q)
  BY <1>1, <1>2, MaxPlayersAssumption DEF Prompt
<1>4. HasSnake(q)' => HasSnake(q) /\ IsTileOf(data.map, q, data.tail[q])
  BY <1>1, <1>3 DEF Quiet, Owed
<1>5. CASE HasSnake(q)'
  <2>1. data.tail[q] \in Coordinates /\ data'.tail[q] = data.tail[q]
    BY <1>1, <1>4, <1>5, SnakeFacts DEF Quiet
  <2>2. data.tail[q] \in TilesOf(data'.map, q)
    BY <1>1, <1>4, <1>5, <2>1, QuietKeepsTiles DEF TilesOf
  <2> QED BY <2>1, <2>2 DEF Owed, TilesOf, IsTileOf
<1>6. CASE ~HasSnake(q)'
  BY <1>6 DEF Owed
<1> QED BY <1>5, <1>6

LEMMA PromptStep == Roomy /\ IInv /\ Snakes /\ WholeSnakesEat /\ Prompt /\ [Next]_vars => Prompt'
<1> SUFFICES ASSUME Roomy, IInv, Snakes, WholeSnakesEat, Prompt, [Next]_vars,
                    NEW q \in PlayerIds, Owed(q)'
             PROVE  stage' = "players" /\ index' <= q /\ ~HasStatus(q, {"Paused"})'
  BY DEF Prompt
<1>1. ASSUME NEW p \in PlayerIds, Turn(p)
      PROVE  stage' = "players" /\ index' <= q /\ ~HasStatus(q, {"Paused"})'
  <2>1. q # p
    BY <1>1, TurnGivesBack
  <2>2. stage' = "players" /\ index = p /\ index' = p + 1
    BY <1>1, TurnIsOne
  <2>3. q >= p /\ ~HasStatus(q, {"Paused"}) /\ players'[q] = players[q]
    BY <1>1, <2>1, <2>2, OwedAfterTurn DEF Prompt, PlayerIds
  <2>4. index' <= q
    BY <2>1, <2>2, <2>3, MaxPlayersAssumption DEF PlayerIds
  <2> QED BY <2>2, <2>3, <2>4 DEF HasStatus
<1>2. CASE UNCHANGED vars
  BY <1>2 DEF vars, Prompt, Owed, HasSnake, HasStatus
<1> QED BY <1>1, <1>2, QuietOwesNothing

LEMMA PromptInit == Init => Prompt
BY DEF Init, PlayerManagerInit, Prompt, Owed, HasSnake, HasStatus

LEMMA PromptGivesCache == Snakes /\ Prompt => TailCacheFollows
<1> SUFFICES ASSUME Snakes, Prompt, NEW p \in PlayerIds, HasSnake(p)
             PROVE  \E last \in TilesOf(data.map, p) :
                      /\ \A c \in TilesOf(data.map, p) : data.map[last].order <= data.map[c].order
                      /\ \/ data.tail[p] = last
                         \/ /\ data.tail[p] \notin TilesOf(data.map, p)
                            /\ data.tail[p] \in Neighbors(last)
                            /\ stage = "players" /\ index <= p
  BY DEF TailCacheFollows
<1>1. SnakeOn(data.map, p, data.head[p], data.tail[p])
  BY DEF Snakes
<1>2. PICK last :
        /\ Trail(TilesOf(data.map, p), data.map, data.head[p], last)
        /\ \/ data.tail[p] = last
           \/ ~IsTileOf(data.map, p, data.tail[p]) /\ data.tail[p] \in Neighbors(last)
  BY <1>1 DEF SnakeOn
<1>3. last \in TilesOf(data.map, p)
      /\ \A c \in TilesOf(data.map, p) : data.map[last].order <= data.map[c].order
  BY <1>2 DEF Trail
<1>4. ~IsTileOf(data.map, p, data.tail[p]) =>
        data.tail[p] \notin TilesOf(data.map, p) /\ stage = "players" /\ index <= p
  BY DEF Prompt, Owed, TilesOf
<1> QED BY <1>2, <1>3, <1>4

\* As long as no snake eats while it is owed its last tile, the cached tail is
\* the snake's last tile, or the one another snake has taken before its turn.
THEOREM TailCacheIsRight == Roomy => (Spec /\ []WholeSnakesEat => []TailCacheFollows)
<1> SUFFICES ASSUME Roomy PROVE Spec /\ []WholeSnakesEat => []TailCacheFollows
  OBVIOUS
<1>1. IInv /\ WholeSnakesEat /\ Snakes /\ Prompt /\ [Next]_vars => Snakes' /\ Prompt'
  BY SnakesStep, PromptStep, WholeSnakesDoNotEatThere
<1> QED BY SnakesInit, PromptInit, <1>1, PromptGivesCache, InvariantHolds, PTL DEF Spec

\* Two players: the tile ahead of the one who is owed was free when the other
\* took the tail, and the other has not moved there.
LEMMA AheadStep ==
  Roomy /\ MaxPlayers <= 2 /\ IInv /\ Snakes /\ WholeSnakesEat /\ Prompt /\ Ahead /\ [Next]_vars => Ahead'
<1> SUFFICES ASSUME Roomy, MaxPlayers <= 2, IInv, Snakes, WholeSnakesEat, Prompt, Ahead, [Next]_vars,
                    NEW q \in PlayerIds, Owed(q)'
             PROVE  index' = 1 /\ TileAhead(q)'.type = "empty"
  BY DEF Ahead
<1>1. ASSUME NEW p \in PlayerIds, Turn(p)
      PROVE  index' = 1 /\ TileAhead(q)'.type = "empty"
  <2>1. q # p /\ index = p /\ index' = p + 1 /\ HasSnake(q)'
    BY <1>1, TurnGivesBack, TurnIsOne DEF Owed
  <2>2. p \in 0 .. 1 /\ q \in 0 .. 1
    BY MaxPlayersAssumption DEF PlayerIds
  <2>3. ~Owed(q)
    <3>1. Owed(q) => index = 1 /\ index <= q
      BY DEF Ahead, Prompt
    <3> QED BY <2>1, <2>2, <3>1
  <2>4. /\ Crawl(p) /\ IsTailVacated(p) /\ TileAhead(p).player = q /\ q > p
        /\ players'[q] = players[q] /\ IsTileEmpty(data.map, NextHead(q))
    BY <1>1, <2>1, <2>3, OwedAfterTurn
  <2>5. p = 0 /\ q = 1 /\ index' = 1
    BY <2>1, <2>2, <2>4
  <2>6. HasSnake(q) /\ players \in Players
    BY <2>1, <2>4, PlayerFacts DEF HasSnake, HasStatus
  <2>7. data'.head[q] = data.head[q]
    BY <1>1, <2>1, <2>6, TurnOnOthers
  <2>8. HasMove(p) /\ data'.map = CrawledMap(p)
    BY <2>4, CrawlMakes DEF Made, Crawl
  <2>9. NextHead(q) \in Coordinates
    <3>1. players[q].direction \in Directions /\ data.head[q] \in Coordinates
      BY <2>6, PlayerFacts DEF HasSnake, HasStatus, PlayersTypeOK, Players
    <3> QED BY <3>1, MoveStaysOnMap DEF NextHead
  <2>10. NextHead(q) # NextHead(p) /\ ~IsTileOf(data.map, p, NextHead(q))
    BY <2>4 DEF IsTailVacated, TileAhead, IsTileEmpty, IsTileOf
  <2>11. CrawledMap(p)[NextHead(q)] = data.map[NextHead(q)]
    BY <2>8, <2>9, <2>10, CrawledTiles
  <2>12. NextHead(q)' = NextHead(q)
    BY <2>4, <2>7 DEF NextHead
  <2>13. TileAhead(q)' = data'.map[NextHead(q)]
    BY <2>12 DEF TileAhead
  <2> QED BY <2>4, <2>5, <2>8, <2>11, <2>13 DEF IsTileEmpty
<1>2. CASE UNCHANGED vars
  <2>1. Owed(q) /\ index' = index /\ TileAhead(q)' = TileAhead(q)
    BY <1>2 DEF vars, Owed, HasSnake, HasStatus, TileAhead, NextHead
  <2> QED BY <2>1 DEF Ahead
<1> QED BY <1>1, <1>2, QuietOwesNothing

LEMMA AheadInit == Init => Ahead
BY DEF Init, PlayerManagerInit, Ahead, Owed, HasSnake, HasStatus

LEMMA AheadIsWhole == Ahead => WholeSnakesEat
BY DEF Ahead, WholeSnakesEat, Owed, HasMove, HasStatus, HasSnake

LEMMA PairsStayWhole ==
  Roomy /\ MaxPlayers <= 2 => (Spec => [](Snakes /\ Prompt /\ WholeSnakesEat))
<1> SUFFICES ASSUME Roomy, MaxPlayers <= 2 PROVE Spec => [](Snakes /\ Prompt /\ WholeSnakesEat)
  OBVIOUS
<1>1. IInv /\ Snakes /\ Prompt /\ Ahead /\ [Next]_vars => Snakes' /\ Prompt' /\ Ahead'
  BY SnakesStep, PromptStep, AheadStep, AheadIsWhole, WholeSnakesDoNotEatThere
<1> QED BY SnakesInit, PromptInit, AheadInit, <1>1, AheadIsWhole, InvariantHolds, PTL DEF Spec

\* A server of at most two players never meets the stale tail: every snake is
\* a trail, its cached tail is right, and the tick never fails.
THEOREM PairsKeepTrails == Roomy /\ MaxPlayers <= 2 => (Spec => []SnakesAreTrails)
BY PairsStayWhole, SnakesGiveTrails, PTL

\* With two slots a cached tail is out of date only within a tick, until the turn
\* of its owner.
THEOREM PairsKeepTailCaches == Roomy /\ MaxPlayers <= 2 => (Spec => []TailCacheFollows)
BY PairsStayWhole, PromptGivesCache, PTL

\* With two slots the process never exits from move_player_tail.
THEOREM PairsNeverFail == Roomy /\ MaxPlayers <= 2 => (Spec => []NeverFails)
BY PairsStayWhole, SnakesGiveTrails, PTL

-----------------------------------------------------------------------------
(* Fruits, counted.                                                        *)

FruitsOn(map) == {c \in Coordinates : map[c].type = "fruit"}

\* A fruit that was there when the tick began is still there, or has been
\* eaten and is owed to the map, until the map is full.
FruitsAreKept ==
  LET old == Cardinality(FruitsOn(before))
      now == Cardinality(FruitsOn(data.map))
  IN  /\ stage \in {"players", "sweep"} => old <= now + data.fruitsEaten
      /\ stage = "sweep" => index = 0
      /\ stage = "fruits" => EmptyTiles(data.map) = {} \/ old <= now + (data.fruitsEaten - index)
      /\ stage \in {"idle", "ended"} => EmptyTiles(data.map) = {} \/ old <= now

LEMMA CoordinatesAreFinite ==
  IsFiniteSet(Coordinates) /\ Cardinality(Coordinates) = Height * Width
<1>1. /\ IsFiniteSet(0 .. Height - 1) /\ Cardinality(0 .. Height - 1) = Height
      /\ IsFiniteSet(0 .. Width - 1) /\ Cardinality(0 .. Width - 1) = Width
  <2>1. 0 \in Int /\ Height - 1 \in Int /\ Width - 1 \in Int
    BY MapAssumption
  <2>2. \A n \in Int : IsFiniteSet(0 .. n) /\ Cardinality(0 .. n) = IF 0 > n THEN 0 ELSE n - 0 + 1
    BY FS_Interval
  <2> QED BY <2>1, <2>2, MapAssumption
<1>2. Coordinates = (0 .. Height - 1) \X (0 .. Width - 1)
  BY DEF Coordinates
<1> DEFINE rows == 0 .. Height - 1
           columns == 0 .. Width - 1
<1> HIDE DEF rows, columns
<1>3. IsFiniteSet(rows) /\ IsFiniteSet(columns)
  BY <1>1 DEF rows, columns
<1>4. /\ IsFiniteSet(rows \X columns)
      /\ Cardinality(rows \X columns) = Cardinality(rows) * Cardinality(columns)
  BY <1>3, FS_Product
<1>5. Cardinality(rows) = Height /\ Cardinality(columns) = Width
  BY <1>1 DEF rows, columns
<1>6. Coordinates = rows \X columns
  BY <1>2 DEF rows, columns
<1> QED BY <1>4, <1>5, <1>6

LEMMA FruitsAreFinite ==
  ASSUME NEW map
  PROVE  IsFiniteSet(FruitsOn(map)) /\ Cardinality(FruitsOn(map)) \in Nat
<1>1. FruitsOn(map) \in SUBSET Coordinates
  BY DEF FruitsOn
<1>2. IsFiniteSet(FruitsOn(map))
  BY <1>1, CoordinatesAreFinite, FS_Subset
<1> QED BY <1>2, FS_CardinalityType

\* A tile is written.
LEMMA FruitIsOverwritten ==
  ASSUME NEW map \in Maps, NEW c \in Coordinates, NEW t, t.type # "fruit"
  PROVE  FruitsOn([map EXCEPT ![c] = t]) = FruitsOn(map) \ {c}
<1> DEFINE new == [map EXCEPT ![c] = t]
<1>1. \A e \in Coordinates : new[e] = IF e = c THEN t ELSE map[e]
  BY DEF Maps
<1> HIDE DEF new
<1>2. FruitsOn(new) = FruitsOn(map) \ {c}
  BY <1>1 DEF FruitsOn
<1> QED BY <1>2 DEF new

LEMMA NoFruitIsWritten ==
  ASSUME NEW map \in Maps, NEW c \in Coordinates, NEW p, NEW order, map[c].type # "fruit"
  PROVE  FruitsOn(SetTilePlayer(map, c, p, order)) = FruitsOn(map)
<1> DEFINE t == [order |-> order, type |-> "player", player |-> p]
<1>1. SetTilePlayer(map, c, p, order) = [map EXCEPT ![c] = t] /\ t.type # "fruit"
  BY DEF SetTilePlayer
<1> HIDE DEF t
<1>2. c \notin FruitsOn(map)
  BY DEF FruitsOn
<1>3. FruitsOn([map EXCEPT ![c] = t]) = FruitsOn(map) \ {c}
  BY <1>1, FruitIsOverwritten
<1> QED BY <1>1, <1>2, <1>3

LEMMA FruitIsLaid ==
  ASSUME NEW map \in Maps, NEW c \in EmptyTiles(map)
  PROVE  /\ FruitsOn(SetTileFruit(map, c)) = FruitsOn(map) \cup {c}
         /\ Cardinality(FruitsOn(SetTileFruit(map, c))) = Cardinality(FruitsOn(map)) + 1
<1> DEFINE t == [map[c] EXCEPT !.type = "fruit"]
<1>1. c \in Coordinates /\ c \notin FruitsOn(map)
  BY DEF EmptyTiles, IsTileEmpty, FruitsOn
<1>2. SetTileFruit(map, c) = [map EXCEPT ![c] = t] /\ t.type = "fruit"
  BY <1>1, SetTileFruitTiles
<1> HIDE DEF t
<1> DEFINE new == SetTileFruit(map, c)
<1>3. \A e \in Coordinates : new[e] = IF e = c THEN t ELSE map[e]
  BY <1>1, <1>2 DEF Maps
<1> HIDE DEF new
<1>4. FruitsOn(new) = FruitsOn(map) \cup {c}
  BY <1>1, <1>2, <1>3 DEF FruitsOn
<1>5. FruitsOn(SetTileFruit(map, c)) = FruitsOn(map) \cup {c}
  BY <1>4 DEF new
<1> QED BY <1>1, <1>5, FruitsAreFinite, FS_AddElement

\* Crawl writes this map whether it fails or not.
LEMMA CrawlWrites ==
  ASSUME IInv, NEW p \in PlayerIds, Crawl(p)
  PROVE  data'.map = CrawledMap(p) /\ data'.fruitsEaten = data.fruitsEaten
<1> DEFINE next  == NextHead(p)
           moved == HeadMoved(data.map, p, data.head[p], next)
           d     == MovePlayerHead(data, p, next)
           f     == ClearTail(d, p)
           e     == MovePlayerTail(d, p)
<1>1. /\ next \in Coordinates /\ HasSnake(p) /\ data \in Data
      /\ data.head \in Cache /\ data.head[p] \in Coordinates /\ data.tail[p] \in Coordinates
  BY NextHeadIsNeighbor, SnakeFacts DEF Crawl
<1>2. Made(data, d, moved, [data.head EXCEPT ![p] = next], data.tail, 1)
  BY <1>1, HeadMakes
<1> HIDE DEF d
<1>3. /\ d \in Data /\ d.map = moved /\ d.head = [data.head EXCEPT ![p] = next]
      /\ d.tail = data.tail /\ d.fruitsEaten = data.fruitsEaten
  BY <1>2 DEF Made
<1>4. d.head[p] = next
  BY <1>1, <1>3, OthersCache
<1>5. Made(d, f, TailCleared(d.map, p, d.head[p], d.tail[p]), d.head, d.tail, 1)
  BY <1>1, <1>3, ClearMakes
<1>6. e = PushTile([f EXCEPT !.tail[p] = NextTail(f, p)], NextTail(f, p)) \/ e = [f EXCEPT !.failed = TRUE]
  BY DEF MovePlayerTail
<1> HIDE DEF f, e
<1>7. f \in Data /\ f.map = CrawledMap(p) /\ f.fruitsEaten = data.fruitsEaten
  BY <1>3, <1>4, <1>5 DEF Made, CrawledMap
<1>8. e.map = f.map /\ e.fruitsEaten = f.fruitsEaten
  BY <1>6, <1>7 DEF PushTile, Data
<1>9. data' = e \/ data' = SeenAlive(e)
  BY DEF Crawl, d, e
<1>10. e = [f EXCEPT !.failed = TRUE] \/ \E r, l : e = [f EXCEPT !.tail = r, !.changelog = l]
  BY <1>6, <1>7 DEF PushTile, Data
<1>11. SeenAlive(e).map = e.map /\ SeenAlive(e).fruitsEaten = e.fruitsEaten
  BY <1>7, <1>10 DEF SeenAlive, Data
<1> QED BY <1>7, <1>8, <1>9, <1>11

LEMMA TurnKeepsFruits ==
  ASSUME IInv, NEW p \in PlayerIds, Turn(p)
  PROVE  /\ Cardinality(FruitsOn(data.map)) + data.fruitsEaten
              <= Cardinality(FruitsOn(data'.map)) + data'.fruitsEaten
         /\ data.fruitsEaten \in Nat /\ data'.fruitsEaten \in Nat
<1>t. data \in Data /\ data.map \in Maps /\ data.fruitsEaten \in Nat
  BY PlayerFacts DEF Data
<1>f. Cardinality(FruitsOn(data.map)) \in Nat
  BY FruitsAreFinite
<1>s. ASSUME FruitsOn(data'.map) = FruitsOn(data.map), data'.fruitsEaten = data.fruitsEaten
      PROVE  /\ Cardinality(FruitsOn(data.map)) + data.fruitsEaten
                  <= Cardinality(FruitsOn(data'.map)) + data'.fruitsEaten
             /\ data.fruitsEaten \in Nat /\ data'.fruitsEaten \in Nat
  BY <1>t, <1>f, <1>s
<1>1. CASE Spawn(p)
  <2>1. PICK head \in EmptyTiles(data.map), tail \in EmptyTiles(data.map) :
          /\ head \in Coordinates /\ tail \in Coordinates
          /\ \E map :
               /\ Made(data, data', map, [data.head EXCEPT ![p] = head],
                       [data.tail EXCEPT ![p] = tail], 3)
               /\ \/ map = Entered(data.map, p, head, tail)
                  \/ \E c \in EmptyTiles(Entered(data.map, p, head, tail)) :
                       map = SetTileFruit(Entered(data.map, p, head, tail), c)
    BY <1>1, SpawnHasMade
  <2> DEFINE first   == SetTilePlayer(data.map, head, p, 1)
             entered == Entered(data.map, p, head, tail)
  <2>2. first \in Maps /\ \A c \in Coordinates \ {head} : first[c] = data.map[c]
    BY <1>t, <2>1, FirstTileEnters
  <2>3. FruitsOn(first) = FruitsOn(data.map)
    BY <1>t, <2>1, NoFruitIsWritten DEF EmptyTiles, IsTileEmpty
  <2>4. first[head].type = "player"
    BY <1>t, <2>1 DEF SetTilePlayer, Maps
  <2>5. entered = SetTilePlayer(first, tail, p, 0)
    BY DEF Entered
  <2> HIDE DEF first
  <2>6. first[tail].type # "fruit"
    BY <2>1, <2>2, <2>4 DEF EmptyTiles, IsTileEmpty
  <2>7. FruitsOn(entered) = FruitsOn(data.map)
    BY <2>1, <2>2, <2>3, <2>5, <2>6, NoFruitIsWritten
  <2>8. entered \in Maps
    <3>1. [order |-> 0, type |-> "player", player |-> p] \in Tiles
      BY DEF Tiles, TileTypes
    <3> QED BY <2>1, <2>2, <2>5, <3>1 DEF SetTilePlayer, Maps
  <2> HIDE DEF entered
  <2>9. /\ data'.fruitsEaten = data.fruitsEaten
        /\ data'.map = entered \/ \E c \in EmptyTiles(entered) : data'.map = SetTileFruit(entered, c)
    BY <2>1 DEF Made, entered
  <2>10. ASSUME NEW c \in EmptyTiles(entered), data'.map = SetTileFruit(entered, c)
         PROVE  Cardinality(FruitsOn(data'.map)) = Cardinality(FruitsOn(data.map)) + 1
    BY <2>7, <2>8, <2>10, FruitIsLaid
  <2>11. \/ FruitsOn(data'.map) = FruitsOn(data.map)
         \/ Cardinality(FruitsOn(data'.map)) = Cardinality(FruitsOn(data.map)) + 1
    BY <2>7, <2>9, <2>10
  <2> QED BY <1>t, <1>f, <2>9, <2>11
<1>2. CASE RemoveDisconnected(p) \/ Crash(p)
  <2>1. data' = KillPlayer(data, p)
    BY <1>2 DEF RemoveDisconnected, Crash
  <2>2. Made(data, data', MarkPlayerAsDead(data.map, p, data.head[p]), data.head, data.tail, 0)
    BY <1>t, <2>1, KillMakes
  <2>3. data'.map = MarkPlayerAsDead(data.map, p, data.head[p])
        /\ data'.fruitsEaten = data.fruitsEaten
    BY <2>2 DEF Made
  <2> DEFINE hit == ConnectedTiles(data.map, p, data.head[p])
  <2>4. \A c \in hit : data.map[c].type = "player"
    BY DEF ConnectedTiles, TilesOf, IsTileOf
  <2>5. \A c \in Coordinates :
          data'.map[c] = IF c \in hit THEN [data.map[c] EXCEPT !.type = "dead"] ELSE data.map[c]
    BY <2>3 DEF MarkPlayerAsDead
  <2>6. \A c \in Coordinates : data.map[c] \in Tiles
    BY <1>t DEF Maps
  <2> HIDE DEF hit
  <2>7. FruitsOn(data'.map) = FruitsOn(data.map)
    BY <2>4, <2>5, <2>6 DEF FruitsOn, Tiles
  <2> QED BY <1>s, <2>3, <2>7
<1>3. CASE FailToSpawn(p) \/ Rest(p)
  <2>1. data' = data \/ data' = SeenAlive(data)
    BY <1>3 DEF FailToSpawn, Rest
  <2>2. data'.map = data.map /\ data'.fruitsEaten = data.fruitsEaten
    BY <1>t, <2>1 DEF SeenAlive, Data
  <2> QED BY <1>s, <2>2
<1>4. CASE Crawl(p)
  <2>1. data'.map = CrawledMap(p) /\ data'.fruitsEaten = data.fruitsEaten
    BY <1>4, CrawlWrites
  <2>2. /\ CrawledMap(p)[NextHead(p)].type # "fruit"
        /\ \A c \in Coordinates \ {NextHead(p)} :
             \/ CrawledMap(p)[c] = data.map[c]
             \/ IsTileOf(data.map, p, c) /\ CrawledMap(p)[c] = [data.map[c] EXCEPT !.type = "empty"]
    <3>1. HasMove(p)
      BY <1>4 DEF Crawl
    <3>2. /\ CrawledMap(p)[NextHead(p)] =
               [order |-> data.map[data.head[p]].order + 1, type |-> "player", player |-> p]
          /\ \A c \in Coordinates \ {NextHead(p)} :
               IF c = data.tail[p] /\ IsTileOf(data.map, p, c)
               THEN CrawledMap(p)[c] = [data.map[c] EXCEPT !.type = "empty"]
               ELSE CrawledMap(p)[c] = data.map[c]
      BY <3>1, CrawledTiles
    <3>3. CrawledMap(p)[NextHead(p)].type # "fruit"
      BY <3>2
    <3> QED BY <3>2, <3>3
  <2>3. data.map[NextHead(p)].type # "fruit"
    BY <1>4 DEF Crawl, IsTailVacated, TileAhead
  <2>4. \A c \in Coordinates : data.map[c] \in Tiles
    BY <1>t DEF Maps
  <2>5. \A c \in Coordinates : CrawledMap(p)[c].type = "fruit" <=> data.map[c].type = "fruit"
    BY <2>2, <2>3, <2>4 DEF IsTileOf, Tiles
  <2> QED BY <1>s, <2>1, <2>5 DEF FruitsOn
<1>5. CASE Eat(p)
  <2>1. /\ data'.map = HeadMoved(data.map, p, data.head[p], NextHead(p))
        /\ data'.fruitsEaten = data.fruitsEaten + 1
    BY <1>5, EatMakes
  <2> DEFINE t == [order |-> data.map[data.head[p]].order + 1, type |-> "player", player |-> p]
  <2>2. data'.map = [data.map EXCEPT ![NextHead(p)] = t] /\ t.type # "fruit"
    BY <2>1 DEF HeadMoved, SetTilePlayer
  <2> HIDE DEF t
  <2>3. NextHead(p) \in Coordinates
    BY <1>5, MoverFacts DEF Eat
  <2>4. FruitsOn([data.map EXCEPT ![NextHead(p)] = t]) = FruitsOn(data.map) \ {NextHead(p)}
    BY <1>t, <2>2, <2>3, FruitIsOverwritten
  <2>5. FruitsOn(data'.map) = FruitsOn(data.map) \ {NextHead(p)}
    BY <2>2, <2>4
  <2>6. Cardinality(FruitsOn(data'.map)) >= Cardinality(FruitsOn(data.map)) - 1
    BY <1>f, <2>5, FruitsAreFinite, FS_RemoveElement
  <2>7. Cardinality(FruitsOn(data'.map)) \in Nat
    BY FruitsAreFinite
  <2> QED BY <1>t, <1>f, <2>1, <2>6, <2>7
<1> QED BY <1>1, <1>2, <1>3, <1>4, <1>5 DEF Turn

LEMMA FruitsInit == Init => FruitsAreKept
<1> SUFFICES ASSUME Init PROVE FruitsAreKept
  OBVIOUS
<1>1. stage = "idle" /\ before = data.map
  BY DEF Init
<1>2. Cardinality(FruitsOn(before)) <= Cardinality(FruitsOn(data.map))
  BY <1>1, FruitsAreFinite
<1> QED BY <1>1, <1>2 DEF FruitsAreKept

LEMMA FruitsStep == IInv /\ FruitsAreKept /\ [Next]_vars => FruitsAreKept'
<1> SUFFICES ASSUME IInv, FruitsAreKept, [Next]_vars PROVE FruitsAreKept'
  OBVIOUS
<1> DEFINE old == Cardinality(FruitsOn(before))
           now == Cardinality(FruitsOn(data.map))
<1>t. /\ data \in Data /\ data.map \in Maps /\ data.fruitsEaten \in Nat
      /\ index \in 0 .. MaxPlayers /\ MaxPlayers \in Nat
  BY MaxPlayersAssumption DEF IInv, TypeOK, Data
<1>f. old \in Nat /\ now \in Nat
  BY FruitsAreFinite
<1>1. CASE BeginTick
  <2>1. data'.map = data.map /\ data'.fruitsEaten = 0
    BY <1>t, <1>1 DEF BeginTick, Data
  <2>2. before' = data.map /\ stage' = "players"
    BY <1>1 DEF BeginTick
  <2>3. Cardinality(FruitsOn(before')) = now /\ Cardinality(FruitsOn(data'.map)) = now
    BY <2>1, <2>2
  <2> HIDE DEF now
  <2> QED BY <1>f, <2>1, <2>2, <2>3 DEF FruitsAreKept
<1>2. ASSUME NEW p \in PlayerIds, Turn(p) PROVE FruitsAreKept'
  <2>1. stage = "players" /\ stage' = "players"
    BY <1>2, TurnIsOne
  <2>2. before' = before
    BY <1>2 DEF Turn, Spawn, FailToSpawn, RemoveDisconnected, Rest, Crawl, Eat, Crash, TurnDone
  <2>3. /\ now + data.fruitsEaten <= Cardinality(FruitsOn(data'.map)) + data'.fruitsEaten
        /\ data'.fruitsEaten \in Nat
    BY <1>2, TurnKeepsFruits
  <2>4. Cardinality(FruitsOn(data'.map)) \in Nat
    BY FruitsAreFinite
  <2>5. old <= now + data.fruitsEaten
    BY <2>1 DEF FruitsAreKept
  <2>6. old <= Cardinality(FruitsOn(data'.map)) + data'.fruitsEaten
    <3> HIDE DEF old, now
    <3> QED BY <1>t, <1>f, <2>3, <2>4, <2>5
  <2> QED BY <2>1, <2>2, <2>6 DEF FruitsAreKept
<1>3. CASE SweepTile
  <2>1. PICK c \in DeadTiles(data.map) :
          Made(data, data', SetTileEmpty(data.map, c), data.head, data.tail, 1)
    BY <1>3, SweepTileHasMade
  <2> DEFINE t == [data.map[c] EXCEPT !.type = "empty"]
  <2>2. c \in Coordinates /\ c \notin FruitsOn(data.map)
    BY DEF DeadTiles, FruitsOn
  <2>3. SetTileEmpty(data.map, c) = [data.map EXCEPT ![c] = t] /\ t.type # "fruit"
    BY <1>t, <2>2, SetTileEmptyTiles
  <2> HIDE DEF t
  <2>4. FruitsOn([data.map EXCEPT ![c] = t]) = FruitsOn(data.map) \ {c}
    BY <1>t, <2>2, <2>3, FruitIsOverwritten
  <2>5. data'.map = [data.map EXCEPT ![c] = t] /\ data'.fruitsEaten = data.fruitsEaten
    BY <2>1, <2>3 DEF Made
  <2>6. FruitsOn(data'.map) = FruitsOn(data.map)
    BY <2>2, <2>4, <2>5
  <2>7. stage = "sweep" /\ stage' = "sweep" /\ index' = index /\ before' = before
    BY <1>3 DEF SweepTile
  <2> QED BY <2>5, <2>6, <2>7 DEF FruitsAreKept
<1>4. CASE SpawnFruit
  <2>1. stage = "fruits" /\ stage' = "fruits" /\ index' = index + 1 /\ before' = before
    BY <1>4 DEF SpawnFruit
  <2>2. CASE data' = data /\ EmptyTiles(data.map) = {}
    BY <2>1, <2>2 DEF FruitsAreKept
  <2>3. ASSUME NEW c \in EmptyTiles(data.map),
               Made(data, data', SetTileFruit(data.map, c), data.head, data.tail, 1)
        PROVE  FruitsAreKept'
    <3>1. data'.map = SetTileFruit(data.map, c) /\ data'.fruitsEaten = data.fruitsEaten
      BY <2>3 DEF Made
    <3>2. Cardinality(FruitsOn(data'.map)) = now + 1
      BY <1>t, <3>1, FruitIsLaid
    <3>3. old <= now + (data.fruitsEaten - index)
      BY <2>1 DEF FruitsAreKept
    <3>4. old <= Cardinality(FruitsOn(data'.map)) + (data'.fruitsEaten - index')
      <4> HIDE DEF old, now
      <4> QED BY <1>t, <1>f, <2>1, <3>1, <3>2, <3>3
    <3> QED BY <2>1, <3>4 DEF FruitsAreKept
  <2> QED BY <1>4, <2>2, <2>3, SpawnFruitHasMade
<1>5. CASE ReleasePlayers
  BY <1>5 DEF ReleasePlayers, FruitsAreKept
<1>6. CASE EndSweep
  <2>1. stage = "sweep" /\ stage' = "fruits" /\ UNCHANGED <<data, index, before>>
    BY <1>6 DEF EndSweep
  <2>2. index = 0 /\ old <= now + data.fruitsEaten
    BY <2>1 DEF FruitsAreKept
  <2>3. old <= now + (data.fruitsEaten - index)
    <3> HIDE DEF old, now
    <3> QED BY <1>t, <1>f, <2>2
  <2> QED BY <2>1, <2>3 DEF FruitsAreKept
<1>7. CASE EndTick
  <2>1. /\ stage = "fruits" /\ stage' \in {"idle", "ended"} /\ UNCHANGED <<data, before>>
        /\ index = data.fruitsEaten
    BY <1>7 DEF EndTick
  <2>2. EmptyTiles(data.map) = {} \/ old <= now + (data.fruitsEaten - index)
    BY <2>1 DEF FruitsAreKept
  <2>3. EmptyTiles(data.map) = {} \/ old <= now
    <3> HIDE DEF old, now
    <3> QED BY <1>t, <1>f, <2>1, <2>2
  <2> QED BY <2>1, <2>3 DEF FruitsAreKept
<1>8. CASE Interrupt
  BY <1>8 DEF Interrupt, FruitsAreKept
<1>9. ASSUME NEW p \in PlayerIds, ClientStep(p) PROVE FruitsAreKept'
  BY <1>9 DEF ClientStep, FruitsAreKept
<1>10. CASE UNCHANGED vars
  BY <1>10 DEF vars, FruitsAreKept
<1> QED
  BY <1>1, <1>2, <1>3, <1>4, <1>5, <1>6, <1>7, <1>8, <1>9, <1>10 DEF Next, ServerStep, Terminated

\* A set that is no larger than another goes into it.
LEMMA SmallerGoesInto ==
  ASSUME NEW S, NEW T, IsFiniteSet(S), IsFiniteSet(T), Cardinality(S) <= Cardinality(T)
  PROVE  \E f \in [S -> T] : \A c, e \in S : f[c] = f[e] => c = e
<1>1. /\ Cardinality(S) \in Nat /\ ExistsBijection(1 .. Cardinality(S), S)
      /\ Cardinality(T) \in Nat /\ ExistsBijection(1 .. Cardinality(T), T)
  BY FS_CardinalityType
<1>2. PICK g \in Bijection(1 .. Cardinality(S), S) : TRUE
  BY <1>1 DEF ExistsBijection
<1>3. PICK h \in Bijection(1 .. Cardinality(T), T) : TRUE
  BY <1>1 DEF ExistsBijection
<1>4. /\ g \in [1 .. Cardinality(S) -> S]
      /\ \A c \in S : \E i \in 1 .. Cardinality(S) : g[i] = c
  BY <1>2 DEF Bijection, Surjection
<1>5. /\ h \in [1 .. Cardinality(T) -> T]
      /\ \A i, j \in 1 .. Cardinality(T) : h[i] = h[j] => i = j
  BY <1>3 DEF Bijection, Injection, IsInjective
<1> DEFINE number(c) == CHOOSE i \in 1 .. Cardinality(S) : g[i] = c
           f         == [c \in S |-> h[number(c)]]
<1>6. \A c \in S : number(c) \in 1 .. Cardinality(S) /\ g[number(c)] = c
  BY <1>4
<1>7. 1 .. Cardinality(S) \subseteq 1 .. Cardinality(T)
  BY <1>1
<1> HIDE DEF number
<1>8. f \in [S -> T]
  BY <1>5, <1>6, <1>7
<1>9. ASSUME NEW c \in S, NEW e \in S, f[c] = f[e] PROVE c = e
  <2>1. h[number(c)] = h[number(e)]
    BY <1>9
  <2>2. number(c) = number(e)
    BY <1>5, <1>6, <1>7, <2>1
  <2> QED BY <1>6, <2>2
<1> QED BY <1>8, <1>9

\* server_tick replaces every fruit that was eaten, for as long as there is an
\* empty tile: no tick ends with fewer fruits than it began with.
THEOREM NoFruitIsLost == Spec => []FruitsLast
<1>1. FruitsAreKept => FruitsLast
  <2> SUFFICES ASSUME FruitsAreKept, stage \in {"idle", "ended"}, EmptyTiles(data.map) # {}
               PROVE  \E f \in [FruitsOn(before) -> FruitsOn(data.map)] :
                        \A c, e \in FruitsOn(before) : f[c] = f[e] => c = e
    BY DEF FruitsLast, FruitsOn
  <2>1. Cardinality(FruitsOn(before)) <= Cardinality(FruitsOn(data.map))
    BY DEF FruitsAreKept
  <2> QED BY <2>1, FruitsAreFinite, SmallerGoesInto
<1> QED BY <1>1, FruitsInit, FruitsStep, InvariantHolds, PTL DEF Spec

-----------------------------------------------------------------------------
(* The length of the changelog.  Between two turns every snake has two     *)
(* tiles of its own; a turn pushes three tiles, and eating leaves one to   *)
(* be pushed; a dead tile is one more.                                     *)

Grown(p) == \E c \in TilesOf(data.map, p) : c # data.head[p]

\* Only a snake whose turn is still to come has lost all but its head.
Twofold ==
  \A p \in PlayerIds :
    HasSnake(p) /\ ~Grown(p) => stage = "players" /\ index <= p /\ ~HasStatus(p, {"Paused"})

LEMMA TurnKeepsTwofold ==
  ASSUME Roomy, IInv, Snakes, NobodyEatsAtItsTail, Twofold, NEW p \in PlayerIds, Turn(p)
  PROVE  HasSnake(p)' => Grown(p)'
<1>t. data \in Data /\ data.map \in Maps /\ data.head \in Cache /\ data.tail \in Cache
      /\ players \in Players
  BY PlayerFacts DEF Data, Cache
<1>0. Snakes'
  BY TurnStepKeepsSnakes
<1>a. ASSUME HasSnake(p)', IsTileOf(data'.map, p, data'.tail[p]) PROVE Grown(p)'
  <2>1. SnakeOn(data'.map, p, data'.head[p], data'.tail[p])
    BY <1>0, <1>a DEF Snakes
  <2>2. /\ data'.tail[p] \in TilesOf(data'.map, p)
        /\ data'.tail[p] # data'.head[p]
    BY <1>a, <2>1 DEF SnakeOn, Trail, TilesOf
  <2> QED BY <2>2 DEF Grown
<1>1. CASE Spawn(p) \/ Crawl(p)
  <2>1. IsTileOf(data'.map, p, data'.tail[p])
    BY <1>1, TailIsOwn
  <2> QED BY <1>a, <2>1
<1>2. CASE FailToSpawn(p) \/ RemoveDisconnected(p) \/ Crash(p)
  <2>1. ~HasSnake(p)'
    BY <1>t, <1>2 DEF FailToSpawn, RemoveDisconnected, Crash, SetStatus, Players, HasSnake, HasStatus
  <2> QED BY <2>1
<1>3. CASE Rest(p)
  <2>1. data' = data \/ data' = SeenAlive(data)
    BY <1>3 DEF Rest
  <2>2. data'.head = data.head /\ data'.map = data.map
    BY <1>t, <2>1 DEF SeenAlive, Data
  <2>3. HasSnake(p) => Grown(p)
    BY <1>3 DEF Rest, Twofold, HasSnake, HasStatus
  <2>4. players' = players
    BY <1>3 DEF Rest
  <2> QED BY <2>2, <2>3, <2>4 DEF Grown, HasSnake, HasStatus, TilesOf, IsTileOf
<1>5. CASE Eat(p)
  <2>1. /\ data'.map = HeadMoved(data.map, p, data.head[p], NextHead(p))
        /\ data'.head = [data.head EXCEPT ![p] = NextHead(p)]
    BY <1>5, EatMakes
  <2>2. /\ NextHead(p) \in Coordinates /\ data.head[p] \in Coordinates
        /\ TileAhead(p).type = "fruit" /\ HasSnake(p)
    BY <1>5, MoverFacts, NextHeadIsNeighbor DEF Eat
  <2>3. data.head[p] \in TilesOf(data.map, p)
    BY <2>2 DEF Snakes, SnakeOn, Trail
  <2>4. data.head[p] # NextHead(p)
    BY <2>2, <2>3 DEF TileAhead, TilesOf, IsTileOf
  <2> DEFINE t == [order |-> data.map[data.head[p]].order + 1, type |-> "player", player |-> p]
  <2>5. data'.map = [data.map EXCEPT ![NextHead(p)] = t]
    BY <2>1 DEF HeadMoved, SetTilePlayer
  <2> HIDE DEF t
  <2>6. data'.map[data.head[p]] = data.map[data.head[p]]
    BY <1>t, <2>2, <2>4, <2>5 DEF Maps
  <2>7. data.head[p] \in TilesOf(data'.map, p)
    BY <2>3, <2>6 DEF TilesOf, IsTileOf
  <2>8. data'.head[p] = NextHead(p)
    BY <1>t, <2>1, OthersCache
  <2> QED BY <2>4, <2>7, <2>8 DEF Grown
<1> QED BY <1>1, <1>2, <1>3, <1>5 DEF Turn

LEMMA TwofoldStep ==
  Roomy /\ IInv /\ Snakes /\ NobodyEatsAtItsTail /\ Twofold /\ [Next]_vars => Twofold'
<1> SUFFICES ASSUME Roomy, IInv, Snakes, NobodyEatsAtItsTail, Twofold, [Next]_vars,
                    NEW q \in PlayerIds, HasSnake(q)', ~Grown(q)'
             PROVE  stage' = "players" /\ index' <= q /\ ~HasStatus(q, {"Paused"})'
  BY DEF Twofold
<1>1. ASSUME NEW p \in PlayerIds, Turn(p)
      PROVE  stage' = "players" /\ index' <= q /\ ~HasStatus(q, {"Paused"})'
  <2>1. q # p /\ stage' = "players" /\ index = p /\ index' = p + 1
    BY <1>1, TurnKeepsTwofold, TurnIsOne
  <2>2. HasSnake(q)
    BY <1>1, <2>1, TurnIsOne, PlayerFacts DEF HasSnake, HasStatus
  <2>3. /\ data'.head[q] = data.head[q] /\ players'[q] = players[q]
        /\ \A c \in Coordinates :
             IsTileOf(data.map, q, c) =>
               \/ data'.map[c] = data.map[c]
               \/ IsTailVacated(p) /\ TileAhead(p).player = q
    BY <1>1, <2>1, <2>2, TurnOnOthers
  <2>4. CASE Grown(q)
    <3>1. PICK c \in TilesOf(data.map, q) : c # data.head[q]
      BY <2>4 DEF Grown
    <3>2. data'.map[c] # data.map[c]
      BY <2>3, <3>1 DEF Grown, TilesOf, IsTileOf
    <3>3. IsTailVacated(p) /\ TileAhead(p).player = q
      BY <2>3, <3>1, <3>2 DEF TilesOf
    <3>4. q > p /\ ~HasStatus(q, {"Paused"})
      BY <2>1, <3>3 DEF IsTailVacated, HasStatus
    <3> QED BY <2>1, <2>3, <3>4 DEF HasStatus, PlayerIds
  <2>5. CASE ~Grown(q)
    <3>1. p <= q /\ ~HasStatus(q, {"Paused"})
      BY <2>1, <2>2, <2>5 DEF Twofold
    <3> QED BY <2>1, <2>3, <3>1 DEF HasStatus, PlayerIds
  <2> QED BY <2>4, <2>5
<1>2. CASE UNCHANGED vars
  BY <1>2 DEF vars, Twofold, Grown, HasSnake, HasStatus, TilesOf, IsTileOf
<1>3. CASE ~(\E p \in PlayerIds : Turn(p)) /\ ~UNCHANGED vars
  <2>1. Quiet /\ index \in 0 .. MaxPlayers /\ q \in 0 .. MaxPlayers - 1
    BY <1>3, StepsAreQuiet DEF IInv, TypeOK, PlayerIds
  <2>2. stage # "players" \/ index = MaxPlayers
    BY <1>3 DEF Next, ServerStep, BeginTick, ReleasePlayers, SweepTile, EndSweep, SpawnFruit,
                EndTick, Interrupt, ClientStep, Terminated
  <2>3. HasSnake(q)
    BY <2>1 DEF Quiet
  <2>4. Grown(q)
    BY <2>1, <2>2, <2>3, MaxPlayersAssumption DEF Twofold
  <2>5. TilesOf(data'.map, q) = TilesOf(data.map, q) /\ data'.head = data.head
    BY <2>1, QuietKeepsTiles DEF Quiet
  <2> QED BY <2>4, <2>5 DEF Grown
<1> QED BY <1>1, <1>2, <1>3

\* Two tiles for each of some players, and dead ones, all different.
LEMMA TwoTilesEach ==
  ASSUME NEW P \in SUBSET PlayerIds, NEW D \in SUBSET Coordinates,
         NEW f \in [P -> Coordinates], NEW g \in [P -> Coordinates],
         \A p, q \in P : f[p] = f[q] => p = q,
         \A p, q \in P : g[p] = g[q] => p = q,
         \A p, q \in P : f[p] # g[q],
         \A p \in P : f[p] \notin D /\ g[p] \notin D
  PROVE  /\ Cardinality(P) \in Nat /\ Cardinality(D) \in Nat
         /\ 3 * Cardinality(P) + Cardinality(D) <= Height * Width + MaxPlayers
<1> DEFINE F == {f[p] : p \in P}
           G == {g[p] : p \in P}
<1>1. IsFiniteSet(PlayerIds) /\ Cardinality(PlayerIds) = MaxPlayers
  <2>1. MaxPlayers - 1 \in Int /\ MaxPlayers \in Nat \ {0}
    BY MaxPlayersAssumption
  <2> QED BY <2>1, FS_Interval DEF PlayerIds
<1>2. IsFiniteSet(P) /\ Cardinality(P) <= MaxPlayers
  BY <1>1, FS_Subset
<1>3. IsFiniteSet(D)
  BY CoordinatesAreFinite, FS_Subset
<1>4. ExistsBijection(P, F) /\ ExistsBijection(P, G)
  <2>1. f \in Bijection(P, F)
    BY DEF Bijection, Injection, IsInjective, Surjection
  <2>2. g \in Bijection(P, G)
    BY DEF Bijection, Injection, IsInjective, Surjection
  <2> QED BY <2>1, <2>2 DEF ExistsBijection
<1>5. F \subseteq Coordinates /\ G \subseteq Coordinates /\ F \cap G = {} /\ (F \cup G) \cap D = {}
  OBVIOUS
<1> HIDE DEF F, G
<1>6. /\ IsFiniteSet(F) /\ Cardinality(F) = Cardinality(P)
      /\ IsFiniteSet(G) /\ Cardinality(G) = Cardinality(P)
  BY <1>2, <1>4, FS_Bijection
<1>7. Cardinality({}) = 0
  BY FS_EmptySet
<1>8. IsFiniteSet(F \cup G)
      /\ Cardinality(F \cup G) = Cardinality(F) + Cardinality(G) - Cardinality(F \cap G)
  BY <1>6, FS_Union
<1>9. Cardinality((F \cup G) \cup D)
        = Cardinality(F \cup G) + Cardinality(D) - Cardinality((F \cup G) \cap D)
  BY <1>3, <1>8, FS_Union
<1>10. Cardinality((F \cup G) \cup D) <= Cardinality(Coordinates)
  <2>1. (F \cup G) \cup D \in SUBSET Coordinates
    BY <1>5
  <2> QED BY <2>1, CoordinatesAreFinite, FS_Subset
<1>11. Cardinality(P) \in Nat /\ Cardinality(D) \in Nat
  BY <1>2, <1>3, FS_CardinalityType
<1> DEFINE n == Cardinality(P)
           k == Cardinality(D)
           all == Cardinality((F \cup G) \cup D)
           area == Height * Width
<1>12. Cardinality(F \cap G) = 0 /\ Cardinality((F \cup G) \cap D) = 0
  BY <1>5, <1>7
<1>13. all = n + n + k
  <2>1. Cardinality(F \cup G) = n + n - 0
    BY <1>6, <1>8, <1>12
  <2>2. all = (n + n - 0) + k - 0
    BY <1>9, <1>12, <2>1
  <2> HIDE DEF n, k, all
  <2> QED BY <1>11, <2>2 DEF n, k
<1>14. area \in Nat /\ all <= area /\ n <= MaxPlayers /\ MaxPlayers \in Nat
  BY <1>2, <1>10, CoordinatesAreFinite, MapAssumption, MaxPlayersAssumption
<1>15. n \in Nat /\ k \in Nat
  BY <1>11
<1>16. 3 * n + k <= area + MaxPlayers
  <2> HIDE DEF n, k, all, area
  <2> QED BY <1>13, <1>14, <1>15
<1> QED BY <1>11, <1>16

\* The snakes that have had their turn in this tick.
Served == {p \in PlayerIds : p < index /\ HasSnake(p)}

LEMMA RoomForAll ==
  ASSUME IInv, Snakes, Twofold, stage = "players"
  PROVE  /\ Cardinality(Served) \in Nat /\ Cardinality(DeadTiles(data.map)) \in Nat
         /\ 3 * Cardinality(Served) + Cardinality(DeadTiles(data.map)) <= Height * Width + MaxPlayers
<1> DEFINE f == [p \in Served |-> data.head[p]]
           second(p) == CHOOSE c \in TilesOf(data.map, p) : c # data.head[p]
           g == [p \in Served |-> second(p)]
<1>1. Served \in SUBSET PlayerIds /\ DeadTiles(data.map) \in SUBSET Coordinates
  BY DEF Served, DeadTiles
<1>2. ASSUME NEW p \in Served
      PROVE  /\ data.head[p] \in TilesOf(data.map, p) /\ second(p) \in TilesOf(data.map, p)
             /\ second(p) # data.head[p]
  <2>1. p \in PlayerIds /\ HasSnake(p) /\ ~(index <= p)
    BY MaxPlayersAssumption DEF Served, IInv, TypeOK, PlayerIds
  <2>2. Grown(p)
    BY <2>1 DEF Twofold
  <2>3. data.head[p] \in TilesOf(data.map, p)
    BY <2>1 DEF Snakes, SnakeOn, Trail
  <2> QED BY <2>2, <2>3 DEF Grown
<1> HIDE DEF second
<1>3. \A p, q \in Served : \A c \in TilesOf(data.map, p) : c \in TilesOf(data.map, q) => p = q
  BY DEF TilesOf, IsTileOf
<1>4. \A p \in Served : \A c \in TilesOf(data.map, p) :
        c \in Coordinates /\ c \notin DeadTiles(data.map)
  BY DEF TilesOf, IsTileOf, DeadTiles
<1>5. f \in [Served -> Coordinates] /\ g \in [Served -> Coordinates]
  BY <1>2, <1>4
<1>6. /\ \A p, q \in Served : f[p] = f[q] => p = q
      /\ \A p, q \in Served : g[p] = g[q] => p = q
      /\ \A p, q \in Served : f[p] # g[q]
      /\ \A p \in Served : f[p] \notin DeadTiles(data.map) /\ g[p] \notin DeadTiles(data.map)
  BY <1>2, <1>3, <1>4
<1> HIDE DEF f, g
<1> QED BY <1>1, <1>5, <1>6, TwoTilesEach

Size == Len(data.changelog)
Room == Height * Width + MaxPlayers

LEMMA SizesAreNumbers ==
  /\ Room \in Nat
  /\ IInv => Size \in Nat /\ data.fruitsEaten \in Nat /\ index \in Nat
  /\ IInv' => Size' \in Nat /\ data'.fruitsEaten \in Nat /\ index' \in Nat
  /\ Cardinality(DeadTiles(data.map)) \in Nat
<1>1. Room \in Nat
  <2>1. Height * Width \in Nat /\ MaxPlayers \in Nat
    BY MapAssumption, MaxPlayersAssumption
  <2> QED BY <2>1 DEF Room
<1>2. IInv => Size \in Nat /\ data.fruitsEaten \in Nat /\ index \in Nat
  BY MaxPlayersAssumption DEF Size, IInv, TypeOK, Data
<1>3. ASSUME IInv' PROVE Size' \in Nat /\ data'.fruitsEaten \in Nat /\ index' \in Nat
  BY <1>3, MaxPlayersAssumption DEF Size, IInv, TypeOK, Data
<1>4. Cardinality(DeadTiles(data.map)) \in Nat
  <2>1. DeadTiles(data.map) \in SUBSET Coordinates
    BY DEF DeadTiles
  <2> QED BY <2>1, CoordinatesAreFinite, FS_Subset, FS_CardinalityType
<1> QED BY <1>1, <1>2, <1>3, <1>4

LEMMA ServedAfterTurn ==
  ASSUME IInv, NEW p \in PlayerIds, Turn(p)
  PROVE  /\ Cardinality(Served) \in Nat /\ Cardinality(Served)' \in Nat
         /\ HasSnake(p)' => Cardinality(Served)' = Cardinality(Served) + 1
         /\ ~HasSnake(p)' => Cardinality(Served)' = Cardinality(Served)
<1>1. index = p /\ index' = p + 1 /\ \A q \in PlayerIds \ {p} : players'[q] = players[q]
  BY TurnIsOne, PlayerFacts
<1>2. \A q \in PlayerIds : (q < p + 1 <=> q < p \/ q = p) /\ ~(p < p)
  BY MaxPlayersAssumption DEF PlayerIds
<1>3. p \notin Served
  BY <1>1, <1>2 DEF Served
<1>4. Served' = {q \in PlayerIds : q < p + 1 /\ HasSnake(q)'}
  BY <1>1 DEF Served
<1>5. \A q \in PlayerIds \ {p} : HasSnake(q)' <=> HasSnake(q)
  BY <1>1 DEF HasSnake, HasStatus
<1>6. HasSnake(p)' => Served' = Served \cup {p}
  BY <1>1, <1>2, <1>4, <1>5 DEF Served
<1>7. ~HasSnake(p)' => Served' = Served
  BY <1>1, <1>2, <1>4, <1>5 DEF Served
<1>8. IsFiniteSet(PlayerIds)
  BY FS_Interval, MaxPlayersAssumption DEF PlayerIds
<1>9. IsFiniteSet(Served)
  <2>1. Served \in SUBSET PlayerIds
    BY DEF Served
  <2> QED BY <1>8, <2>1, FS_Subset
<1>10. Cardinality(Served) \in Nat
  BY <1>9, FS_CardinalityType
<1>11. Cardinality(Served \cup {p}) = Cardinality(Served) + 1
  BY <1>3, <1>9, FS_AddElement
<1>12. HasSnake(p)' => Cardinality(Served)' = Cardinality(Served) + 1
  BY <1>6, <1>11
<1>13. ~HasSnake(p)' => Cardinality(Served)' = Cardinality(Served)
  BY <1>7
<1> QED BY <1>10, <1>12, <1>13

\* A turn of a snake pushes three tiles, or one and leaves one to be pushed;
\* a death pushes none.
LEMMA TurnPushes ==
  ASSUME IInv, Snakes, NEW p \in PlayerIds, Turn(p)
  PROVE  /\ Size' + data'.fruitsEaten <= Size + data.fruitsEaten + 3
         /\ ~HasSnake(p)' => Size' + data'.fruitsEaten <= Size + data.fruitsEaten
<1>t. data \in Data /\ Size \in Nat /\ data.fruitsEaten \in Nat
  BY PlayerFacts, SizesAreNumbers
<1>i. Size' \in Nat /\ data'.fruitsEaten \in Nat
  BY StepKeepsInvariant, SizesAreNumbers DEF Next, ServerStep
<1>1. CASE Spawn(p)
  <2>1. PICK head, tail : \E map :
          Made(data, data', map, [data.head EXCEPT ![p] = head], [data.tail EXCEPT ![p] = tail], 3)
    BY <1>1, SpawnHasMade
  <2>2. Size' <= Size + 3 /\ data'.fruitsEaten = data.fruitsEaten
    BY <2>1 DEF Made, Size
  <2>3. HasSnake(p)'
    BY <1>1, SpawnHasMade
  <2> QED BY <1>t, <1>i, <2>2, <2>3
<1>2. CASE RemoveDisconnected(p) \/ Crash(p)
  <2>1. data' = KillPlayer(data, p)
    BY <1>2 DEF RemoveDisconnected, Crash
  <2>2. Made(data, data', MarkPlayerAsDead(data.map, p, data.head[p]), data.head, data.tail, 0)
    BY <1>t, <2>1, KillMakes
  <2>3. Size' <= Size + 0 /\ data'.fruitsEaten = data.fruitsEaten
    BY <2>2 DEF Made, Size
  <2> QED BY <1>t, <1>i, <2>3
<1>3. CASE FailToSpawn(p) \/ Rest(p)
  <2>1. data' = data \/ data' = SeenAlive(data)
    BY <1>3 DEF FailToSpawn, Rest
  <2>2. data'.changelog = data.changelog /\ data'.fruitsEaten = data.fruitsEaten
    BY <1>t, <2>1 DEF SeenAlive, Data
  <2>3. Size' = Size
    BY <2>2 DEF Size
  <2> QED BY <1>t, <2>2, <2>3
<1>4. CASE Crawl(p) \/ Eat(p)
  <2>1. HasSnake(p)'
    BY <1>4 DEF Crawl, Eat, HasMove, HasSnake, HasStatus
  <2>2. CASE Crawl(p)
    <3>1. Made(data, data', CrawledMap(p), [data.head EXCEPT ![p] = NextHead(p)],
               [data.tail EXCEPT ![p] = CrawledTail(p)], 3)
      BY <2>2, CrawlMakes
    <3>2. Size' <= Size + 3 /\ data'.fruitsEaten = data.fruitsEaten
      BY <3>1 DEF Made, Size
    <3> QED BY <1>t, <1>i, <2>1, <3>2
  <2>3. CASE Eat(p)
    <3>1. Size' <= Size + 1 /\ data'.fruitsEaten = data.fruitsEaten + 1
      BY <2>3, EatMakes DEF Size
    <3> QED BY <1>t, <1>i, <2>1, <3>1
  <2> QED BY <1>4, <2>2, <2>3
<1> QED BY <1>1, <1>2, <1>3, <1>4 DEF Turn

\* While the slots have their turns three tiles have been pushed for each
\* snake, at most; from then on there is room for what is still to be pushed.
Fits ==
  /\ stage = "players" => Size + data.fruitsEaten <= 3 * Cardinality(Served)
  /\ stage = "sweep" =>
       index = 0 /\ Size + data.fruitsEaten + Cardinality(DeadTiles(data.map)) <= Room
  /\ stage = "fruits" => index <= data.fruitsEaten /\ Size + (data.fruitsEaten - index) <= Room
  /\ stage \in {"idle", "ended"} => Size <= Room

LEMMA TurnStepFits ==
  ASSUME IInv, Snakes, Fits, NEW p \in PlayerIds, Turn(p)
  PROVE  Fits'
<1>1. stage = "players" /\ stage' = "players"
  BY TurnIsOne
<1>2. Size + data.fruitsEaten <= 3 * Cardinality(Served)
  BY <1>1 DEF Fits
<1>3. /\ Size \in Nat /\ data.fruitsEaten \in Nat /\ Size' \in Nat /\ data'.fruitsEaten \in Nat
      /\ Cardinality(Served) \in Nat /\ Cardinality(Served)' \in Nat
  BY SizesAreNumbers, ServedAfterTurn, StepKeepsInvariant DEF Next, ServerStep
<1>4. CASE HasSnake(p)'
  <2>1. Cardinality(Served)' = Cardinality(Served) + 1
    BY <1>4, ServedAfterTurn
  <2>2. Size' + data'.fruitsEaten <= Size + data.fruitsEaten + 3
    BY TurnPushes
  <2>3. Size' + data'.fruitsEaten <= 3 * Cardinality(Served)'
    BY <1>2, <1>3, <2>1, <2>2
  <2> QED BY <1>1, <2>3 DEF Fits
<1>5. CASE ~HasSnake(p)'
  <2>1. Cardinality(Served)' = Cardinality(Served)
    BY <1>5, ServedAfterTurn
  <2>2. Size' + data'.fruitsEaten <= Size + data.fruitsEaten
    BY <1>5, TurnPushes
  <2>3. Size' + data'.fruitsEaten <= 3 * Cardinality(Served)'
    BY <1>2, <1>3, <2>1, <2>2
  <2> QED BY <1>1, <2>3 DEF Fits
<1> QED BY <1>4, <1>5

LEMMA FitsStep == IInv /\ Snakes /\ Twofold /\ Fits /\ [Next]_vars => Fits'
<1> SUFFICES ASSUME IInv, Snakes, Twofold, Fits, [Next]_vars PROVE Fits'
  OBVIOUS
<1>t. /\ data \in Data /\ data.map \in Maps /\ data.fruitsEaten \in Nat /\ Size \in Nat
      /\ index \in Nat /\ Room \in Nat /\ Cardinality(DeadTiles(data.map)) \in Nat
  BY SizesAreNumbers DEF IInv, TypeOK, Data
<1>i. Size' \in Nat /\ data'.fruitsEaten \in Nat
  BY StepKeepsInvariant, SizesAreNumbers
<1>1. CASE BeginTick
  <2>1. data'.changelog = <<>> /\ data'.fruitsEaten = 0
    BY <1>t, <1>1 DEF BeginTick, Data
  <2>2. stage' = "players" /\ index' = 0
    BY <1>1 DEF BeginTick
  <2>3. Served' = {}
    BY <2>2, MaxPlayersAssumption DEF Served, PlayerIds
  <2>4. Cardinality(Served)' = 0
    BY <2>3, FS_EmptySet
  <2>5. Size' = 0
    BY <2>1 DEF Size
  <2>6. Size' + data'.fruitsEaten <= 3 * Cardinality(Served)'
    BY <2>1, <2>4, <2>5
  <2> QED BY <2>2, <2>6 DEF Fits
<1>2. CASE ReleasePlayers
  <2>1. stage = "players" /\ stage' = "sweep" /\ index' = 0 /\ data' = data
    BY <1>2 DEF ReleasePlayers
  <2>2. /\ Cardinality(Served) \in Nat
        /\ 3 * Cardinality(Served) + Cardinality(DeadTiles(data.map)) <= Room
    BY <2>1, RoomForAll DEF Room
  <2>3. Size + data.fruitsEaten <= 3 * Cardinality(Served)
    BY <2>1 DEF Fits
  <2>4. Size + data.fruitsEaten + Cardinality(DeadTiles(data.map)) <= Room
    BY <1>t, <2>2, <2>3
  <2> QED BY <2>1, <2>4 DEF Fits, Size
<1>3. CASE SweepTile
  <2>1. PICK c \in DeadTiles(data.map) :
          Made(data, data', SetTileEmpty(data.map, c), data.head, data.tail, 1)
    BY <1>3, SweepTileHasMade
  <2> DEFINE t == [data.map[c] EXCEPT !.type = "empty"]
  <2>2. c \in Coordinates
    BY DEF DeadTiles
  <2>3. SetTileEmpty(data.map, c) = [data.map EXCEPT ![c] = t] /\ t.type = "empty"
    BY <1>t, <2>2, SetTileEmptyTiles
  <2> HIDE DEF t
  <2>4. data'.map = [data.map EXCEPT ![c] = t] /\ data'.fruitsEaten = data.fruitsEaten
    BY <2>1, <2>3 DEF Made
  <2>5. Size' <= Size + 1
    BY <2>1 DEF Made, Size
  <2>6. DeadTiles(data'.map) = DeadTiles(data.map) \ {c}
    BY <1>t, <2>2, <2>3, <2>4 DEF DeadTiles, Maps
  <2>7. Cardinality(DeadTiles(data'.map)) = Cardinality(DeadTiles(data.map)) - 1
    <3>1. DeadTiles(data.map) \in SUBSET Coordinates
      BY DEF DeadTiles
    <3>2. IsFiniteSet(DeadTiles(data.map))
      BY <3>1, CoordinatesAreFinite, FS_Subset
    <3> QED BY <2>6, <3>2, FS_RemoveElement
  <2>8. stage = "sweep" /\ stage' = "sweep" /\ index' = index
    BY <1>3 DEF SweepTile
  <2>9. index = 0 /\ Size + data.fruitsEaten + Cardinality(DeadTiles(data.map)) <= Room
    BY <2>8 DEF Fits
  <2>10. Size' + data'.fruitsEaten + Cardinality(DeadTiles(data'.map)) <= Room
    BY <1>t, <1>i, <2>4, <2>5, <2>7, <2>9
  <2> QED BY <2>8, <2>9, <2>10 DEF Fits
<1>4. CASE EndSweep
  <2>1. stage = "sweep" /\ stage' = "fruits" /\ index' = index /\ data' = data
    BY <1>4 DEF EndSweep
  <2>2. index = 0 /\ Size + data.fruitsEaten + Cardinality(DeadTiles(data.map)) <= Room
    BY <2>1 DEF Fits
  <2>3. index <= data.fruitsEaten /\ Size + (data.fruitsEaten - index) <= Room
    BY <1>t, <2>2
  <2> QED BY <2>1, <2>3 DEF Fits, Size
<1>5. CASE SpawnFruit
  <2>1. /\ stage = "fruits" /\ stage' = "fruits" /\ index' = index + 1
        /\ index < data.fruitsEaten
    BY <1>5 DEF SpawnFruit
  <2>2. Size' <= Size + 1 /\ data'.fruitsEaten = data.fruitsEaten
    <3>1. ASSUME NEW c \in EmptyTiles(data.map),
                 Made(data, data', SetTileFruit(data.map, c), data.head, data.tail, 1)
          PROVE  Size' <= Size + 1 /\ data'.fruitsEaten = data.fruitsEaten
      BY <3>1 DEF Made, Size
    <3>2. CASE data' = data
      BY <1>t, <3>2 DEF Size
    <3> QED BY <1>5, <3>1, <3>2, SpawnFruitHasMade
  <2>3. Size + (data.fruitsEaten - index) <= Room
    BY <2>1 DEF Fits
  <2>4. index' <= data'.fruitsEaten /\ Size' + (data'.fruitsEaten - index') <= Room
    BY <1>t, <1>i, <2>1, <2>2, <2>3
  <2> QED BY <2>1, <2>4 DEF Fits
<1>6. CASE EndTick
  <2>1. stage = "fruits" /\ stage' \in {"idle", "ended"} /\ data' = data /\ index = data.fruitsEaten
    BY <1>6 DEF EndTick
  <2>2. Size + (data.fruitsEaten - index) <= Room
    BY <2>1 DEF Fits
  <2>3. Size <= Room
    BY <1>t, <2>1, <2>2
  <2> QED BY <2>1, <2>3 DEF Fits, Size
<1>7. CASE Interrupt
  BY <1>7 DEF Interrupt, Fits, Size
<1>8. ASSUME NEW p \in PlayerIds, ClientStep(p) PROVE Fits'
  BY <1>8 DEF ClientStep, Fits, Size
<1>9. CASE UNCHANGED vars
  BY <1>9 DEF vars, Fits, Size, Served, HasSnake, HasStatus
<1> QED
  BY <1>1, <1>2, <1>3, <1>4, <1>5, <1>6, <1>7, <1>8, <1>9, TurnStepFits
     DEF Next, ServerStep, Terminated

LEMMA LongInit == Init => Twofold /\ Fits
<1> SUFFICES ASSUME Init PROVE Twofold /\ Fits
  OBVIOUS
<1>1. \A p \in PlayerIds : ~HasSnake(p)
  BY DEF Init, PlayerManagerInit, HasSnake, HasStatus
<1>2. data.changelog = <<>> /\ stage = "idle"
  BY DEF Init
<1>3. Size = 0
  BY <1>2 DEF Size
<1> QED BY <1>1, <1>2, <1>3, SizesAreNumbers DEF Twofold, Fits

LEMMA FitsGivesRoom == IInv /\ Snakes /\ Twofold /\ Fits => ChangelogFits
<1> SUFFICES ASSUME IInv, Snakes, Twofold, Fits PROVE Size <= Room
  BY DEF ChangelogFits, Size, Room
<1>1. /\ Room \in Nat /\ Size \in Nat /\ data.fruitsEaten \in Nat /\ index \in Nat
      /\ Cardinality(DeadTiles(data.map)) \in Nat
  BY SizesAreNumbers
<1>2. CASE stage = "players"
  <2>1. /\ Cardinality(Served) \in Nat
        /\ 3 * Cardinality(Served) + Cardinality(DeadTiles(data.map)) <= Room
    BY <1>2, RoomForAll DEF Room
  <2>2. Size + data.fruitsEaten <= 3 * Cardinality(Served)
    BY <1>2 DEF Fits
  <2> QED BY <1>1, <2>1, <2>2
<1>3. CASE stage = "sweep"
  BY <1>1, <1>3 DEF Fits
<1>4. CASE stage = "fruits"
  BY <1>1, <1>4 DEF Fits
<1>5. CASE stage \in {"idle", "ended"}
  BY <1>5 DEF Fits
<1> QED BY <1>2, <1>3, <1>4, <1>5 DEF IInv, TypeOK, Stages

\* MAX_CHANGELOG_SIZE of constants.h is enough: changelog_push_tile_state_change,
\* which does not check it, never writes past the array, as long as no snake eats
\* at its tail.
THEOREM ChangelogHasRoom == Roomy => (Spec /\ []NobodyEatsAtItsTail => []ChangelogFits)
<1> SUFFICES ASSUME Roomy PROVE Spec /\ []NobodyEatsAtItsTail => []ChangelogFits
  OBVIOUS
<1>1. IInv /\ Snakes /\ NobodyEatsAtItsTail /\ Twofold /\ [Next]_vars => Twofold'
  BY TwofoldStep
<1>2. Spec /\ []NobodyEatsAtItsTail => []Snakes
  BY SnakesAreThere
<1> QED BY <1>1, <1>2, LongInit, FitsStep, FitsGivesRoom, InvariantHolds, PTL DEF Spec

\* With two slots the changelog always fits.
THEOREM PairsHaveRoom == Roomy /\ MaxPlayers <= 2 => (Spec => []ChangelogFits)
<1> SUFFICES ASSUME Roomy, MaxPlayers <= 2 PROVE Spec => []ChangelogFits
  OBVIOUS
<1>1. Spec => [](Snakes /\ Prompt /\ WholeSnakesEat)
  BY PairsStayWhole
<1>2. Spec /\ []NobodyEatsAtItsTail => []ChangelogFits
  BY ChangelogHasRoom
<1> QED BY <1>1, <1>2, WholeSnakesDoNotEatThere, PTL

-----------------------------------------------------------------------------
(* The bodies of SnakeGame.  The sequence s has the tiles T in the order   *)
(* of their numbers, from that of head down.                               *)

Spells(s, T, map, head) ==
  /\ s \in Seq(T)
  /\ \A i \in 1 .. Len(s) : map[s[i]].order = map[head].order + 1 - i
  /\ \A c \in T : \E i \in 1 .. Len(s) : s[i] = c

LEMMA SpellingsLength ==
  ASSUME NEW T, NEW map \in Maps, NEW head, NEW last, Trail(T, map, head, last),
         NEW s, Spells(s, T, map, head)
  PROVE  /\ Len(s) = map[head].order - map[last].order + 1
         /\ Len(s) \in Nat /\ Len(s) >= 1 /\ s[1] = head /\ s[Len(s)] = last
<1> DEFINE first == map[head].order
           low   == map[last].order
           n     == Len(s)
<1>1. /\ T \subseteq Coordinates /\ head \in T /\ last \in T
      /\ \A c \in T : map[c].order \in Nat /\ low <= map[c].order
      /\ \A c, e \in T : map[c].order = map[e].order => c = e
  BY OrdersAreNumbers DEF Trail
<1>2. /\ n \in Nat /\ \A i \in 1 .. n : s[i] \in T /\ map[s[i]].order = first + 1 - i
  <2>1. s \in Seq(T)
    BY DEF Spells
  <2>2. n \in Nat /\ \A i \in 1 .. n : s[i] \in T
    <3> HIDE DEF first, low
    <3> QED BY <2>1
  <2>3. \A i \in 1 .. n : map[s[i]].order = first + 1 - i
    BY DEF Spells
  <2> QED BY <2>2, <2>3
<1>3. PICK i \in 1 .. n : s[i] = last
  BY <1>1 DEF Spells
<1>4. low = first + 1 - i /\ low <= first /\ first \in Nat /\ low \in Nat
  BY <1>1, <1>2, <1>3
<1>5. n \in 1 .. n /\ 1 \in 1 .. n
  BY <1>2, <1>3
<1>6. low <= first + 1 - n
  BY <1>1, <1>2, <1>5
<1>7. n = first - low + 1 /\ i = n
  BY <1>2, <1>4, <1>6
<1>8. map[s[1]].order = first
  BY <1>2, <1>4, <1>5
<1>9. s[1] = head
  BY <1>1, <1>2, <1>5, <1>8
<1> QED BY <1>2, <1>3, <1>5, <1>7, <1>9

LEMMA SpellingsAgree ==
  ASSUME NEW T, NEW map \in Maps, NEW head, NEW last, Trail(T, map, head, last),
         NEW s, Spells(s, T, map, head), NEW r, Spells(r, T, map, head)
  PROVE  s = r
<1>1. Len(s) = Len(r) /\ Len(s) \in Nat
  BY SpellingsLength
<1>2. /\ s \in Seq(T) /\ r \in Seq(T)
      /\ \A i \in 1 .. Len(s) : map[s[i]].order = map[r[i]].order
  BY <1>1 DEF Spells
<1>3. \A c, e \in T : map[c].order = map[e].order => c = e
  BY DEF Trail
<1>4. \A i \in 1 .. Len(s) : s[i] \in T /\ r[i] \in T
  BY <1>1, <1>2
<1>5. \A i \in 1 .. Len(s) : s[i] = r[i]
  BY <1>2, <1>3, <1>4
<1> QED BY <1>1, <1>2, <1>5

HasAllOrders(T, map, head, last) ==
  \A k \in map[last].order .. map[head].order : \E c \in T : map[c].order = k

\* The orders of a trail are an interval.
LEMMA OrdersHaveNoGaps ==
  ASSUME NEW T, NEW map \in Maps, NEW head, NEW last, Trail(T, map, head, last)
  PROVE  HasAllOrders(T, map, head, last)
<1> DEFINE gaps == {k \in map[last].order .. map[head].order : \A c \in T : map[c].order # k}
<1>1. SUFFICES ASSUME gaps # {} PROVE FALSE
  BY DEF HasAllOrders
<1>2. /\ head \in T /\ last \in T /\ map[last].order \in Nat /\ map[head].order \in Nat
      /\ \A c \in T : map[c].order \in Nat
  BY OrdersAreNumbers DEF Trail
<1>3. gaps \subseteq Nat
  BY <1>2
<1>4. PICK n \in gaps : \A m \in gaps : ~(<<m, n>> \in OpToRel(<, Nat))
  <2> HIDE DEF gaps
  <2> QED BY <1>1, <1>3, NatLessThanWellFounded, WFMin
<1>5. \A m \in gaps : ~(m < n)
  BY <1>3, <1>4 DEF OpToRel
<1>6. n \in Nat /\ map[last].order < n /\ n <= map[head].order
  BY <1>2
<1>7. n - 1 \in map[last].order .. map[head].order /\ n - 1 < n
  BY <1>2, <1>6
<1>8. PICK c \in T : map[c].order = n - 1
  BY <1>5, <1>7
<1>9. c # head
  BY <1>2, <1>6, <1>8
<1>10. PICK e \in T : map[e].order = map[c].order + 1
  BY <1>9 DEF Trail
<1>11. map[e].order = n
  BY <1>6, <1>8, <1>10
<1> QED BY <1>4, <1>11

LEMMA TrailIsCounted ==
  ASSUME NEW T, NEW map \in Maps, NEW head, NEW last, Trail(T, map, head, last)
  PROVE  Cardinality(T) = map[head].order - map[last].order + 1
<1> DEFINE low == map[last].order
           top == map[head].order
           f   == [c \in T |-> map[c].order]
<1>1. /\ T \in SUBSET Coordinates /\ head \in T /\ last \in T /\ low \in Nat /\ top \in Nat
      /\ low <= top
      /\ \A c \in T : map[c].order \in low .. top
      /\ \A c, e \in T : map[c].order = map[e].order => c = e
  BY OrdersAreNumbers DEF Trail
<1>2. \A k \in low .. top : \E c \in T : map[c].order = k
  <2>1. HasAllOrders(T, map, head, last)
    BY OrdersHaveNoGaps
  <2> QED BY <2>1 DEF HasAllOrders
<1> HIDE DEF low, top
<1>3. f \in Bijection(T, low .. top)
  BY <1>1, <1>2 DEF Bijection, Injection, IsInjective, Surjection
<1>4. ExistsBijection(T, low .. top)
  BY <1>3 DEF ExistsBijection
<1>5. IsFiniteSet(T)
  BY <1>1, CoordinatesAreFinite, FS_Subset
<1>6. Cardinality(low .. top) = Cardinality(T)
  BY <1>4, <1>5, FS_Bijection
<1>7. low \in Int /\ top \in Int /\ ~(low > top)
  BY <1>1
<1>8. Cardinality(low .. top) = top - low + 1
  BY <1>7, FS_Interval
<1> QED BY <1>6, <1>8 DEF low, top

\* BodyOf, for any trail.
Spelling(T, map, head) ==
  [i \in 1 .. Cardinality(T) |-> CHOOSE c \in T : map[c].order = map[head].order + 1 - i]

LEMMA SpellingSpells ==
  ASSUME NEW T, NEW map \in Maps, NEW head, NEW last, Trail(T, map, head, last)
  PROVE  Spells(Spelling(T, map, head), T, map, head)
<1> DEFINE low == map[last].order
           top == map[head].order
           n   == Cardinality(T)
           at(i) == CHOOSE c \in T : map[c].order = top + 1 - i
           s   == [i \in 1 .. n |-> at(i)]
<1>1. /\ low \in Nat /\ top \in Nat /\ low <= top /\ head \in T
      /\ \A c \in T : map[c].order \in low .. top
      /\ \A c, e \in T : map[c].order = map[e].order => c = e
  BY OrdersAreNumbers DEF Trail
<1>2. n = top - low + 1
  BY TrailIsCounted
<1>3. \A k \in low .. top : \E c \in T : map[c].order = k
  <2>1. HasAllOrders(T, map, head, last)
    BY OrdersHaveNoGaps
  <2> QED BY <2>1 DEF HasAllOrders
<1> HIDE DEF low, n
<1>4. ASSUME NEW i \in 1 .. n PROVE at(i) \in T /\ map[at(i)].order = top + 1 - i
  <2> HIDE DEF top
  <2>1. top + 1 - i \in low .. top
    BY <1>1, <1>2
  <2> QED BY <1>3, <2>1
<1> HIDE DEF at
<1>5. n \in Nat
  BY <1>1, <1>2
<1>6. s \in Seq(T) /\ Len(s) = n
  BY <1>4, <1>5
<1>7. ASSUME NEW c \in T PROVE \E i \in 1 .. n : s[i] = c
  <2> DEFINE i == top + 1 - map[c].order
  <2>1. i \in 1 .. n /\ map[c].order = top + 1 - i
    BY <1>1, <1>2
  <2>2. map[s[i]].order = map[c].order /\ s[i] \in T
    BY <1>4, <2>1
  <2> QED BY <1>1, <2>1, <2>2
<1>8. \A i \in 1 .. n : map[s[i]].order = top + 1 - i
  BY <1>4
<1>9. Spells(s, T, map, head)
  BY <1>6, <1>7, <1>8 DEF Spells
<1> QED BY <1>9 DEF Spelling, n, at

LEMMA SpellingGrows ==
  ASSUME NEW T, NEW map \in Maps, NEW head, NEW last, Trail(T, map, head, last),
         NEW s, Spells(s, T, map, head), NEW new, NEW next, next \notin T,
         \A c \in T : new[c].order = map[c].order, new[next].order = map[head].order + 1
  PROVE  Spells(<<next>> \o s, T \cup {next}, new, next)
<1> DEFINE r == <<next>> \o s
           n == Len(s)
<1>1. s \in Seq(T) /\ n \in Nat /\ \A i \in 1 .. n : s[i] \in T /\ map[s[i]].order = map[head].order + 1 - i
  <2>1. s \in Seq(T) /\ \A i \in 1 .. Len(s) : map[s[i]].order = map[head].order + 1 - i
    BY DEF Spells
  <2>2. n \in Nat /\ \A i \in 1 .. n : s[i] \in T
    BY <2>1
  <2> QED BY <2>1, <2>2
<1>2. map[head].order \in Nat
  BY OrdersAreNumbers DEF Trail
<1>3. /\ r \in Seq(T \cup {next}) /\ Len(r) = n + 1
      /\ r[1] = next /\ \A i \in 1 .. n : r[i + 1] = s[i]
  BY <1>1
<1> HIDE DEF r
<1>4. ASSUME NEW i \in 1 .. n + 1 PROVE new[r[i]].order = new[next].order + 1 - i
  <2>1. CASE i = 1
    BY <1>2, <1>3, <2>1
  <2>2. CASE i # 1
    <3>1. i - 1 \in 1 .. n /\ (i - 1) + 1 = i
      BY <1>1, <2>2
    <3>2. r[i] = s[i - 1]
      BY <1>3, <3>1
    <3>3. new[s[i - 1]].order = map[head].order + 1 - (i - 1)
      BY <1>1, <3>1
    <3> QED BY <1>2, <3>2, <3>3
  <2> QED BY <2>1, <2>2
<1>5. ASSUME NEW c \in T \cup {next} PROVE \E i \in 1 .. n + 1 : r[i] = c
  <2>1. CASE c = next
    BY <1>1, <1>3, <2>1
  <2>2. CASE c \in T
    <3>1. PICK i \in 1 .. n : s[i] = c
      BY <2>2 DEF Spells
    <3>2. i + 1 \in 1 .. n + 1 /\ r[i + 1] = c
      BY <1>1, <1>3, <3>1
    <3> QED BY <3>2
  <2> QED BY <2>1, <2>2
<1>6. Spells(r, T \cup {next}, new, next)
  BY <1>3, <1>4, <1>5 DEF Spells
<1> QED BY <1>6 DEF r

LEMMA SpellingShrinks ==
  ASSUME NEW T, NEW map \in Maps, NEW head, NEW last, Trail(T, map, head, last), last # head,
         NEW s, Spells(s, T, map, head)
  PROVE  Spells(Game!Front(s), T \ {last}, map, head) /\ Game!Last(s) = last
<1> DEFINE n == Len(s)
           r == SubSeq(s, 1, n - 1)
<1>1. n \in Nat /\ n >= 1 /\ s[1] = head /\ s[n] = last
  BY SpellingsLength
<1>2. n - 1 \in Nat /\ n - 1 >= 1
  BY <1>1
<1>3. s \in Seq(T) /\ \A i \in 1 .. n : s[i] \in T /\ map[s[i]].order = map[head].order + 1 - i
  BY DEF Spells
<1>4. /\ map[head].order \in Nat
  BY OrdersAreNumbers DEF Trail
<1>5. \A i \in 1 .. n - 1 : i \in 1 .. n /\ i # n
  BY <1>1
<1>6. ASSUME NEW i \in 1 .. n - 1 PROVE s[i] # last
  <2>1. map[s[i]].order = map[head].order + 1 - i /\ i # n
    BY <1>3, <1>5
  <2>2. map[last].order = map[head].order + 1 - n
    BY <1>1, <1>3
  <2>3. map[head].order + 1 - i # map[head].order + 1 - n
    BY <1>1, <1>4, <2>1
  <2> QED BY <2>1, <2>2, <2>3
<1>7. r \in Seq(T) /\ Len(r) = n - 1 /\ \A i \in 1 .. n - 1 : r[i] = s[i]
  BY <1>2, <1>3
<1> HIDE DEF r
<1>8. \A i \in 1 .. n - 1 : r[i] \in T \ {last} /\ map[r[i]].order = map[head].order + 1 - i
  BY <1>3, <1>5, <1>6, <1>7
<1>9. r \in Seq(T \ {last})
  BY <1>7, <1>8
<1>10. ASSUME NEW c \in T \ {last} PROVE \E i \in 1 .. n - 1 : r[i] = c
  <2>1. PICK i \in 1 .. n : s[i] = c
    BY DEF Spells
  <2>2. i # n
    BY <1>1, <2>1
  <2>3. i \in 1 .. n - 1
    BY <1>1, <2>2
  <2> QED BY <1>7, <2>1, <2>3
<1>11. Spells(r, T \ {last}, map, head)
  BY <1>7, <1>8, <1>9, <1>10 DEF Spells
<1> QED BY <1>1, <1>11 DEF r, Game!Front, Game!Last

-----------------------------------------------------------------------------
(* The state of SnakeGame, read off the map.                               *)

LEMMA SameField ==
  /\ Game!Coordinates = Coordinates /\ Game!PlayerIds = PlayerIds
  /\ \A c : Game!Neighbors(c) = Neighbors(c)
<1>1. Game!Coordinates = Coordinates
  BY DEF Game!Coordinates, Coordinates
<1>2. Game!PlayerIds = PlayerIds
  BY DEF Game!PlayerIds, PlayerIds
<1>3. \A c, d : Game!MoveInDirection(c, d) = MoveInDirection(c, d)
  BY DEF Game!MoveInDirection, MoveInDirection
<1>4. \A c : Game!Neighbors(c) = Neighbors(c)
  BY <1>3 DEF Game!Neighbors, Neighbors, Game!Directions, Directions
<1> QED BY <1>1, <1>2, <1>4

Bodies == [p \in PlayerIds |-> BodyOf(p)]
OwedSnakes == {p \in PlayerIds : Owed(p)}
FruitsOwed ==
  CASE stage \in {"players", "sweep"} -> data.fruitsEaten
    [] stage = "fruits" -> data.fruitsEaten - index
    [] OTHER -> 0

LEMMA NoSnakeNoBody ==
  ASSUME NEW p \in PlayerIds
  PROVE  /\ ~HasSnake(p) => BodyOf(p) = <<>>
         /\ ~HasSnake(p)' => BodyOf(p)' = <<>>
<1>1. Cardinality({}) = 0
  BY FS_EmptySet
<1>2. 1 .. 0 = {}
  OBVIOUS
<1>3. ASSUME ~HasSnake(p) PROVE BodyOf(p) = <<>>
  <2>1. \A first : [i \in 1 .. Cardinality({}) |-> CHOOSE c \in {} : data.map[c].order = first + 1 - i] = <<>>
    BY <1>1, <1>2
  <2> QED BY <1>3, <2>1 DEF BodyOf
<1>4. ASSUME ~HasSnake(p)' PROVE BodyOf(p)' = <<>>
  <2>1. \A first : [i \in 1 .. Cardinality({}) |-> CHOOSE c \in {} : data'.map[c].order = first + 1 - i] = <<>>
    BY <1>1, <1>2
  <2> QED BY <1>4, <2>1 DEF BodyOf
<1> QED BY <1>3, <1>4

\* The body of a snake spells its tiles, and ends where the snake does.
LEMMA BodySpells ==
  ASSUME IInv, Snakes, NEW p \in PlayerIds, HasSnake(p)
  PROVE  \E last \in Coordinates :
           /\ Trail(TilesOf(data.map, p), data.map, data.head[p], last)
           /\ Spells(BodyOf(p), TilesOf(data.map, p), data.map, data.head[p])
           /\ ~Owed(p) => last = data.tail[p] /\ last # data.head[p]
<1>1. data.map \in Maps
  BY SnakeFacts
<1>2. SnakeOn(data.map, p, data.head[p], data.tail[p])
  BY DEF Snakes
<1>3. PICK last \in Coordinates :
        /\ Trail(TilesOf(data.map, p), data.map, data.head[p], last)
        /\ \/ data.tail[p] = last /\ last # data.head[p]
           \/ ~IsTileOf(data.map, p, data.tail[p]) /\ data.tail[p] \in Neighbors(last)
  BY <1>2 DEF SnakeOn
<1>4. BodyOf(p) = Spelling(TilesOf(data.map, p), data.map, data.head[p])
  BY DEF BodyOf, Spelling
<1>5. Spells(BodyOf(p), TilesOf(data.map, p), data.map, data.head[p])
  BY <1>1, <1>3, <1>4, SpellingSpells
<1>6. ~Owed(p) => last = data.tail[p] /\ last # data.head[p]
  BY <1>3 DEF Owed
<1> QED BY <1>3, <1>5, <1>6

LEMMA NextBody ==
  ASSUME IInv', Snakes', NEW p \in PlayerIds, HasSnake(p)',
         NEW r, Spells(r, TilesOf(data'.map, p), data'.map, data'.head[p])
  PROVE  BodyOf(p)' = r
<1>1. data'.map \in Maps
  BY DEF IInv, TypeOK, Data
<1>2. SnakeOn(data'.map, p, data'.head[p], data'.tail[p])
  BY DEF Snakes
<1>3. PICK last \in Coordinates : Trail(TilesOf(data'.map, p), data'.map, data'.head[p], last)
  BY <1>2 DEF SnakeOn
<1>4. BodyOf(p)' = Spelling(TilesOf(data'.map, p), data'.map, data'.head[p])
  BY DEF BodyOf, Spelling
<1>5. Spells(BodyOf(p)', TilesOf(data'.map, p), data'.map, data'.head[p])
  BY <1>1, <1>3, <1>4, SpellingSpells
<1> QED BY <1>1, <1>3, <1>5, SpellingsAgree

LEMMA BodyHasItsTiles ==
  ASSUME IInv, Snakes, NEW p \in PlayerIds
  PROVE  /\ HasSnake(p) => /\ BodyOf(p) # <<>> /\ BodyOf(p)[1] = data.head[p]
                           /\ Game!TilesIn(BodyOf(p)) = TilesOf(data.map, p)
                           /\ ~Owed(p) => Game!Last(BodyOf(p)) = data.tail[p]
         /\ ~HasSnake(p) => BodyOf(p) = <<>> /\ Game!TilesIn(BodyOf(p)) = {}
<1>1. CASE ~HasSnake(p)
  <2>1. BodyOf(p) = <<>>
    BY <1>1, NoSnakeNoBody
  <2> QED BY <1>1, <2>1 DEF Game!TilesIn
<1>2. CASE HasSnake(p)
  <2> DEFINE s == BodyOf(p)
             T == TilesOf(data.map, p)
  <2>1. PICK last \in Coordinates :
          /\ Trail(T, data.map, data.head[p], last)
          /\ Spells(s, T, data.map, data.head[p])
          /\ ~Owed(p) => last = data.tail[p]
    BY <1>2, BodySpells
  <2>2. data.map \in Maps
    BY SnakeFacts, <1>2
  <2> HIDE DEF s, T
  <2>3. Len(s) \in Nat /\ Len(s) >= 1 /\ s[1] = data.head[p] /\ s[Len(s)] = last
    BY <2>1, <2>2, SpellingsLength
  <2>4. s # <<>>
    BY <2>3
  <2>5. s \in Seq(T) /\ \A c \in T : \E i \in 1 .. Len(s) : s[i] = c
    BY <2>1 DEF Spells
  <2>6. Game!TilesIn(s) = T
    BY <2>5 DEF Game!TilesIn
  <2>7. Game!Last(s) = last
    BY <2>3 DEF Game!Last
  <2> QED BY <1>2, <2>1, <2>3, <2>4, <2>6, <2>7 DEF s, T
<1> QED BY <1>1, <1>2

\* What is free in the game is what is empty on the map.
LEMMA FreeIsEmpty ==
  ASSUME IInv, Snakes
  PROVE  Game!Free = EmptyTiles(data.map)
<1>1. /\ data.map \in Maps /\ Walls = {c \in Coordinates : data.map[c].type = "wall"}
      /\ \A c \in Coordinates : data.map[c] \in Tiles
  BY DEF IInv, TypeOK, Data, WallsOf, Maps
<1>2. Game!Bodies = {c \in Coordinates : data.map[c].type = "player"}
  <2>1. Game!Bodies = UNION {Game!TilesIn(BodyOf(p)) : p \in PlayerIds}
    BY SameField DEF Game!Bodies
  <2>2. ASSUME NEW c \in Coordinates, data.map[c].type = "player"
        PROVE  \E p \in PlayerIds : c \in Game!TilesIn(BodyOf(p))
    <3>1. HasSnake(data.map[c].player) /\ data.map[c].player \in PlayerIds
      BY <1>1, <2>2 DEF Snakes, OwnersHaveSnakes, Tiles
    <3>2. PICK p \in PlayerIds : p = data.map[c].player
      BY <3>1
    <3>3. c \in TilesOf(data.map, p)
      BY <2>2, <3>2 DEF TilesOf, IsTileOf
    <3>4. c \in Game!TilesIn(BodyOf(p))
      BY <3>1, <3>2, <3>3, BodyHasItsTiles
    <3> QED BY <3>4
  <2>3. ASSUME NEW p \in PlayerIds, NEW c \in Game!TilesIn(BodyOf(p))
        PROVE  c \in Coordinates /\ data.map[c].type = "player"
    <3>1. HasSnake(p) /\ c \in TilesOf(data.map, p)
      BY BodyHasItsTiles
    <3> QED BY <3>1 DEF TilesOf, IsTileOf
  <2> QED BY <2>1, <2>2, <2>3
<1>3. Game!Free = Coordinates \ (Walls \cup Game!Bodies \cup TilesOfType("fruit") \cup TilesOfType("dead"))
  BY SameField DEF Game!Free
<1>4. \A c \in Coordinates : data.map[c].type \in TileTypes
  BY <1>1 DEF Tiles
<1> QED BY <1>1, <1>2, <1>3, <1>4 DEF EmptyTiles, IsTileEmpty, TilesOfType, TileTypes

-----------------------------------------------------------------------------
(* The turns.                                                              *)

LEMMA BodyIsKept ==
  ASSUME IInv, Snakes, IInv', Snakes', NEW q \in PlayerIds, HasSnake(q), HasSnake(q)',
         data'.head[q] = data.head[q], TilesOf(data'.map, q) = TilesOf(data.map, q),
         \A c \in TilesOf(data.map, q) : data'.map[c].order = data.map[c].order
  PROVE  BodyOf(q)' = BodyOf(q)
<1> DEFINE T == TilesOf(data.map, q)
           s == BodyOf(q)
<1>1. PICK last \in Coordinates :
        Trail(T, data.map, data.head[q], last) /\ Spells(s, T, data.map, data.head[q])
  BY BodySpells
<1>2. data.head[q] \in T
  BY <1>1 DEF Trail
<1>3. \A c \in T : data'.map[c].order = data.map[c].order
  OBVIOUS
<1>4. PICK r : r = s
  OBVIOUS
<1> HIDE DEF T, s
<1>5. r \in Seq(T) /\ \A i \in 1 .. Len(r) : r[i] \in T
  BY <1>1, <1>4 DEF Spells
<1>6. Spells(r, T, data'.map, data.head[q])
  BY <1>1, <1>2, <1>3, <1>4, <1>5 DEF Spells
<1>7. BodyOf(q)' = r
  BY <1>6, NextBody DEF T
<1> QED BY <1>4, <1>7 DEF s

\* A turn writes no tiles for others.
WritesNoOther(p) ==
  \A c \in Coordinates :
    data'.map[c].type = "player" /\ data'.map[c].player # p => data'.map[c] = data.map[c]

LEMMA OthersPlayOn ==
  ASSUME Roomy, IInv, Snakes, IInv', Snakes', NEW p \in PlayerIds, Turn(p), WritesNoOther(p),
         NEW q \in PlayerIds \ {p},
         \A c \in Coordinates : IsTileOf(data.map, q, c) => data'.map[c] = data.map[c]
  PROVE  BodyOf(q)' = BodyOf(q) /\ (Owed(q)' <=> Owed(q))
<1>1. players'[q] = players[q]
  BY TurnIsOne, PlayerFacts
<1>2. HasSnake(q)' <=> HasSnake(q)
  BY <1>1 DEF HasSnake, HasStatus
<1>3. CASE ~HasSnake(q)
  BY <1>2, <1>3, NoSnakeNoBody DEF Owed
<1>4. CASE HasSnake(q)
  <2>1. /\ data'.head[q] = data.head[q] /\ data'.tail[q] = data.tail[q]
        /\ data.tail[q] \in Coordinates
    BY <1>4, TurnOnOthers, SnakeFacts
  <2>2. \A c \in Coordinates : IsTileOf(data'.map, q, c) <=> IsTileOf(data.map, q, c)
    BY DEF WritesNoOther, IsTileOf
  <2>3. TilesOf(data'.map, q) = TilesOf(data.map, q)
    BY <2>2 DEF TilesOf
  <2>4. \A c \in TilesOf(data.map, q) : data'.map[c].order = data.map[c].order
    BY DEF TilesOf
  <2>5. BodyOf(q)' = BodyOf(q)
    BY <1>2, <1>4, <2>1, <2>3, <2>4, BodyIsKept
  <2>6. Owed(q)' <=> Owed(q)
    BY <1>2, <1>4, <2>1, <2>2 DEF Owed
  <2> QED BY <2>5, <2>6
<1> QED BY <1>3, <1>4

LEMMA EatPlays ==
  ASSUME Roomy, IInv, Snakes, NobodyEatsAtItsTail, IInv', Snakes', NEW p \in PlayerIds, Eat(p)
  PROVE  Game!Eat(p)
<1> DEFINE next == NextHead(p)
           head == data.head[p]
           T    == TilesOf(data.map, p)
           s    == BodyOf(p)
           t    == [order |-> data.map[head].order + 1, type |-> "player", player |-> p]
<1>1. /\ next \in Neighbors(head) /\ next \in Coordinates /\ HasSnake(p) /\ HasMove(p)
      /\ data \in Data /\ data.map \in Maps /\ head \in Coordinates /\ data.tail[p] \in Coordinates
      /\ data.head \in Cache
  BY NextHeadIsNeighbor, SnakeFacts DEF Eat
<1>2. /\ data'.map = HeadMoved(data.map, p, head, next)
      /\ data'.head = [data.head EXCEPT ![p] = next] /\ data'.tail = data.tail
      /\ data'.fruitsEaten = data.fruitsEaten + 1
  BY EatMakes
<1>3. data.map[next].type = "fruit" /\ UNCHANGED players
  BY DEF Eat, TileAhead
<1>4. HasSnake(p)' /\ data'.head[p] = next
  BY <1>1, <1>2, <1>3, OthersCache DEF HasSnake, HasStatus
<1>5. data'.map = [data.map EXCEPT ![next] = t] /\ t.type = "player" /\ t.player = p
  BY <1>2 DEF HeadMoved, SetTilePlayer
<1>6. /\ TilesOf(data'.map, p) = T \cup {next}
      /\ data'.map[next].order = data.map[head].order + 1
      /\ \A c \in Coordinates \ {next} : data'.map[c] = data.map[c]
  <2> HIDE DEF next, head
  <2>1. HasNewHead(HeadMoved(data.map, p, head, next), data.map, p, head, next)
    BY <1>1, HeadMovedTiles
  <2> QED BY <1>2, <2>1 DEF HasNewHead
<1>7. next \notin T /\ T \subseteq Coordinates
  BY <1>3 DEF TilesOf, IsTileOf
<1>8. BodyOf(p)' = <<next>> \o s
  <2>1. PICK last \in Coordinates : Trail(T, data.map, head, last) /\ Spells(s, T, data.map, head)
    BY <1>1, BodySpells
  <2>2. PICK r : r = <<next>> \o s
    OBVIOUS
  <2> HIDE DEF next, head, T, s, t
  <2>3. Spells(r, T \cup {next}, data'.map, next)
    BY <1>1, <1>6, <1>7, <2>1, <2>2, SpellingGrows
  <2>4. BodyOf(p)' = r
    BY <1>4, <1>6, <2>3, NextBody
  <2> QED BY <2>2, <2>4
<1> HIDE DEF t
<1>9. WritesNoOther(p)
  BY <1>1, <1>5, <1>6 DEF WritesNoOther
<1>10. ASSUME NEW q \in PlayerIds \ {p} PROVE BodyOf(q)' = BodyOf(q) /\ (Owed(q)' <=> Owed(q))
  <2>1. \A c \in Coordinates : IsTileOf(data.map, q, c) => data'.map[c] = data.map[c]
    BY <1>3, <1>6 DEF IsTileOf
  <2> QED BY <1>9, <2>1, OthersPlayOn DEF Turn
<1>11. Owed(p)' <=> Owed(p)
  <2>1. next # data.tail[p]
    BY <1>1, <1>3 DEF NobodyEatsAtItsTail, TileAhead
  <2>2. IsTileOf(data'.map, p, data.tail[p]) <=> IsTileOf(data.map, p, data.tail[p])
    BY <1>1, <1>6, <2>1 DEF IsTileOf
  <2> QED BY <1>1, <1>2, <1>4, <2>2 DEF Owed
<1>12. \A q \in PlayerIds : Owed(q)' <=> Owed(q)
  BY <1>10, <1>11
<1>13. TilesOfType("fruit")' = TilesOfType("fruit") \ {next} /\ TilesOfType("dead")' = TilesOfType("dead")
  <2>1. data'.map[next].type = "player"
    BY <1>1, <1>5 DEF Maps
  <2> QED BY <1>1, <1>3, <1>6, <2>1 DEF TilesOfType
<1>14. stage = "players" /\ stage' = "players" /\ index = p /\ data.fruitsEaten <= index
  BY TurnIsOne DEF Turn, IInv
<1>15. data.fruitsEaten < MaxPlayers
  BY <1>14, MaxPlayersAssumption, PlayerFacts DEF PlayerIds
<1>16. s # <<>> /\ s[1] = head /\ next \in Game!Neighbors(s[1]) /\ next \in TilesOfType("fruit")
  BY <1>1, <1>3, BodyHasItsTiles, SameField DEF TilesOfType
<1> HIDE DEF next, s, head, T
<1>17. \A q \in PlayerIds : BodyOf(q)' = IF q = p THEN <<next>> \o s ELSE BodyOf(q)
  BY <1>8, <1>10
<1>18. Bodies' = [Bodies EXCEPT ![p] = <<next>> \o @]
  BY <1>17 DEF Bodies, s
<1>19. OwedSnakes' = OwedSnakes
  BY <1>12 DEF OwedSnakes
<1>20. FruitsOwed' = FruitsOwed + 1 /\ FruitsOwed < MaxPlayers
  BY <1>2, <1>14, <1>15 DEF FruitsOwed
<1>21. Bodies[p] = s
  BY DEF Bodies, s
<1> QED
  BY <1>13, <1>16, <1>18, <1>19, <1>20, <1>21
     DEF Game!Eat, Bodies, OwedSnakes, FruitsOwed, Owed

LEMMA DeathPlays ==
  ASSUME Roomy, IInv, Snakes, IInv', Snakes', NEW p \in PlayerIds, Crash(p) \/ RemoveDisconnected(p)
  PROVE  Game!Die(p)
<1> DEFINE T == TilesOf(data.map, p)
           s == BodyOf(p)
<1>1. data \in Data /\ data.map \in Maps /\ players \in Players
  BY PlayerFacts DEF Data
<1>2. HasSnake(p) /\ ~HasSnake(p)'
  BY <1>1 DEF Crash, RemoveDisconnected, HasMove, SetStatus, Players, HasSnake, HasStatus
<1>3. data' = KillPlayer(data, p)
  BY DEF Crash, RemoveDisconnected
<1>4. Made(data, data', MarkPlayerAsDead(data.map, p, data.head[p]), data.head, data.tail, 0)
  BY <1>1, <1>3, KillMakes
<1>5. data'.map = MarkPlayerAsDead(data.map, p, data.head[p]) /\ data'.fruitsEaten = data.fruitsEaten
  BY <1>4 DEF Made
<1>6. SnakeOn(data.map, p, data.head[p], data.tail[p])
  BY <1>2 DEF Snakes
<1>7. \A c \in Coordinates :
        data'.map[c] = IF IsTileOf(data.map, p, c) THEN [data.map[c] EXCEPT !.type = "dead"]
                                                   ELSE data.map[c]
  <2>1. \A c \in Coordinates :
          MarkPlayerAsDead(data.map, p, data.head[p])[c] =
            IF IsTileOf(data.map, p, c) THEN [data.map[c] EXCEPT !.type = "dead"] ELSE data.map[c]
    BY <1>1, <1>6, SnakeDies
  <2> QED BY <1>5, <2>1
<1>8. \A c \in Coordinates : data.map[c] \in Tiles
  BY <1>1 DEF Maps
<1>9. \A c \in Coordinates : IsTileOf(data.map, p, c) => data'.map[c].type = "dead"
  BY <1>7, <1>8 DEF Tiles
<1>10. WritesNoOther(p)
  BY <1>7, <1>9 DEF WritesNoOther
<1>11. ASSUME NEW q \in PlayerIds \ {p} PROVE BodyOf(q)' = BodyOf(q) /\ (Owed(q)' <=> Owed(q))
  <2>1. \A c \in Coordinates : IsTileOf(data.map, q, c) => data'.map[c] = data.map[c]
    BY <1>7 DEF IsTileOf
  <2> QED BY <1>10, <2>1, OthersPlayOn DEF Turn
<1>12. BodyOf(p)' = <<>> /\ ~Owed(p)'
  BY <1>2, NoSnakeNoBody DEF Owed
<1>13. TilesOfType("fruit")' = TilesOfType("fruit")
       /\ TilesOfType("dead")' = TilesOfType("dead") \cup T
  BY <1>7, <1>9 DEF TilesOfType, TilesOf, IsTileOf
<1>14. s # <<>> /\ Game!TilesIn(s) = T
  BY <1>2, BodyHasItsTiles
<1>15. stage = "players" /\ stage' = "players"
  BY TurnIsOne DEF Turn
<1> HIDE DEF s, T
<1>16. Bodies' = [Bodies EXCEPT ![p] = <<>>]
  BY <1>11, <1>12 DEF Bodies
<1>17. OwedSnakes' = OwedSnakes \ {p}
  BY <1>11, <1>12 DEF OwedSnakes
<1>18. FruitsOwed' = FruitsOwed
  BY <1>5, <1>15 DEF FruitsOwed
<1>19. Bodies[p] = s
  BY DEF Bodies, s
<1> QED
  BY <1>13, <1>14, <1>16, <1>17, <1>18, <1>19
     DEF Game!Die, Bodies, OwedSnakes, FruitsOwed, Owed

LEMMA SpawnPlays ==
  ASSUME Roomy, IInv, Snakes, IInv', Snakes', NEW p \in PlayerIds, Spawn(p)
  PROVE  Game!Enter(p)
<1>1. data \in Data /\ data.map \in Maps /\ data.head \in Cache /\ data.tail \in Cache
  BY PlayerFacts DEF Data, Cache
<1>2. PICK head \in EmptyTiles(data.map), tail \in EmptyTiles(data.map) :
        /\ head \in Coordinates /\ tail \in Coordinates /\ tail \in Neighbors(head) /\ tail # head
        /\ HasSnake(p)' /\ ~HasSnake(p)
        /\ \E map :
             /\ Made(data, data', map, [data.head EXCEPT ![p] = head],
                     [data.tail EXCEPT ![p] = tail], 3)
             /\ \/ map = Entered(data.map, p, head, tail)
                \/ \E c \in EmptyTiles(Entered(data.map, p, head, tail)) :
                     map = SetTileFruit(Entered(data.map, p, head, tail), c)
  BY SpawnHasMade
<1> DEFINE entered == Entered(data.map, p, head, tail)
           T == TilesOf(data.map, p)
<1>3. HasEntered(entered, data.map, p, head, tail)
  BY <1>1, <1>2, EnteredTiles
<1> HIDE DEF entered
<1>4. /\ data'.fruitsEaten = data.fruitsEaten /\ data'.head = [data.head EXCEPT ![p] = head]
      /\ data'.map = entered \/ \E c \in EmptyTiles(entered) : data'.map = SetTileFruit(entered, c)
  BY <1>2 DEF Made, entered
<1>5. /\ entered \in Maps
      /\ entered[head] = [order |-> 1, type |-> "player", player |-> p]
      /\ entered[tail] = [order |-> 0, type |-> "player", player |-> p]
      /\ \A c \in Coordinates \ {head, tail} : entered[c] = data.map[c]
  BY <1>3 DEF HasEntered
<1> DEFINE Fruits(F) == /\ F = {} \/ \E c \in EmptyTiles(entered) : F = {c}
                        /\ \A c \in Coordinates \ F : data'.map[c] = entered[c]
                        /\ \A c \in F : data'.map[c].type = "fruit"
<1>6. PICK F \in SUBSET EmptyTiles(entered) : Fruits(F)
  <2>1. ASSUME data'.map = entered PROVE Fruits({})
    BY <2>1
  <2>2. ASSUME NEW c \in EmptyTiles(entered), data'.map = SetTileFruit(entered, c)
        PROVE  Fruits({c})
    <3> DEFINE t == [entered[c] EXCEPT !.type = "fruit"]
    <3>1. c \in Coordinates
      BY DEF EmptyTiles
    <3>2. data'.map = [entered EXCEPT ![c] = t] /\ t.type = "fruit"
      BY <1>5, <2>2, <3>1, SetTileFruitTiles
    <3> HIDE DEF t
    <3> QED BY <1>5, <3>1, <3>2 DEF Maps
  <2> HIDE DEF Fruits
  <2> QED BY <1>4, <2>1, <2>2
<1>7. /\ data'.map[head] = [order |-> 1, type |-> "player", player |-> p]
      /\ data'.map[tail] = [order |-> 0, type |-> "player", player |-> p]
      /\ head \notin F /\ tail \notin F
      /\ \A c \in F : data.map[c].type = "empty" /\ c \in Coordinates
      /\ \A c \in Coordinates \ (F \cup {head, tail}) : data'.map[c] = data.map[c]
  BY <1>2, <1>5, <1>6 DEF EmptyTiles, IsTileEmpty
<1>8. T = {}
  BY <1>2 DEF Snakes, OwnersHaveSnakes, TilesOf, IsTileOf
<1>9. \A c \in Coordinates : c \notin {head, tail} => ~IsTileOf(data'.map, p, c)
  BY <1>6, <1>7, <1>8 DEF TilesOf, IsTileOf
<1>10. TilesOf(data'.map, p) = {head, tail}
  BY <1>2, <1>7, <1>9 DEF TilesOf, IsTileOf
<1>11. BodyOf(p)' = <<head, tail>>
  <2>1. data'.head[p] = head
    BY <1>1, <1>4, OthersCache
  <2> DEFINE r == <<head, tail>>
  <2>2. r \in Seq({head, tail}) /\ Len(r) = 2 /\ r[1] = head /\ r[2] = tail
    OBVIOUS
  <2> HIDE DEF r
  <2>3. data'.map[head].order = 1 /\ data'.map[tail].order = 0
    BY <1>7
  <2>4. \A i \in 1 .. 2 : data'.map[r[i]].order = data'.map[head].order + 1 - i
    BY <2>2, <2>3
  <2>5. \A c \in {head, tail} : \E i \in 1 .. 2 : r[i] = c
    BY <2>2
  <2>6. Spells(r, {head, tail}, data'.map, head)
    BY <2>2, <2>4, <2>5 DEF Spells
  <2>7. BodyOf(p)' = r
    BY <1>2, <1>10, <2>1, <2>6, NextBody
  <2> QED BY <2>7 DEF r
<1>12. WritesNoOther(p)
  BY <1>6, <1>7 DEF WritesNoOther
<1>13. ASSUME NEW q \in PlayerIds \ {p} PROVE BodyOf(q)' = BodyOf(q) /\ (Owed(q)' <=> Owed(q))
  <2>1. \A c \in Coordinates : IsTileOf(data.map, q, c) => data'.map[c] = data.map[c]
    BY <1>2, <1>7 DEF IsTileOf, EmptyTiles, IsTileEmpty
  <2> QED BY <1>12, <2>1, OthersPlayOn DEF Turn
<1>14. ~Owed(p) /\ ~Owed(p)'
  BY <1>2, TailIsOwn DEF Owed
<1>15. TilesOfType("fruit")' = TilesOfType("fruit") \cup F /\ TilesOfType("dead")' = TilesOfType("dead")
  BY <1>2, <1>6, <1>7 DEF TilesOfType, EmptyTiles, IsTileEmpty
<1>16. BodyOf(p) = <<>>
  BY <1>2, NoSnakeNoBody
<1>17. stage = "players" /\ stage' = "players"
  BY TurnIsOne DEF Turn
<1>18. /\ head \in Game!Free /\ tail \in (Game!Neighbors(head) \cap Game!Free) \ {head}
       /\ F = {} \/ \E c \in Game!Free \ {head, tail} : F = {c}
  BY <1>2, <1>6, <1>7, FreeIsEmpty, SameField DEF EmptyTiles, IsTileEmpty
<1>19. Bodies' = [Bodies EXCEPT ![p] = <<head, tail>>] /\ Bodies[p] = <<>>
  BY <1>11, <1>13, <1>16 DEF Bodies
<1>20. OwedSnakes' = OwedSnakes
  BY <1>13, <1>14 DEF OwedSnakes
<1>21. FruitsOwed' = FruitsOwed
  BY <1>4, <1>17 DEF FruitsOwed
<1>22. \/ TilesOfType("fruit")' = TilesOfType("fruit")
       \/ \E c \in Game!Free \ {head, tail} : TilesOfType("fruit")' = TilesOfType("fruit") \cup {c}
  BY <1>15, <1>18
<1> QED
  BY <1>15, <1>18, <1>19, <1>20, <1>21, <1>22
     DEF Game!Enter, Bodies, OwedSnakes, FruitsOwed, Owed

\* What a crawl makes of the tiles.
HasCrawled(p) ==
  LET next == NextHead(p)
  IN  /\ data'.map[next].order = data.map[data.head[p]].order + 1
      /\ data'.map[next].type = "player" /\ data'.map[next].player = p
      /\ \A c \in Coordinates \ {next} :
           \/ data'.map[c] = data.map[c] /\ (~IsTileOf(data.map, p, c) \/ c # data.tail[p])
           \/ data'.map[c].type = "empty" /\ IsTileOf(data.map, p, c) /\ c = data.tail[p]
      /\ data'.head = [data.head EXCEPT ![p] = next] /\ data'.head[p] = next
      /\ data'.fruitsEaten = data.fruitsEaten /\ UNCHANGED players
      /\ HasSnake(p) /\ HasSnake(p)' /\ ~Owed(p)'
      /\ next \in Neighbors(data.head[p]) /\ next \in Coordinates

LEMMA CrawlHasCrawled ==
  ASSUME Roomy, IInv, Snakes, NEW p \in PlayerIds, Crawl(p)
  PROVE  HasCrawled(p)
<1> DEFINE next == NextHead(p)
           t    == [order |-> data.map[data.head[p]].order + 1, type |-> "player", player |-> p]
<1>1. HasMove(p) /\ UNCHANGED players
  BY DEF Crawl
<1>2. /\ next \in Neighbors(data.head[p]) /\ next \in Coordinates /\ HasSnake(p)
      /\ data.map \in Maps /\ data.head \in Cache
  BY <1>1, NextHeadIsNeighbor, SnakeFacts
<1>3. HasSnake(p)'
  BY <1>1, <1>2 DEF HasSnake, HasStatus
<1>4. data'.map = CrawledMap(p) /\ data'.fruitsEaten = data.fruitsEaten
  BY CrawlWrites
<1>5. data'.head = [data.head EXCEPT ![p] = next]
  BY CrawlMakes DEF Made
<1>6. data'.head[p] = next
  BY <1>2, <1>5, OthersCache
<1>7. ~Owed(p)'
  BY TailIsOwn DEF Owed
<1>8. /\ data'.map[next] = t
      /\ \A c \in Coordinates \ {next} :
           IF c = data.tail[p] /\ IsTileOf(data.map, p, c)
           THEN data'.map[c] = [data.map[c] EXCEPT !.type = "empty"]
           ELSE data'.map[c] = data.map[c]
  BY <1>1, <1>4, CrawledTiles
<1>9. t.order = data.map[data.head[p]].order + 1 /\ t.type = "player" /\ t.player = p
  OBVIOUS
<1>10. \A c \in Coordinates : [data.map[c] EXCEPT !.type = "empty"].type = "empty"
  BY <1>2 DEF Maps, Tiles
<1> HIDE DEF t
<1>11. \A c \in Coordinates \ {next} :
         \/ data'.map[c] = data.map[c] /\ (~IsTileOf(data.map, p, c) \/ c # data.tail[p])
         \/ data'.map[c].type = "empty" /\ IsTileOf(data.map, p, c) /\ c = data.tail[p]
  BY <1>8, <1>10
<1>12. /\ data'.map[next].order = data.map[data.head[p]].order + 1
       /\ data'.map[next].type = "player" /\ data'.map[next].player = p
  BY <1>8, <1>9
<1> HIDE DEF next
<1> QED BY <1>1, <1>2, <1>3, <1>4, <1>5, <1>6, <1>7, <1>11, <1>12 DEF HasCrawled, next

\* The body of a snake that crawls: Moved of SnakeGame.
LEMMA CrawlersBody ==
  ASSUME IInv, Snakes, IInv', Snakes', NEW p \in PlayerIds, Crawl(p), HasCrawled(p)
  PROVE  BodyOf(p)' = <<NextHead(p)>> \o (IF Owed(p) THEN BodyOf(p) ELSE Game!Front(BodyOf(p)))
<1> DEFINE next == NextHead(p)
           head == data.head[p]
           T    == TilesOf(data.map, p)
           s    == BodyOf(p)
<1>1. PICK last \in Coordinates :
        /\ Trail(T, data.map, head, last) /\ Spells(s, T, data.map, head)
        /\ ~Owed(p) => last = data.tail[p] /\ last # head
  BY BodySpells DEF HasCrawled
<1>2. /\ data'.map[next].order = data.map[head].order + 1
      /\ data'.map[next].type = "player" /\ data'.map[next].player = p
      /\ \A c \in Coordinates \ {next} :
           \/ data'.map[c] = data.map[c] /\ (~IsTileOf(data.map, p, c) \/ c # data.tail[p])
           \/ data'.map[c].type = "empty" /\ IsTileOf(data.map, p, c) /\ c = data.tail[p]
      /\ data'.head[p] = next /\ HasSnake(p) /\ HasSnake(p)' /\ next \in Coordinates
  BY DEF HasCrawled
<1>3. data.map \in Maps
  BY <1>2, SnakeFacts
<1>4. \A c \in Coordinates : c \in T <=> IsTileOf(data.map, p, c)
  BY DEF TilesOf
<1>5. next \in T => next = data.tail[p]
  BY CrawlGoesOntoTails DEF TilesOf
<1>6. ASSUME NEW R, NEW l, Trail(R, data.map, head, l), NEW r, Spells(r, R, data.map, head),
             R \subseteq T, \A c \in T \ R : ~Owed(p) /\ c = data.tail[p],
             ~Owed(p) => data.tail[p] \notin R
      PROVE  BodyOf(p)' = <<next>> \o r
  <2>1. next \notin R
    BY <1>2, <1>4, <1>5, <1>6 DEF Owed
  <2>2. \A c \in R : data'.map[c] = data.map[c]
    <3>1. ASSUME NEW c \in R PROVE c \in Coordinates \ {next} /\ c # data.tail[p]
      BY <1>2, <1>4, <1>6, <2>1, <3>1 DEF TilesOf, Owed
    <3> QED BY <1>2, <3>1
  <2>3. ASSUME NEW c \in Coordinates, c # next PROVE IsTileOf(data'.map, p, c) <=> c \in R
    <3>1. CASE c \in R
      BY <1>4, <1>6, <2>2, <3>1 DEF IsTileOf
    <3>2. CASE c \in T \ R
      BY <1>2, <1>4, <1>6, <2>3, <3>2 DEF IsTileOf
    <3>3. CASE c \notin T
      BY <1>2, <1>4, <1>6, <2>3, <3>3 DEF IsTileOf
    <3> QED BY <3>1, <3>2, <3>3
  <2>4. TilesOf(data'.map, p) = R \cup {next}
    <3>1. IsTileOf(data'.map, p, next)
      BY <1>2 DEF IsTileOf
    <3>2. R \subseteq Coordinates
      BY <1>6 DEF TilesOf
    <3> QED BY <1>2, <2>3, <3>1, <3>2 DEF TilesOf
  <2>5. PICK v : v = <<next>> \o r
    OBVIOUS
  <2> HIDE DEF next, head, T, s
  <2>6. Spells(v, R \cup {next}, data'.map, next)
    BY <1>2, <1>3, <1>6, <2>1, <2>2, <2>5, SpellingGrows
  <2>7. BodyOf(p)' = v
    BY <1>2, <2>4, <2>6, NextBody
  <2> QED BY <2>5, <2>7
<1>7. CASE Owed(p)
  <2>1. PICK r : r = s
    OBVIOUS
  <2> HIDE DEF s, T
  <2>2. BodyOf(p)' = <<next>> \o r
    BY <1>1, <1>6, <1>7, <2>1
  <2> QED BY <1>7, <2>1, <2>2 DEF s
<1>8. CASE ~Owed(p)
  <2>1. PICK r : r = Game!Front(s)
    OBVIOUS
  <2> HIDE DEF s, T, next, head
  <2>2. Spells(r, T \ {last}, data.map, head)
    BY <1>1, <1>3, <1>8, <2>1, SpellingShrinks
  <2>3. PICK l \in T \ {last} : Trail(T \ {last}, data.map, head, l)
    BY <1>1, <1>3, <1>8, TrailShrinks
  <2>4. /\ T \ {last} \subseteq T
        /\ \A c \in T \ (T \ {last}) : ~Owed(p) /\ c = data.tail[p]
        /\ ~Owed(p) => data.tail[p] \notin T \ {last}
    BY <1>1, <1>8
  <2>5. BodyOf(p)' = <<next>> \o r
    BY <1>6, <2>2, <2>3, <2>4
  <2> QED BY <1>8, <2>1, <2>5 DEF s, next
<1> QED BY <1>7, <1>8

LEMMA CrawlLeavesTheRest ==
  ASSUME Roomy, IInv, Snakes, IInv', Snakes', NEW p \in PlayerIds, Crawl(p), HasCrawled(p)
  PROVE  /\ \A q \in PlayerIds \ {p} :
              ~IsTileOf(data.map, q, NextHead(p)) =>
                BodyOf(q)' = BodyOf(q) /\ (Owed(q)' <=> Owed(q))
         /\ TilesOfType("fruit")' = TilesOfType("fruit")
         /\ TilesOfType("dead")' = TilesOfType("dead")
         /\ FruitsOwed' = FruitsOwed
<1> DEFINE next == NextHead(p)
<1>1. /\ data'.map[next].type = "player" /\ data'.map[next].player = p
      /\ \A c \in Coordinates \ {next} :
           \/ data'.map[c] = data.map[c]
           \/ data'.map[c].type = "empty" /\ IsTileOf(data.map, p, c)
      /\ data'.fruitsEaten = data.fruitsEaten /\ next \in Coordinates
  BY DEF HasCrawled
<1>2. data.map[next].type \in {"empty", "player"}
  BY DEF Crawl, IsTailVacated, TileAhead
<1> HIDE DEF next
<1>3. WritesNoOther(p)
  BY <1>1 DEF WritesNoOther
<1>4. ASSUME NEW q \in PlayerIds \ {p}, ~IsTileOf(data.map, q, next)
      PROVE  BodyOf(q)' = BodyOf(q) /\ (Owed(q)' <=> Owed(q))
  <2>1. \A c \in Coordinates : IsTileOf(data.map, q, c) => data'.map[c] = data.map[c]
    BY <1>1, <1>4 DEF IsTileOf
  <2> QED BY <1>3, <2>1, OthersPlayOn DEF Turn
<1>5. TilesOfType("fruit")' = TilesOfType("fruit") /\ TilesOfType("dead")' = TilesOfType("dead")
  BY <1>1, <1>2 DEF TilesOfType, IsTileOf
<1>6. FruitsOwed' = FruitsOwed
  BY <1>1, TurnIsOne DEF FruitsOwed, Turn
<1> QED BY <1>4, <1>5, <1>6 DEF next

\* The tile ahead is free, or the snake's own tail.
LEMMA CrawlPlays ==
  ASSUME Roomy, IInv, Snakes, IInv', Snakes', NEW p \in PlayerIds, Crawl(p),
         \A q \in PlayerIds \ {p} : ~IsTileOf(data.map, q, NextHead(p))
  PROVE  Game!Crawl(p)
<1> DEFINE next == NextHead(p)
           s    == BodyOf(p)
<1>1. HasCrawled(p)
  BY CrawlHasCrawled
<1>2. BodyOf(p)' = <<next>> \o (IF Owed(p) THEN s ELSE Game!Front(s))
  BY <1>1, CrawlersBody
<1>3. /\ HasSnake(p) /\ ~Owed(p)' /\ next \in Neighbors(data.head[p]) /\ next \in Coordinates
      /\ data.map \in Maps
  BY <1>1, SnakeFacts DEF HasCrawled
<1>4. /\ \A q \in PlayerIds \ {p} : BodyOf(q)' = BodyOf(q) /\ (Owed(q)' <=> Owed(q))
      /\ TilesOfType("fruit")' = TilesOfType("fruit") /\ TilesOfType("dead")' = TilesOfType("dead")
      /\ FruitsOwed' = FruitsOwed
  BY <1>1, CrawlLeavesTheRest
<1>5. s # <<>> /\ s[1] = data.head[p] /\ (~Owed(p) => Game!Last(s) = data.tail[p])
  BY <1>3, BodyHasItsTiles
<1>6. next \in Game!Free \/ (~Owed(p) /\ next = Game!Last(s))
  <2>1. CASE data.map[next].type = "empty"
    BY <1>3, <2>1, FreeIsEmpty DEF EmptyTiles, IsTileEmpty
  <2>2. CASE data.map[next].type # "empty"
    <3>1. data.map[next].type = "player" /\ data.map[next].player \in PlayerIds
      BY <1>3, <2>2 DEF Crawl, IsTailVacated, TileAhead, Maps, Tiles
    <3>2. IsTileOf(data.map, p, next)
      BY <3>1 DEF IsTileOf
    <3>3. next = data.tail[p]
      BY <3>2, CrawlGoesOntoTails
    <3> QED BY <1>5, <3>2, <3>3 DEF Owed
  <2> QED BY <2>1, <2>2
<1>7. next \in Game!Neighbors(s[1])
  BY <1>3, <1>5, SameField
<1> HIDE DEF next, s
<1>8. Bodies' = [Bodies EXCEPT ![p] = <<next>> \o (IF Owed(p) THEN s ELSE Game!Front(s))]
  BY <1>2, <1>4 DEF Bodies
<1>9. OwedSnakes' = OwedSnakes \ {p}
  BY <1>3, <1>4 DEF OwedSnakes
<1>10. Bodies[p] = s /\ (p \in OwedSnakes <=> Owed(p))
  BY DEF Bodies, s, OwedSnakes
<1>11. Game!Moved(p, next) = <<next>> \o (IF Owed(p) THEN s ELSE Game!Front(s))
  BY <1>10 DEF Game!Moved, Bodies, OwedSnakes, Owed
<1>12. /\ Bodies[p] # <<>> /\ next \in Game!Neighbors(Bodies[p][1])
       /\ next \in Game!Free \/ (p \notin OwedSnakes /\ next = Game!Last(Bodies[p]))
       /\ Bodies' = [Bodies EXCEPT ![p] = Game!Moved(p, next)]
  BY <1>5, <1>6, <1>7, <1>8, <1>10, <1>11
<1> QED
  BY <1>4, <1>9, <1>12 DEF Game!Crawl, Bodies, OwedSnakes, FruitsOwed, Owed

\* It is the tail of another snake, whose turn is still to come.
LEMMA TailIsTaken ==
  ASSUME Roomy, IInv, Snakes, IInv', Snakes', NEW p \in PlayerIds, Crawl(p),
         NEW q \in PlayerIds \ {p}, IsTileOf(data.map, q, NextHead(p))
  PROVE  Game!TakeTail(p, q)
<1> DEFINE next == NextHead(p)
           head == data.head[q]
           s    == BodyOf(p)
           r    == BodyOf(q)
           T    == TilesOf(data.map, q)
<1>1. HasCrawled(p)
  BY CrawlHasCrawled
<1>2. /\ HasSnake(p) /\ ~Owed(p)' /\ next \in Neighbors(data.head[p]) /\ next \in Coordinates
      /\ data'.map[next].player = p
      /\ \A c \in Coordinates \ {next} :
           \/ data'.map[c] = data.map[c]
           \/ data'.map[c].type = "empty" /\ IsTileOf(data.map, p, c)
  BY <1>1 DEF HasCrawled
<1>3. HasSnake(q) /\ data.map \in Maps
  BY <1>2, SnakeFacts DEF Snakes, OwnersHaveSnakes, IsTileOf
<1>4. /\ HasSnake(q)' /\ data'.head[q] = head /\ data'.tail[q] = data.tail[q]
      /\ next = data.tail[q]
  BY <1>3, CrawlGoesOntoTails, TurnOnOthers DEF Turn
<1>5. ~Owed(q) /\ Owed(q)'
  BY <1>2, <1>4 DEF Owed, IsTileOf
<1>6. PICK last \in Coordinates :
        /\ Trail(T, data.map, head, last) /\ Spells(r, T, data.map, head)
        /\ last = next /\ last # head
  BY <1>3, <1>4, <1>5, BodySpells
<1>7. /\ head \in T \ {next} /\ T \subseteq Coordinates
      /\ \A c \in T \ {next} : data'.map[c] = data.map[c]
  BY <1>2, <1>6 DEF Trail, TilesOf, IsTileOf
<1>8. TilesOf(data'.map, q) = T \ {next}
  <2>1. ~IsTileOf(data'.map, q, next)
    BY <1>2 DEF IsTileOf
  <2>2. \A c \in Coordinates \ {next} : IsTileOf(data'.map, q, c) <=> IsTileOf(data.map, q, c)
    BY <1>2 DEF IsTileOf
  <2> QED BY <2>1, <2>2 DEF TilesOf
<1>9. BodyOf(q)' = Game!Front(r) /\ Game!Last(r) = next
  <2>1. PICK v : v = Game!Front(r)
    OBVIOUS
  <2> HIDE DEF next, head, r, T
  <2>2. Spells(v, T \ {next}, data.map, head) /\ Game!Last(r) = next
    BY <1>3, <1>6, <2>1, SpellingShrinks
  <2>3. v \in Seq(T \ {next}) /\ \A i \in 1 .. Len(v) : v[i] \in T \ {next}
    BY <2>2 DEF Spells
  <2>4. Spells(v, T \ {next}, data'.map, head)
    BY <1>7, <2>2, <2>3 DEF Spells
  <2>5. BodyOf(q)' = v
    BY <1>4, <1>8, <2>4, NextBody
  <2> QED BY <2>1, <2>2, <2>5
<1>10. BodyOf(p)' = <<next>> \o (IF Owed(p) THEN s ELSE Game!Front(s))
  BY <1>1, CrawlersBody
<1>11. /\ \A o \in PlayerIds \ {p, q} : BodyOf(o)' = BodyOf(o) /\ (Owed(o)' <=> Owed(o))
       /\ TilesOfType("fruit")' = TilesOfType("fruit") /\ TilesOfType("dead")' = TilesOfType("dead")
       /\ FruitsOwed' = FruitsOwed
  <2>1. \A o \in PlayerIds \ {p, q} : ~IsTileOf(data.map, o, next)
    BY DEF IsTileOf
  <2> QED BY <1>1, <2>1, CrawlLeavesTheRest
<1>12. s # <<>> /\ r # <<>> /\ next \in Game!Neighbors(s[1])
  BY <1>2, <1>3, BodyHasItsTiles, SameField
<1> HIDE DEF next, s, r
<1>13. Bodies[p] = s /\ Bodies[q] = r /\ (p \in OwedSnakes <=> Owed(p)) /\ q \notin OwedSnakes
  BY <1>5 DEF Bodies, s, r, OwedSnakes
<1>14. Game!Moved(p, next) = <<next>> \o (IF Owed(p) THEN s ELSE Game!Front(s))
  BY <1>13 DEF Game!Moved, Bodies, OwedSnakes, Owed
<1>15. Bodies' = [Bodies EXCEPT ![p] = Game!Moved(p, next), ![q] = Game!Front(@)]
  <2>1. \A o \in PlayerIds :
          BodyOf(o)' = CASE o = p -> Game!Moved(p, next)
                         [] o = q -> Game!Front(r)
                         [] OTHER -> BodyOf(o)
    BY <1>9, <1>10, <1>11, <1>14
  <2> QED BY <1>13, <2>1 DEF Bodies
<1>16. OwedSnakes' = (OwedSnakes \ {p}) \cup {q}
  BY <1>2, <1>5, <1>11 DEF OwedSnakes
<1>17. /\ p # q /\ Bodies[p] # <<>> /\ Bodies[q] # <<>> /\ Game!Last(Bodies[q]) = next
       /\ Game!Last(Bodies[q]) \in Game!Neighbors(Bodies[p][1])
  BY <1>9, <1>12, <1>13
<1>18. Bodies' = [Bodies EXCEPT ![p] = Game!Moved(p, Game!Last(Bodies[q])), ![q] = Game!Front(@)]
  BY <1>15, <1>17
<1> QED
  BY <1>11, <1>13, <1>16, <1>17, <1>18 DEF Game!TakeTail, Bodies, OwedSnakes, FruitsOwed, Owed

-----------------------------------------------------------------------------
(* The other steps.                                                        *)

LEMMA QuietKeepsBodies ==
  ASSUME IInv, Snakes, IInv', Snakes', Quiet
  PROVE  Bodies' = Bodies /\ OwedSnakes' = OwedSnakes
<1>1. ASSUME NEW q \in PlayerIds PROVE BodyOf(q)' = BodyOf(q) /\ (Owed(q)' <=> Owed(q))
  <2>1. /\ HasSnake(q)' <=> HasSnake(q)
        /\ data'.head = data.head /\ data'.tail = data.tail
    BY DEF Quiet
  <2>2. CASE ~HasSnake(q)
    BY <2>1, <2>2, NoSnakeNoBody DEF Owed
  <2>3. CASE HasSnake(q)
    <3>1. TilesOf(data'.map, q) = TilesOf(data.map, q)
      BY QuietKeepsTiles
    <3>2. \A c \in TilesOf(data.map, q) : data'.map[c].order = data.map[c].order
      BY DEF Quiet, TilesOf, IsTileOf
    <3>3. BodyOf(q)' = BodyOf(q)
      BY <2>1, <2>3, <3>1, <3>2, BodyIsKept
    <3>4. data.tail[q] \in Coordinates
      BY <2>3, SnakeFacts
    <3>5. IsTileOf(data'.map, q, data.tail[q]) <=> IsTileOf(data.map, q, data.tail[q])
      BY <3>1, <3>4 DEF TilesOf
    <3>6. Owed(q)' <=> Owed(q)
      BY <2>1, <2>3, <3>5 DEF Owed
    <3> QED BY <3>3, <3>6
  <2> QED BY <2>2, <2>3
<1> QED BY <1>1 DEF Bodies, OwedSnakes

\* A tile of a dead snake decays.
LEMMA SweepPlays ==
  ASSUME IInv, Snakes, IInv', Snakes', SweepTile, Quiet
  PROVE  Game!Decay
<1>1. Bodies' = Bodies /\ OwedSnakes' = OwedSnakes
  BY QuietKeepsBodies
<1>2. PICK c \in DeadTiles(data.map) :
        Made(data, data', SetTileEmpty(data.map, c), data.head, data.tail, 1)
  BY SweepTileHasMade
<1> DEFINE t == [data.map[c] EXCEPT !.type = "empty"]
<1>3. c \in Coordinates /\ data.map[c].type = "dead" /\ data.map \in Maps
  BY DEF DeadTiles, IInv, TypeOK, Data
<1>4. SetTileEmpty(data.map, c) = [data.map EXCEPT ![c] = t] /\ t.type = "empty"
  BY <1>3, SetTileEmptyTiles
<1> HIDE DEF t
<1>5. data'.map = [data.map EXCEPT ![c] = t] /\ data'.fruitsEaten = data.fruitsEaten
  BY <1>2, <1>4 DEF Made
<1>6. data'.map[c].type = "empty" /\ \A e \in Coordinates \ {c} : data'.map[e] = data.map[e]
  BY <1>3, <1>4, <1>5 DEF Maps
<1>7. TilesOfType("fruit")' = TilesOfType("fruit") /\ TilesOfType("dead")' = TilesOfType("dead") \ {c}
  BY <1>3, <1>6 DEF TilesOfType
<1>8. c \in TilesOfType("dead")
  BY <1>3 DEF TilesOfType
<1>9. FruitsOwed' = FruitsOwed
  BY <1>5 DEF FruitsOwed, SweepTile
<1> QED
  BY <1>1, <1>7, <1>8, <1>9 DEF Game!Decay, Bodies, OwedSnakes, FruitsOwed, Owed

\* A fruit comes back.
LEMMA FruitPlays ==
  ASSUME IInv, Snakes, IInv', Snakes', SpawnFruit, Quiet
  PROVE  Game!Ripen
<1>1. Bodies' = Bodies /\ OwedSnakes' = OwedSnakes
  BY QuietKeepsBodies
<1>2. /\ stage = "fruits" /\ stage' = "fruits" /\ index' = index + 1 /\ index < data.fruitsEaten
      /\ data.map \in Maps /\ index \in Nat /\ data.fruitsEaten \in Nat
  BY MaxPlayersAssumption DEF SpawnFruit, IInv, TypeOK, Data
<1>3. data'.fruitsEaten = data.fruitsEaten
  BY SpawnFruitHasMade DEF Made
<1>4. FruitsOwed > 0 /\ FruitsOwed' = FruitsOwed - 1
  BY <1>2, <1>3 DEF FruitsOwed
<1>5. CASE data' = data /\ EmptyTiles(data.map) = {}
  <2>1. Game!Free = {}
    BY <1>5, FreeIsEmpty
  <2>2. TilesOfType("fruit")' = TilesOfType("fruit") /\ TilesOfType("dead")' = TilesOfType("dead")
    BY <1>5 DEF TilesOfType
  <2> QED
    BY <1>1, <1>4, <2>1, <2>2 DEF Game!Ripen, Bodies, OwedSnakes, FruitsOwed, Owed
<1>6. ASSUME NEW c \in EmptyTiles(data.map),
             Made(data, data', SetTileFruit(data.map, c), data.head, data.tail, 1)
      PROVE  Game!Ripen
  <2> DEFINE t == [data.map[c] EXCEPT !.type = "fruit"]
  <2>1. c \in Coordinates /\ data.map[c].type = "empty"
    BY DEF EmptyTiles, IsTileEmpty
  <2>2. SetTileFruit(data.map, c) = [data.map EXCEPT ![c] = t] /\ t.type = "fruit"
    BY <1>2, <2>1, SetTileFruitTiles
  <2> HIDE DEF t
  <2>3. data'.map = [data.map EXCEPT ![c] = t]
    BY <1>6, <2>2 DEF Made
  <2>4. data'.map[c].type = "fruit" /\ \A e \in Coordinates \ {c} : data'.map[e] = data.map[e]
    BY <1>2, <2>1, <2>2, <2>3 DEF Maps
  <2>5. /\ TilesOfType("fruit")' = TilesOfType("fruit") \cup {c}
        /\ TilesOfType("dead")' = TilesOfType("dead")
    BY <2>1, <2>4 DEF TilesOfType
  <2>6. c \in Game!Free
    BY FreeIsEmpty
  <2> QED
    BY <1>1, <1>4, <2>5, <2>6 DEF Game!Ripen, Bodies, OwedSnakes, FruitsOwed, Owed
<1> QED BY <1>5, <1>6, SpawnFruitHasMade

\* All the others are not seen in the game.
LEMMA RestIsUnseen ==
  ASSUME IInv, Snakes, FruitsAreKept, IInv', Snakes', [Next]_vars, Quiet,
         ~SweepTile, ~SpawnFruit,
         \A p \in PlayerIds : Turn(p) => FailToSpawn(p) \/ Rest(p)
  PROVE  UNCHANGED Game!gameVars
<1>1. Bodies' = Bodies /\ OwedSnakes' = OwedSnakes
  BY QuietKeepsBodies
<1>t. data \in Data /\ data.fruitsEaten \in Nat /\ index \in Nat
  BY MaxPlayersAssumption DEF IInv, TypeOK, Data
<1>2. data'.map = data.map /\ FruitsOwed' = FruitsOwed
  <2>1. CASE BeginTick
    <3>1. data'.map = data.map /\ data'.fruitsEaten = 0
      BY <1>t, <2>1 DEF BeginTick, Data
    <3> QED BY <2>1, <3>1 DEF BeginTick, FruitsOwed
  <2>2. ASSUME NEW p \in PlayerIds, Turn(p)
        PROVE  data'.map = data.map /\ FruitsOwed' = FruitsOwed
    <3>1. data' = data \/ data' = SeenAlive(data)
      BY <2>2 DEF FailToSpawn, Rest
    <3>2. data'.map = data.map /\ data'.fruitsEaten = data.fruitsEaten
      BY <1>t, <3>1 DEF SeenAlive, Data
    <3>3. stage = "players" /\ stage' = "players"
      BY <2>2, TurnIsOne
    <3> QED BY <3>2, <3>3 DEF FruitsOwed
  <2>3. CASE ReleasePlayers
    BY <2>3 DEF ReleasePlayers, FruitsOwed
  <2>4. CASE EndSweep
    <3>1. stage = "sweep" /\ stage' = "fruits" /\ data' = data /\ index' = index /\ index = 0
      BY <2>4 DEF EndSweep, FruitsAreKept
    <3>2. FruitsOwed = data.fruitsEaten /\ FruitsOwed' = data.fruitsEaten - 0
      BY <3>1 DEF FruitsOwed
    <3> QED BY <1>t, <3>1, <3>2
  <2>5. CASE EndTick
    <3>1. stage = "fruits" /\ stage' \in {"idle", "ended"} /\ data' = data /\ index = data.fruitsEaten
      BY <2>5 DEF EndTick
    <3>2. FruitsOwed = data.fruitsEaten - data.fruitsEaten /\ FruitsOwed' = 0
      BY <3>1 DEF FruitsOwed
    <3> QED BY <1>t, <3>1, <3>2
  <2>6. CASE Interrupt
    BY <2>6 DEF Interrupt, FruitsOwed
  <2>7. ASSUME NEW p \in PlayerIds, ClientStep(p)
        PROVE  data'.map = data.map /\ FruitsOwed' = FruitsOwed
    BY <2>7 DEF ClientStep, FruitsOwed
  <2>8. CASE UNCHANGED vars
    BY <2>8 DEF vars, FruitsOwed
  <2> QED
    BY <2>1, <2>2, <2>3, <2>4, <2>5, <2>6, <2>7, <2>8 DEF Next, ServerStep, Terminated
<1>3. TilesOfType("fruit")' = TilesOfType("fruit") /\ TilesOfType("dead")' = TilesOfType("dead")
  BY <1>2 DEF TilesOfType
<1> QED
  BY <1>1, <1>2, <1>3 DEF Game!gameVars, Bodies, OwedSnakes, FruitsOwed, Owed

LEMMA TurnPlays ==
  ASSUME Roomy, IInv, Snakes, NobodyEatsAtItsTail, IInv', Snakes', NEW p \in PlayerIds, Turn(p),
         ~FailToSpawn(p), ~Rest(p)
  PROVE  Game!Next
<1>0. p \in Game!PlayerIds
  BY SameField
<1>1. CASE Spawn(p)
  BY <1>0, <1>1, SpawnPlays DEF Game!Next
<1>2. CASE RemoveDisconnected(p) \/ Crash(p)
  BY <1>0, <1>2, DeathPlays DEF Game!Next
<1>3. CASE Eat(p)
  BY <1>0, <1>3, EatPlays DEF Game!Next
<1>4. CASE Crawl(p)
  <2>1. CASE \A q \in PlayerIds \ {p} : ~IsTileOf(data.map, q, NextHead(p))
    BY <1>0, <1>4, <2>1, CrawlPlays DEF Game!Next
  <2>2. ASSUME NEW q \in PlayerIds \ {p}, IsTileOf(data.map, q, NextHead(p))
        PROVE  Game!Next
    <3>1. Game!TakeTail(p, q)
      BY <1>4, <2>2, TailIsTaken
    <3>2. q \in Game!PlayerIds
      BY SameField
    <3> QED BY <1>0, <3>1, <3>2 DEF Game!Next
  <2> QED BY <2>1, <2>2
<1> QED BY <1>1, <1>2, <1>3, <1>4 DEF Turn

LEMMA GameStep ==
  Roomy /\ IInv /\ Snakes /\ NobodyEatsAtItsTail /\ FruitsAreKept /\ [Next]_vars /\ IInv' /\ Snakes'
    => [Game!Next]_Game!gameVars
<1> SUFFICES ASSUME Roomy, IInv, Snakes, NobodyEatsAtItsTail, FruitsAreKept, [Next]_vars, IInv', Snakes'
             PROVE  Game!Next \/ UNCHANGED Game!gameVars
  OBVIOUS
<1>1. CASE \E p \in PlayerIds : Turn(p) /\ ~FailToSpawn(p) /\ ~Rest(p)
  BY <1>1, TurnPlays
<1>2. CASE \A p \in PlayerIds : Turn(p) => FailToSpawn(p) \/ Rest(p)
  <2>1. Quiet
    <3>1. ASSUME NEW p \in PlayerIds, FailToSpawn(p) \/ Rest(p) PROVE Quiet
      BY <3>1, RestIsQuiet
    <3> QED BY <1>2, <3>1, StepsAreQuiet
  <2>2. CASE SweepTile
    BY <2>1, <2>2, SweepPlays DEF Game!Next
  <2>3. CASE SpawnFruit
    BY <2>1, <2>3, FruitPlays DEF Game!Next
  <2> QED BY <1>2, <2>1, <2>2, <2>3, RestIsUnseen
<1> QED BY <1>1, <1>2

LEMMA GameInit == Init => Game!Init
<1> SUFFICES ASSUME Init PROVE Game!Init
  OBVIOUS
<1>1. \A p \in PlayerIds : ~HasSnake(p)
  BY DEF Init, PlayerManagerInit, HasSnake, HasStatus
<1>2. data.map = MapFromTemplate(Walls) /\ stage = "idle"
  BY DEF Init
<1>3. \A c \in Coordinates : data.map[c].type \in {"wall", "empty"}
  BY <1>2 DEF MapFromTemplate
<1>4. Bodies = [p \in Game!PlayerIds |-> <<>>]
  BY <1>1, NoSnakeNoBody, SameField DEF Bodies
<1>5. OwedSnakes = {} /\ FruitsOwed = 0
  BY <1>1, <1>2 DEF OwedSnakes, Owed, FruitsOwed
<1>6. TilesOfType("fruit") = {} /\ TilesOfType("dead") = {}
  BY <1>3 DEF TilesOfType
<1> QED BY <1>4, <1>5, <1>6 DEF Game!Init, Bodies, OwedSnakes, FruitsOwed, Owed

LEMMA FruitsStayKept == Spec => []FruitsAreKept
<1>1. IInv /\ FruitsAreKept /\ [Next]_vars => FruitsAreKept'
  BY FruitsStep
<1> QED BY FruitsInit, <1>1, InvariantHolds, PTL DEF Spec

\* The server plays SnakeGame: read off the orders and the cached tails, every
\* step of a tick, interleaved with the clients' operations, is one move of
\* the game or none at all, as long as nobody eats the fruit on a tile that its
\* own cached tail still names (server.c:89-111, 137-205).
THEOREM TickPlaysTheGame == Roomy => (Spec /\ []NobodyEatsAtItsTail => ImplementsGame)
<1> SUFFICES ASSUME Roomy PROVE Spec /\ []NobodyEatsAtItsTail => ImplementsGame
  OBVIOUS
<1>1. /\ IInv /\ Snakes /\ NobodyEatsAtItsTail /\ FruitsAreKept /\ [Next]_vars /\ IInv' /\ Snakes'
           => [Game!Next]_Game!gameVars
  BY GameStep
<1> QED
  BY GameInit, <1>1, InvariantHolds, SnakesAreThere, FruitsStayKept, PTL
     DEF Spec, ImplementsGame, Game!Spec

\* Of two players neither can be left on such a tile, so that their game
\* follows the rules whatever they do.
THEOREM PairsPlayTheGame == Roomy /\ MaxPlayers <= 2 => (Spec => ImplementsGame)
<1> SUFFICES ASSUME Roomy, MaxPlayers <= 2 PROVE Spec => ImplementsGame
  OBVIOUS
<1> QED BY PairsStayWhole, WholeSnakesDoNotEatThere, TickPlaysTheGame, PTL
=============================================================================
