------------------------ MODULE ServerTickRefinement ------------------------
(***************************************************************************)
(* ServerTick implements the two abstract specifications: the status of a  *)
(* slot follows PlayerLifecycle, and the snakes on the map, read off the   *)
(* tiles' orders and the cached tails, play SnakeGame.                     *)
(***************************************************************************)
EXTENDS ServerTick, FiniteSets

Lifecycle == INSTANCE PlayerLifecycle WITH
  status <- [p \in PlayerIds |-> players[p].status],
  locked <- stage = "players",
  due    <- IF stage = "players" THEN {p \in PlayerIds : index <= p} ELSE {},
  over   <- stage = "ended"

\* The tiles of p from head to tail: orders are consecutive (SnakesAreTrails).
BodyOf(p) ==
  LET own   == IF HasSnake(p) THEN TilesOf(data.map, p) ELSE {}
      first == data.map[data.head[p]].order
  IN  [i \in 1 .. Cardinality(own) |->
         CHOOSE c \in own : data.map[c].order = first + 1 - i]

TilesOfType(type) == {c \in Coordinates : data.map[c].type = type}

Game == INSTANCE SnakeGame WITH
  body    <- [p \in PlayerIds |-> BodyOf(p)],
  owed    <- {p \in PlayerIds : HasSnake(p) /\ ~IsTileOf(data.map, p, data.tail[p])},
  fruits  <- TilesOfType("fruit"),
  eaten   <- CASE stage \in {"players", "sweep"} -> data.fruitsEaten
               [] stage = "fruits" -> data.fruitsEaten - index
               [] OTHER -> 0,
  remains <- TilesOfType("dead")

\* Every change of a slot's status is one that the lifecycle allows, and is
\* made by the side that may make it: the tick in the slot's turn, a client
\* while the slots are not locked.
ImplementsLifecycle == Lifecycle!Spec

\* Every step of the server moves the snakes by the rules of the game: orders
\* and caches never make a snake grow, shrink, split or jump.
ImplementsGame == Game!Spec
=============================================================================
