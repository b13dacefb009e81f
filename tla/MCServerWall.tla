---------------------------- MODULE MCServerWall ----------------------------
(***************************************************************************)
(* A smaller field, on whose maps the searches of map.c are compared with  *)
(* what ServerTick takes them to find.                                     *)
(***************************************************************************)
EXTENDS ServerTickRefinement, MapAlgorithms

OneWall == {<<0, 0>>}

\* map_mark_player_as_dead marks all of a snake and nothing else, wherever it
\* has wound itself to and wraps around; the neighbour searches agree between
\* the tiles of snakes, fruits, walls and dead tiles; and the random search does
\* whatever its predicate: spawn_player gives up, and spawn_fruit drops a fruit,
\* only where there is no place for one.
AlgorithmsAgree ==
  FloodAgrees(data.map) /\ NeighborsAgree(data.map) /\ RandomSearchAgrees
=============================================================================
