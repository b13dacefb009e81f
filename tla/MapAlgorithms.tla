---------------------------- MODULE MapAlgorithms ----------------------------
(***************************************************************************)
(* The searches of libsnake/map/map.c as the code computes them, by        *)
(* recursion and by successive comparison, against what SnakeMap says that *)
(* they return.  MCServerWall compares them on every map the server comes  *)
(* to.                                                                     *)
(***************************************************************************)
EXTENDS SnakeMap, Sequences

-----------------------------------------------------------------------------
\* Mutant of the next: does not look to the left.
RECURSIVE FloodRightwards(_, _, _)
FloodRightwards(m, p, c) ==
  IF ~IsTileOf(m, p, c)
  THEN m
  ELSE LET m0 == [m EXCEPT ![c].type = "dead"]
           m1 == FloodRightwards(m0, p, MoveInDirection(c, "up"))
           m2 == FloodRightwards(m1, p, MoveInDirection(c, "down"))
       IN  FloodRightwards(m2, p, MoveInDirection(c, "right"))

\* map_mark_player_as_dead: up, down, left and right of the marked tile, each
\* on the map that the calls before it have left.
RECURSIVE Flood(_, _, _)
Flood(m, p, c) ==
  IF ~IsTileOf(m, p, c)
  THEN m
  ELSE LET m0 == [m EXCEPT ![c].type = "dead"]
           m1 == Flood(m0, p, MoveInDirection(c, "up"))
           m2 == Flood(m1, p, MoveInDirection(c, "down"))
           m3 == Flood(m2, p, MoveInDirection(c, "left"))
       IN  Flood(m3, p, MoveInDirection(c, "right"))

\* What a search returns when it finds nothing.
NotFound == <<>>

\* map_find_player_neighbor_with_lowest_order: one comparison per direction,
\* best is the candidate so far.
RECURSIVE LowestFrom(_, _, _, _, _)
LowestFrom(m, p, c, i, best) ==
  IF i > Len(Compass) THEN best
  ELSE LET n      == MoveInDirection(c, Compass[i])
           better == /\ IsTileOf(m, p, n)
                     /\ best = NotFound \/ m[best].order > m[n].order
       IN  LowestFrom(m, p, c, i + 1, IF better THEN n ELSE best)

\* map_find_empty_neighbor: the first direction that will do.
RECURSIVE FirstEmptyFrom(_, _, _)
FirstEmptyFrom(m, c, i) ==
  IF i > Len(Compass) THEN NotFound
  ELSE IF IsTileEmpty(m, MoveInDirection(c, Compass[i])) THEN Compass[i]
  ELSE FirstEmptyFrom(m, c, i + 1)

\* map_find_random_matching_predicate_search: the possible pairs of the tile it
\* finds and of what is marked visited.  The random swaps can put the four
\* directions into any order; one to a visited tile makes no difference
\* wherever it comes.
RECURSIVE Search(_, _, _), TryDirections(_, _, _)
Search(matching, c, visited) ==
  IF c \in matching THEN {<<c, visited>>}
                    ELSE TryDirections(matching, c, visited \cup {c})

TryDirections(matching, c, visited) ==
  LET open == Neighbors(c) \ visited
  IN  IF open = {} THEN {<<NotFound, visited>>}
      ELSE UNION {IF r[1] # NotFound THEN {r} ELSE TryDirections(matching, c, r[2]) :
                    r \in UNION {Search(matching, n, visited) : n \in open}}

\* map_find_random_matching_predicate, which starts at a random tile.
RandomMatches(matching) == {r[1] : r \in UNION {Search(matching, c, {}) : c \in Coordinates}}

-----------------------------------------------------------------------------
\* The flood marks the tiles connected to the start, all of them and no other,
\* also where it wraps around the field or comes back to itself.
FloodAgrees(m) ==
  \A p \in PlayerIds, c \in Coordinates : Flood(m, p, c) = MarkPlayerAsDead(m, p, c)

\* The random search may find any tile that matches, and fails only when none
\* does.
RandomSearchAgrees ==
  \A matching \in SUBSET Coordinates :
    RandomMatches(matching) = IF matching = {} THEN {NotFound} ELSE matching

\* The neighbour searches return what SnakeMap's definitions choose, with the
\* first of equal orders winning.
NeighborsAgree(m) ==
  \A c \in Coordinates :
    /\ \A p \in PlayerIds :
         LowestFrom(m, p, c, 1, NotFound) =
           IF HasPlayerNeighbor(m, p, c) THEN PlayerNeighborWithLowestOrder(m, p, c)
                                         ELSE NotFound
    /\ FirstEmptyFrom(m, c, 1) =
         IF HasEmptyNeighbor(m, c) THEN EmptyNeighborDirection(m, c) ELSE NotFound
=============================================================================
