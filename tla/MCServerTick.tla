---------------------------- MODULE MCServerTick ----------------------------
(***************************************************************************)
(* A small field for two players.                                          *)
(***************************************************************************)
EXTENDS ServerTickRefinement

\* The second column but for its first and last row: the first column is a
\* ring, where snakes that enter head for each other's tails, and the two tiles
\* that are left beside it are an alcove.
RingWalls == (1 .. Height - 2) \X {1}
=============================================================================
