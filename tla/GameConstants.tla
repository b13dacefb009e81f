---------------------------- MODULE GameConstants ----------------------------
(***************************************************************************)
(* What every part of libsnake shares: the player slots (constants.h) and  *)
(* the directions (direction.c).                                           *)
(***************************************************************************)
EXTENDS Integers

CONSTANT MaxPlayers  \* MAX_PLAYERS of constants.h

ASSUME MaxPlayersAssumption == MaxPlayers \in Nat \ {0}

PlayerIds  == 0 .. MaxPlayers - 1
Directions == {"up", "left", "down", "right"}

DirectionOpposite(d) ==
  CASE d = "up"   -> "down"
    [] d = "left" -> "right"
    [] d = "down" -> "up"
    [] OTHER      -> "left"
=============================================================================
