------------------------------- MODULE MCWire -------------------------------
(***************************************************************************)
(* One message of every form.  The numbers need two of their digits; a map *)
(* of one row and two columns tells the dimensions apart.                  *)
(***************************************************************************)
EXTENDS Wire

Tile == [order |-> 25, type |-> 1, player |-> 15]
WideMap == [c \in {0} \X {0, 1} |-> IF c[2] = 0 THEN Tile ELSE [Tile EXCEPT !.type = 3]]

EveryForm ==
  { [type |-> "magicBytes", bytes |-> <<4, 3, 1, 2>>],
    [type |-> "connected"],
    [type |-> "map", width |-> 2, height |-> 1, map |-> WideMap],
    [type |-> "tileChange", row |-> 16, column |-> 1, tile |-> Tile],
    [type |-> "playerState", status |-> 2, direction |-> 3],
    [type |-> "direction", direction |-> 3] }

SomeGarbage == {0, 12}
=============================================================================
