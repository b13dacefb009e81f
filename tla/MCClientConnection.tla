------------------------- MODULE MCClientConnection -------------------------
EXTENDS ClientConnection

\* Two operations that the status may refuse.  A player leaves a pause like a
\* death, by a message; PlayerSlots has all the operations.
TwoKeys == [type : {"pause", "respawn"}]
=============================================================================
