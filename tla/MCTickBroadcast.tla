--------------------------- MODULE MCTickBroadcast ---------------------------
EXTENDS TickBroadcast

CONSTANTS t1, t2

TwoTiles == {t1, t2}
=============================================================================
