---------------------------- MODULE MCPlayerSlots ----------------------------
EXTENDS PlayerSlots, TLC

CONSTANTS c1, c2, c3

ThreeClients == {c1, c2, c3}

\* The clients are interchangeable: no property below tells them apart.
ClientSymmetry == Permutations(ThreeClients)
=============================================================================
