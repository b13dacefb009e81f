---------------------------- MODULE MCShmClient ----------------------------
EXTENDS ShmClient, TLC

CONSTANTS empty, taken

TwoContents == {empty, taken}
ContentSymmetry == Permutations(TwoContents)
=============================================================================
