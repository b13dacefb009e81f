\* One slot, two ticks of up to two changes.  Both sides may come to their end,
\* and the drawing thread may sleep through that of the client.
CONSTANTS
  MaxPlayers = 1
  MaxQueue = 2
  empty = empty
  taken = taken
  Contents <- TwoContents
  MaxChangelog = 2
  MaxTicks = 2
  Arrows = {"up", "down"}
SPECIFICATION Spec
INVARIANTS ContextOutlivesInput ScreenFollowsRoom
SYMMETRY ContentSymmetry
CHECK_DEADLOCK FALSE
