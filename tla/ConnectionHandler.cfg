SPECIFICATION FairSpec
CONSTANTS
  MaxPeers = 2
  InitialCapacity = 1
INVARIANTS MemoryOutlivesThreads NobodyPlaysForAnother
PROPERTIES EveryoneIsHeard ServerEnds
CHECK_DEADLOCK FALSE
