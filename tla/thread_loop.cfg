SPECIFICATION FairSpec
CONSTANTS
  N = 5
  NChunks = 3
  Workers = 1
  PoolSize = 2
  Blocks <- LoopBlocks
  RaiseSets <- FirstRaises
  Keys <- AllKeys
  KeyMaps <- AllKeyMaps
  Faults = {"no_thread"}
PROPERTIES
  ImplementsLoop
  Terminates
