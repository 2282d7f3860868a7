SPECIFICATION Spec
CONSTANTS
  N = 5
  NChunks = 3
  Workers = 2
  PoolSize = 3
  Blocks <- AllBlocks
  RaiseSets <- AllRaises
  Keys <- AllKeys
  KeyMaps <- AllKeyMaps
  Faults <- AllFaults
INVARIANTS
  TypeOK
  ReturnsWholeLoop
  NoneTwice
  NoneMissing
  CommitsInOrder
  CommitsAfterJoin
  NoWriterAfterEnd
  RaisesLowestError
  AbandonedLeavesPrefix
  CollectsEveryError
