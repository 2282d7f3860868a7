SPECIFICATION FairSpec
CONSTANTS
  N = 5
  NChunks = 3
  Workers = 2
  Threads = 3
  Blocks <- AllBlocks
  BreakSets <- AllBreaks
  InnerSets <- AllInner
  RaiseSets <- AllRaises
  Faults <- AllFaults
INVARIANTS
  StopsAtFirstBreak
  KeepsTarget
  InPlaceMissesNothing
  SkipsOnlyBeyondBreak
  NoWriterAfterEnd
PROPERTY
  Terminates
