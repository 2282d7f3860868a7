SPECIFICATION FairSpec
CONSTANTS
  N = 7
  Grain = 2
  Width = 3
  Blocks <- AllBlocks
  RaiseSets <- AllRaises
  Faults <- AllFaults
INVARIANTS
  ReadsAsTheLoop
  CountsOnce

  
