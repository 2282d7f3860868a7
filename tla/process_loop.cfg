CONSTANTS
  N = 5
  NChunks = 3
  Callers = {a, b}
  Procs = 1
  Programs <- LoopPrograms
  Faults <- AllFaults
SPECIFICATION FairSpec
PROPERTIES
  ImplementsLoop
  EndsUnlessOrphaned
\* A block whose futures another block's recycle cancelled waits for ever.
CHECK_DEADLOCK FALSE
