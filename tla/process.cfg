CONSTANTS
  N = 5
  NChunks = 3
  Callers = {a, b}
  Procs = 2
  Programs <- AllPrograms
  Faults <- AllFaults
SPECIFICATION Spec
INVARIANTS
  ReturnsWholeLoop
  ErrorLeavesPrefix
  KilledLeavesPrefix
  OneOpenPool
  LeavesNoDeadPool
PROPERTY NeverTakesShutPool
SYMMETRY Symmetry
\* A block whose futures another block's recycle cancelled waits for ever.
CHECK_DEADLOCK FALSE
