SPECIFICATION Spec
CONSTANTS
  N <- MCN
  Keys <- MCKeys
  Bodies <- SharedRows
INVARIANT DuplicatesCaught
