SPECIFICATION Spec
CONSTANTS
  N <- MCN
  Keys <- MCKeys
  Bodies <- MCBodies
INVARIANT SameAsTheLoop
INVARIANT RaisesNothingNew
PROPERTY OwnElementsOnly
