SPECIFICATION Spec
CONSTANTS
  MaxLines = 4
  MaxTurns = 1
INVARIANT CallsEndAsCalls
CHECK_DEADLOCK FALSE
