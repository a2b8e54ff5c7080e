CONSTANTS
  N = 4
  MaxEdges = 6
SPECIFICATION Spec
CHECK_DEADLOCK FALSE
INVARIANT FindsCycles
PROPERTY Terminates
