CONSTANTS
  Segment <- MCSegment
  Path <- MCPath
  Inputs <- MCImportsOnly
SPECIFICATION Spec
INVARIANT MatrixEnforced
CHECK_DEADLOCK FALSE
