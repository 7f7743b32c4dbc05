CONSTANTS
  Segment <- MCSegment
  Module <- MCModule
  Inputs <- MCInputs
SPECIFICATION Spec
INVARIANTS SearchOwnsKeys PackagesAreLeaves GreenIsClean FilterReveals
CHECK_DEADLOCK FALSE
