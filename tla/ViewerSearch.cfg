CONSTANTS
  Segment <- MCSegment
  Module <- MCModule
  Inputs <- MCInputs
SPECIFICATION Spec
CHECK_DEADLOCK FALSE
INVARIANT KeysAreServed
