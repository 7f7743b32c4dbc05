CONSTANTS
  Segment <- MCSegment
  Path <- MCPath
  Inputs <- MCInputs
SPECIFICATION Spec
INVARIANTS CleanMeansIsolated CleanMeansLayered OneVerdictPerImport MatrixHeld InnerStaysInner LeavesOutExactly DirectoriesReadAlike
CHECK_DEADLOCK FALSE
