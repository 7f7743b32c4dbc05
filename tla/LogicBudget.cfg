SPECIFICATION GuardSpec
CONSTANTS
  Projects <- MCBudgetProjects
  Segment <- MCSegment
  Budget <- MCBudget
  CountErrorBranches = FALSE
  FailureCalls = {"panic", "os.Exit", "log.Fatal"}
  DeniedCalls = {"time.Now", "log.Fatal"}
  AllowedCalls = {"time.Now"}
  StartSymbols = {"db.Begin"}
  AllowedLayers <- MCAllowedLayers
  TxTypes = {"sql.Tx", "sql.Conn"}
INVARIANTS OverBudgetFlagged
CHECK_DEADLOCK FALSE
