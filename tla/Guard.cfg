SPECIFICATION GuardSpec
CONSTANTS
  Projects <- MCProjects
  Segment <- MCSegment
  Budget <- MCBudget
  CountErrorBranches = FALSE
  FailureCalls = {"panic", "os.Exit", "log.Fatal"}
  DeniedCalls = {"time.Now", "log.Fatal"}
  AllowedCalls = {"time.Now"}
  StartSymbols = {"db.Begin"}
  AllowedLayers <- MCAllowedLayers
  TxTypes = {"sql.Tx", "sql.Conn"}
INVARIANTS LoadSound HolesAreNeverSilent LayerReadingsAgree MeasureExact DiscountsOnlyErrorFlow SignaturesExact
PROPERTIES FunctionsJudged GuardEnds
CHECK_DEADLOCK FALSE
