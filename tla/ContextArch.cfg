SPECIFICATION FairContextSpec
CONSTANTS
    a = a
    b = b
    c = c
    d = d
    Empty = Empty
    NoKey = NoKey
    Layer <- MCLayer
    Directions <- MCDirections
    Sources <- MCSources
    Policies <- MCPolicies
    Disturbed <- MCDisturbed
    Root = {"", "internal", "pkg"}
    NoRoot = ""
    DefaultRoot = "internal"
    MaxCopies = 4
    MaxWrites = 2
INVARIANTS ReportedCycleIsReal NilMeansAcyclic ValidateIsExact
PROPERTIES Terminates PolicyIsPrivate
CHECK_DEADLOCK FALSE
