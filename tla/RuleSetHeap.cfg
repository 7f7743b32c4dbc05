SPECIFICATION Spec
CONSTANTS
    c1 = c1
    c2 = c2
    r1 = r1
    r2 = r2
    a = a
    b = b
    NilRule = NilRule
    Caller <- MCCaller
    Rule <- MCRule
    ID <- MCID
    RuleArgs <- MCRuleArgs
    IdArgs <- MCIdArgs
    Slack = 1
    MaxArrays = 5
    MaxMaps = 3
    MaxHandles = 3
SYMMETRY Symmetry
INVARIANTS NeverMutated
PROPERTIES NoWriteToShared ActsLikeValues
CHECK_DEADLOCK FALSE
