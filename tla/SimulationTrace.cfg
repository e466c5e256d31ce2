SPECIFICATION Spec
CHECK_DEADLOCK FALSE
CONSTANTS
    acc = acc
    strk = strk
    a = a
    None = None
    Account = acc
    Strk = strk
    Contracts <- MCContracts
    Shows <- MCShows
    Shapes <- MCShapes
    MaxCalls = 4
    MaxEvents = 1
INVARIANTS TreeOK FailureExplained CallsShown DebuggerWalksCalls
