CONSTANTS
    main = main
    s1 = s1
    s2 = s2
    r1 = r1
    r2 = r2
    r3 = r3
    w1 = w1
    Runs = {r1, r2, r3}
    SessionOf <- MCOneSession
    LaneOf <- MCLaneOf
    PriorityOf <- MCPriorityOf
    TimedRuns = {r1}
    Sessions = {s1}
    GlobalLanes = {main}
    RecoverableSessions = {s1}
    Limits = {3}
    Restarts = {}
    MaxGeneration = 1
SYMMETRY MCUntimedSymmetry
SPECIFICATION Spec
INVARIANT TypeOK
PROPERTY ImplementsSessionTurns
CHECK_DEADLOCK FALSE
