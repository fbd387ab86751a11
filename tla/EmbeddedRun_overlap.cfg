CONSTANTS
    main = main
    s1 = s1
    s2 = s2
    r1 = r1
    r2 = r2
    r3 = r3
    w1 = w1
    Runs = {r1, r2}
    SessionOf <- MCOneSession
    LaneOf <- MCLaneOf
    PriorityOf <- MCPriorityOf
    TimedRuns = {r1}
    Sessions = {s1}
    GlobalLanes = {main}
    RecoverableSessions = {}
    Limits = {2}
    Restarts = {}
    MaxGeneration = 0
SPECIFICATION Spec
INVARIANT OneRunPerSession
CHECK_DEADLOCK FALSE
