CONSTANTS
    main = main
    s1 = s1
    s2 = s2
    r1 = r1
    r2 = r2
    r3 = r3
    w1 = w1
    Runs = {r1, r2}
    SessionOf <- MCOneSession
    LaneOf <- MCLaneOf
    PriorityOf <- MCPriorityOf
    TimedRuns = {r1, r2}
    Sessions = {s1}
    GlobalLanes = {main}
    RecoverableSessions = {}
    Limits = {}
    Restarts = {w1}
    MaxGeneration = 1
SPECIFICATION FairSpec
INVARIANT DrainedMeansQuiet
PROPERTY TurnsSettle
CHECK_DEADLOCK FALSE
