CONSTANTS
    main = main
    probe = probe
    e1 = e1
    e2 = e2
    e3 = e3
    w1 = w1
    Lanes = {main}
    ProbeLanes = {}
    Entries = {e1, e2, e3}
    Waiters = {}
    Priorities <- MCPriorities
    Limits = {0, 2}
    MaxGeneration = 1

SPECIFICATION MCFairSpec

INVARIANTS QueueOrdered WorkConserving
PROPERTIES StartsInOrder StartsWithinLimit AcceptedWorkSettles
CHECK_DEADLOCK FALSE
