CONSTANTS
    main = main
    probe = probe
    e1 = e1
    e2 = e2
    e3 = e3
    w1 = w1
    Lanes = {main, probe}
    ProbeLanes = {probe}
    Entries = {e1, e2}
    Waiters = {w1}
    Priorities = {0}
    Limits = {0, 2}
    MaxGeneration = 1
SYMMETRY MCSymmetry
SPECIFICATION Spec
INVARIANTS TypeOK SlotsOwned NothingLost NoForgottenWaiter

CHECK_DEADLOCK FALSE
