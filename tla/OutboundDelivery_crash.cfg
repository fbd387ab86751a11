CONSTANTS
    m1 = m1
    m2 = m2
    startup = startup
    drain = drain
    reconnect = reconnect
    Messages = {m1}
    BestEffort = {}
    Required = {m1}
    StartupJobs = {startup}
    PeriodicJobs = {}
    Selects <- MCSelects
    Payloads = 1
    MAX_RETRIES = 2
    Reconciles = TRUE
    AmbiguousErrors = FALSE
    MaxFaults = 0
    MaxCrashes = 1
SPECIFICATION Spec
INVARIANT NoDuplicateAfterCrash
CHECK_DEADLOCK FALSE
