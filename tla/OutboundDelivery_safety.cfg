CONSTANTS
    m1 = m1
    m2 = m2
    startup = startup
    drain = drain
    reconnect = reconnect
    Messages = {m1}
    BestEffort = {}
    Required = {m1}
    StartupJobs = {startup}
    PeriodicJobs = {drain, reconnect}
    Selects <- MCSelects
    Payloads = 2
    MAX_RETRIES = 2
    Reconciles = TRUE
    AmbiguousErrors = TRUE
    MaxFaults = 1
    MaxCrashes = 1
SPECIFICATION Spec
INVARIANTS TypeOK ExclusiveSend NoReplayOfLiveSend AckedMeansHandled BoundedDuplicates
CHECK_DEADLOCK FALSE
