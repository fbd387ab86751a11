CONSTANTS
    m1 = m1
    m2 = m2
    startup = startup
    drain = drain
    reconnect = reconnect
    Messages = {m1}
    BestEffort = {m1}
    Required = {}
    StartupJobs = {}
    PeriodicJobs = {drain}
    Selects <- MCSelects
    Payloads = 2
    MAX_RETRIES = 2
    Reconciles = TRUE
    AmbiguousErrors = FALSE
    MaxFaults = 0
    MaxCrashes = 0
SPECIFICATION Spec
INVARIANT PartialFailureNotAcked
CHECK_DEADLOCK FALSE
