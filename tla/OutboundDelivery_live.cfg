CONSTANTS
    m1 = m1
    m2 = m2
    startup = startup
    drain = drain
    reconnect = reconnect
    Messages = {m1, m2}
    BestEffort = {m2}
    Required = {}
    StartupJobs = {}
    PeriodicJobs = {drain}
    Selects <- MCSelects
    Payloads = 1
    MAX_RETRIES = 1
    Reconciles = TRUE
    AmbiguousErrors = TRUE
    MaxFaults = 0
    MaxCrashes = 1
SPECIFICATION FairSpec
PROPERTY QueueDrains
CHECK_DEADLOCK FALSE
