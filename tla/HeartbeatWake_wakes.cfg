CONSTANTS
    t1 = t1
    t2 = t2
    Targets = {t1, t2}
    CoalesceDelays = {0, 1}
    DEFAULT_COALESCE = 1
    DEFAULT_RETRY = 2
    MaxRunners = 2
    MaxBatches = 3
SPECIFICATION FairSpec
INVARIANTS TypeOK NothingStranded NoWakeLost BatchesBounded RegistrationKept
PROPERTIES CooldownHeld WakesAreTaken
