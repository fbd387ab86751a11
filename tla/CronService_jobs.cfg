CONSTANTS
    daily = daily
    reminder = reminder
    Jobs = {daily, reminder}
    OneShots = {reminder}
    DeletedAfterRun = {}
    AgentTurns = {reminder}
    Unborn = {reminder}
    MaxConcurrentRuns = 1
    MaxMissedJobsPerRestart = 1
    SavesThatFail = {"tick", "start", "operator", "manual"}
    MaxUpdates = 2
    MaxManualRuns = 2
    MaxCrashes = 1
    MaxEvents = 2

SPECIFICATION MCFairSpec

INVARIANTS TypeOK NoOverlap MarkerHasOwner
PROPERTIES SlotRunsOnce SlotsAreNotSkipped DueJobsRun
CHECK_DEADLOCK FALSE
