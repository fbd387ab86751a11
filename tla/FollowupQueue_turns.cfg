CONSTANTS
    m1 = m1
    m2 = m2
    m3 = m3
    m4 = m4
    q1 = q1
    q2 = q2
    Messages = {m1, m2, m3, m4}
    Queues = {q1, q2}
    Modes = {"collect", "followup"}
    DropPolicies = {"summarize", "new"}
    Cap = 2
    RouteOf <- MCRouteOf
    SenderOf <- MCSenderOf
    Redelivered = {m2}
    MaxClears = 1
    MaxFailures = 1

SPECIFICATION MCSpec

INVARIANTS TypeOK NothingLost AtMostOneCompletedTurn NoOvertaking NothingStranded
PROPERTIES ClearedStaysCleared QueuedMessagesAreTaken
CHECK_DEADLOCK FALSE
