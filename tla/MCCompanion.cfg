SPECIFICATION Spec
CONSTANTS
    o1 = o1
    m1 = m1
    c1 = c1
    c2 = c2
    r1 = r1
    None = None
    Members = {o1, m1}
    Owner = o1
    Controls = {c1, c2}
    References = {r1}
    MaxKeys = 3
    MaxSessions = 3
    MaxCeremonies = 2
    MaxTokens = 4
    MaxInputs = 4
    MaxCrashes = 1
INVARIANTS OneWayBack EvictedByRecovery SnapshotIsCurrent
PROPERTIES DeliveryEnds
CHECK_DEADLOCK FALSE
