SPECIFICATION MCSpec
CONSTANTS
    m1 = m1  m2 = m2  a1 = a1  a2 = a2  unlock = unlock  i1 = i1  i2 = i2
    Actions = {a1, a2, unlock}
    Members = {m1, m2}
    Roles = {"adult", "teen", "unknown"}
    Roaming = {m2}
    Proofs = {"passkey"}
    Ids = {i1, i2}
    Requester <- ByOne
    Cost <- TheCost
    Base <- TheBase
    Security = {unlock}
    Confirmed = {unlock}
    Bounded = {a1}
    Visitor = {unlock}
    Factors = {"asleep", "stale", "bounds"}
    CriticalFactors = {}
    Facts <- TheFacts
    MaxPolicy = 2
    Rule <- TheRule
    MaxPress = 2
    MaxTime = 1
    DayLength = 1
    Window = 1
SYMMETRY IdSymmetry
INVARIANTS OneLiveApproval GrantIsCovered DailyBudget
PROPERTIES ConsentIsFinal QuorumAtRedemption VisitorIsTheApprovedOne
CHECK_DEADLOCK FALSE
