SPECIFICATION Spec
CONSTANTS
    h1 = h1
    h2 = h2
    h3 = h3
    p1 = p1
    s1 = s1
    door = door
    heat = heat
    k1 = k1
    k2 = k2
    None = None
    Households = {h1, h2, h3}
    Routed = {h1, h3}
    Published = {h3}
    LockedOut = {h3}
    Classes = {door}
    Contents = {k1, k2}
    Rules <- MCRules1
    Seed = k1
    Long = {k2}
    MaxDrafts = 2
    Proposals = {p1}
    Proposers = {h1}
    Sessions = {s1}
    MaxTroubles = 1
    MaxInputs = 1
INVARIANTS EnforcedIsActive
PROPERTIES ActivatedAsReviewed PublicationEnds
CHECK_DEADLOCK FALSE
