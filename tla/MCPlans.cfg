SPECIFICATION Spec
CONSTANTS
    w1 = w1
    Workers = {w1}
    Nobody = Nobody
    Horizon = 3
    Offers <- MCOffers
    MaxVersions = 3
    MaxEvents = 1
INVARIANTS
    BudgetKept
    ExplicitNeedsConsent
PROPERTIES
    OpenedOnCurrentFacts
    RefreshResolves
CHECK_DEADLOCK FALSE
