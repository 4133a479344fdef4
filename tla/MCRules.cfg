CONSTANTS
    Candidates <- MCCandidates
    Parser <- parse
    FactsOf <- MCFactsOf
    Roles = {"owner", "adult", "caregiver", "teen", "unknown"}
    Voters = {"owner", "caregiver"}
    Claimed = {"teen"}
    MaxTime = 2
    MaxChecks = 2
SPECIFICATION PSpec
PROPERTIES PermitIsEarned BoundaryAgrees
CHECK_DEADLOCK FALSE
