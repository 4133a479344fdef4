CONSTANTS
    c1 = c1
    app = app
    email = email
    k1 = k1
    People = {c1}
    Links = {app, email}
    Cases = {k1}
    ContactOf <- MCContactOf
    Kind <- MCKind
    Answers = {"genuine"}
    MaxTime = 3
    Ttl <- MCTtl
    InviteTtl <- MCInviteTtl
    ApprovalTtl = 1
    CourierTtl = 1
    Backoff = 1
    MaxAttempts = 2
    Caps <- MCCaps
    MaxCrashes = 1
SPECIFICATION Spec
INVARIANTS
    ReplyIsOutcome
    SendsCapped
PROPERTY
    Settles
CHECK_DEADLOCK FALSE
