SPECIFICATION MCSpec
CONSTANTS
    a1 = a1
    b1 = b1
    cheap = cheap
    green = green
    s1 = s1
    w1 = w1
    m1 = m1
    warm = warm
    cool = cool
    None = None
    Principals = {a1, b1}
    Children = {b1}
    MaxKeys = 3
    Objectives = {cheap, green}
    Settings = {s1}
    Signals = {w1}
    Members = {m1}
    Candidates = {warm, cool}
    MaxCalls = 3
    MaxCases = 1
    MaxProposals = 3
    MaxCrashes = 1
INVARIANTS KeyOnce NothingStaleKept ChainIsEvidence
PROPERTIES ExtractionEnds
CHECK_DEADLOCK FALSE
