SPECIFICATION FairSpec
CONSTANTS
    e1 = e1  e2 = e2  e3 = e3  lamp = lamp
    Envelopes = {e1, e2, e3}
    Targets = {lamp}
    ActionOf <- MCActionOf
    HashOf <- MCHashOf
    TargetOf <- MCTargetOf
    From <- MCFrom
    Until <- MCUntil
    Bounded = {e1, e2}
    Due <- MCDue
    DedupWindow = 2
    MaxTime = 4
    MaxSkew = 1
    MaxCrash = 2
INVARIANTS EndingIsOwed
PROPERTIES ClockIsNoEscape EveryCallEnds ImplementsBoundedOnce
CHECK_DEADLOCK FALSE
