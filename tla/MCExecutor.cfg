CONSTANTS
    a1 = a1  a2 = a2  t1 = t1
    Actions = {a1, a2}
    Targets = {t1}
    Workers = {w1, w2}
    Nobody = Nobody
    Rest = Rest
    Situations <- MCSituations
SPECIFICATION Spec
SYMMETRY AnyWorker
INVARIANTS BoundedUntilEnded OneEffect CompletedLeavesNothing
PROPERTIES StepsKeep
