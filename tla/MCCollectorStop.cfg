SPECIFICATION Spec
CONSTANTS
    t1 = t1
    t2 = t2
    t3 = t3
    a1 = a1
    a2 = a2
    Txns = {t1, t2, t3}
    Rows = {a1, a2}
    Refs <- MCRefs
    Unstorable = {}
    BatchSize = 2
    Callbacks = FALSE
    Loop = Loop
INVARIANT FinalFlushLeavesNothing
