CONSTANTS
    c1 = c1
    c2 = c2
    c3 = c3
    q1 = q1
    None = None
    Calls = {c1, c2, c3}
    Questions = {q1}
    Idiomatic = {c1, c2}
    Sync = {c1}
SPECIFICATION FairSpec
INVARIANTS
    ScratchInv
    OwnParams
    SafeHandlersAnswer
PROPERTY
    CallsAnswered
CHECK_DEADLOCK FALSE
