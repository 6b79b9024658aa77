CONSTANTS
    q1 = q1
    q2 = q2
    q3 = q3
    Questions = {q1, q2, q3}
    ImportedCap = ImportedCap
    BootstrapCap = BootstrapCap
    None = None
    Streams = {q3}
    Window = 1
    MaxChunks = 2
    Cancellable = {q1}
    Faults = {"close", "fail"}
SPECIFICATION FairSpec
INVARIANTS
    ResponseInv
    BurstGoesOut
PROPERTY
    EveryCallSettles
CHECK_DEADLOCK FALSE
