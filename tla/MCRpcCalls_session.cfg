CONSTANTS
    q1 = q1
    q2 = q2
    q3 = q3
    Questions = {q1, q2, q3}
    ImportedCap = ImportedCap
    BootstrapCap = BootstrapCap
    None = None
    Cancellable = {q1}
    LatePipelining = TRUE
    HasBootstrap = TRUE
    Oversize = {q1}
    Faults = {"close", "abort", "disconnect"}
SPECIFICATION FairSpec
INVARIANTS
    IInv
    NoCallLost
    AnswersAreOwned
    OutcomeReachesWaiters
PROPERTIES
    EveryCallSettles
    ContractSpec
CHECK_DEADLOCK FALSE
