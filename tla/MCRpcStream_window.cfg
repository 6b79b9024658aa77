CONSTANTS
    WindowSize = 4
    MaxQueueSize = 4
    Cancellable = TRUE
    PromiseTarget = TRUE
    MaxChunks = 6
    MaxReaders = 2
    Faults = {"refuse", "strand", "close", "disconnect"}
SPECIFICATION FairSpec
INVARIANTS
    StreamInv
PROPERTIES
    CreditsConserved
    ContractSpec
    IteratorSettles
CHECK_DEADLOCK FALSE
