CONSTANTS
    q1 = q1
    q2 = q2
    q3 = q3
    Questions = {q1, q2, q3}
    ImportedCap = ImportedCap
    BootstrapCap = BootstrapCap
    None = None
    Streams = {q3}
    Exporters = {q1, q2}
    Cancellable = {q1}
    Faults = {"close", "fail", "abort"}
SPECIFICATION FairSpec
INVARIANTS
    BatchInv
    SessionsIsolated
PROPERTIES
    EveryCallSettles
    ContractSpec
CHECK_DEADLOCK FALSE
