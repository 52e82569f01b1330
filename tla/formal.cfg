CONSTANTS
    w1 = w1
    w2 = w2
    Worker = {w1, w2}
    NoWorker = none
    FieldCount = 2
    Chunks = 1
    Kinds <- FormalKinds
    StartReady = TRUE
    MaxRequests = 4
    MaxFaults = 0
SPECIFICATION FairSpec
INVARIANTS
    ConfirmedAsSigned
PROPERTIES
    CommitsOnSeenRevision
    RefusalHasOwner
    OperationsResolve
    ImplementsFormalArchive
CHECK_DEADLOCK FALSE
