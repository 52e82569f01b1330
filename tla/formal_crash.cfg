CONSTANTS
    Worker = {w1, w2}
    NoWorker = none
    Reader = {r1}
    FieldCount = 2
    Chunks = 1
    Kinds <- FormalKinds
    StartReady = TRUE
    MaxRequests = 4
    MaxFaults = 1
    MaxReads = 1
SPECIFICATION ReadingSpec
SYMMETRY Workers
INVARIANTS
    OneOperation
    DeletionLeavesNothing
    IndexedHasVectors
    HiddenStaysHidden
    EvidenceWasVisible
    ValuesWereConfirmed
CHECK_DEADLOCK FALSE
