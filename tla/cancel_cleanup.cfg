CONSTANTS
    w1 = w1
    w2 = w2
    Worker = {w1, w2}
    NoWorker = none
    FieldCount = 2
    Chunks = 1
    Kinds <- FormalKinds
    StartReady = TRUE
    MaxRequests = 4
    MaxFaults = 0
SPECIFICATION Spec
SYMMETRY Workers
INVARIANTS
    FinalChunksExist
CHECK_DEADLOCK FALSE
