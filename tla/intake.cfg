CONSTANTS
    w1 = w1
    w2 = w2
    Worker = {w1, w2}
    NoWorker = none
    FieldCount = 2
    Chunks = 1
    Kinds <- IntakeKinds
    StartReady = FALSE
    MaxRequests = 7
    MaxFaults = 1
SPECIFICATION FairSpec
INVARIANTS
    TypeOK
    SeenIsCurrent
    DraftsHaveSnapshot
PROPERTIES
    AINeverOverwritesManual
    RequestsAreAnswered
CHECK_DEADLOCK FALSE
