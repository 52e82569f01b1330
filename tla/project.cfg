SPECIFICATION FairSpec
CONSTANTS
    Worker = {w1, w2, w3}
    Project = {p1}
    Name = {n1}
    File = {f1, f2, f3}
    Item = {i1}
    Match = {m1, m2}
    Session = {s1}
    None = None
    LargeFile = {f2}
    Limit = 2
    StartFiles = {f1}
    Kinds <- AllKinds
    MaxRequests = 3
    MaxFaults = 1
INVARIANTS
    TypeOK
    CapacityKept
    DeletionIsComplete
    OriginalsAccounted
    PageIsCurrent
    FulfilmentIsEarned
PROPERTIES
    AnsweredUnlessStuck
CHECK_DEADLOCK FALSE
