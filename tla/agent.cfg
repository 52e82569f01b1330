SPECIFICATION Spec
CONSTANTS
    Worker = {w1, w2}
    Project = {p1}
    Name = {n1}
    File = {f1}
    Item = {i1}
    Match = {m1}
    Session = {s1}
    User = {u1}
    Login = {l1}
    CallId = {c1, c2}
    MaxCalls = 2
    None = None
    LargeFile = {}
    Limit = 2
    StartFiles = {}
    Kinds <- ServiceKinds
    MaxRequests = 2
    MaxFaults = 1
SYMMETRY Symmetry
INVARIANTS
    TypeOK
    AnswersAreBacked
    HistoryIsConsistent
    AnswersStayVisible
    NothingOutlivesSession
PROPERTIES
    RevocationSticks
    ImplementsConversation
CHECK_DEADLOCK FALSE
