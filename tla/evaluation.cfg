SPECIFICATION Spec
CONSTANTS
    p1 = p1
    p2 = p2
    d1 = d1
    d2 = d2
    SeedProject = {p1, p2}
    SeedDoc = {d1, d2}
    Home <- OneEach
    Preparer = {a, b}
    Operator = Operator
    None = None
    Plan <- BothRoutes
    Cap = 17
    MaxFaults = 2
SYMMETRY Preparers
INVARIANTS
    TypeOK
    CaptureIsFresh
    ReportIsTrue
    BudgetCoversPlan
    SchemaOutlivesApi
    VerifiedMeansGone
PROPERTIES
    ResidueIsReported
    OwnSchemaOnly
CHECK_DEADLOCK FALSE
