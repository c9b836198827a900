SPECIFICATION Spec
CONSTANTS
    None = None
    r1 = r1  r2 = r2  r3 = r3
    DemoUser = "admin"
    Runs <- TwoRuns
    Routes = {"run", "resume"}
    Users = {"alice"}
    Texts <- GeneralText
    RevisionLimit = 2
    RecursionLimit = 7
    MaxEdits = 0
    MaxOverlap = 1
    EditCounts = {}
    EditCritiques = {}
SYMMETRY RunSymmetry
INVARIANTS
    StubsShipOnlyAfterAllAttempts
CHECK_DEADLOCK FALSE
