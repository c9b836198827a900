SPECIFICATION Spec
CONSTANTS
    None = None
    r1 = r1  r2 = r2  r3 = r3
    DemoUser = "admin"
    Runs <- TwoRuns
    Routes = {"stream", "analyze", "fork", "resume"}
    Users = {"alice"}
    Texts <- GeneralText
    RevisionLimit = 1
    RecursionLimit = 5
    MaxEdits = 0
    MaxOverlap = 2
    EditCounts = {}
    EditCritiques = {}
SYMMETRY RunSymmetry
INVARIANTS
    RunsKeepTheirOwnTurn
CHECK_DEADLOCK FALSE
