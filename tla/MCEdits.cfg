SPECIFICATION Spec
CONSTANTS
    None = None
    r1 = r1  r2 = r2  r3 = r3
    DemoUser = "admin"
    Runs <- TwoRuns
    Routes = {"ask", "resume"}
    Users = {"alice"}
    Texts <- GeneralText
    RevisionLimit = 1
    RecursionLimit = 5
    MaxEdits = 1
    MaxOverlap = 1
    EditCounts = {0}
    EditCritiques = {"PASS"}
SYMMETRY RunSymmetry
INVARIANTS
    OnlyToolLoopsRunOut
CHECK_DEADLOCK FALSE
