SPECIFICATION FairSpec
CONSTANTS
    None = None
    r1 = r1  r2 = r2  r3 = r3
    DemoUser = "admin"
    Runs <- TwoRuns
    Routes = {"run", "smoke", "analyze", "fork", "resume"}
    Users = {"admin"}
    Texts <- OneTextPerRoute
    RevisionLimit = 2
    RecursionLimit = 7
    MaxEdits = 0
    MaxOverlap = 1
    EditCounts = {}
    EditCritiques = {}
INVARIANTS
    TypeOK
    WorkersUseThisTurnsData
    FinishedTurnsAreAnswered
    AttemptsAreLogged
    DraftsWithinLimit
    AnalysesKeepTheirTicker
PROPERTIES
    EveryRunStops
CHECK_DEADLOCK FALSE
