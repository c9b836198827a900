SPECIFICATION FairSpec
CONSTANTS
    None = None
    r1 = r1  r2 = r2
    Requests <- TwoRequests
    Threads = {"t1"}
    RESEARCH_RECURSION_LIMIT = 4
    MaxVersion = 1
    MaxStarts = 2
INVARIANTS
    TypeOK
    AnsweredRunsAreDurable
    OneToolList
    TranscriptsCanGoOn
PROPERTIES
    EveryRequestEnds
CHECK_DEADLOCK FALSE
