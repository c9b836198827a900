SPECIFICATION FairSpec
CONSTANTS
    None = None
    c1 = c1  c2 = c2  c3 = c3
    Callers <- TwoCallers
    TOKEN_TTL_S = 3
    REFRESH_MARGIN_S = 2
    FetchDelay = 1
    CallDelay = 1
    MaxTime = 4
    MaxTokens = 4
    MaxRestarts = 2
INVARIANTS
    TypeOK
    TokensOutliveTheirCalls
    RetriesUseNewerTokens
    OneFetchAtATime
PROPERTIES
    ImplementsAuditTrail
    EveryLookupEnds
CHECK_DEADLOCK FALSE
