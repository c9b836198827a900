SPECIFICATION FairSpec
CONSTANTS
    None = None
    r1 = r1  r2 = r2
    Requests <- TwoRequests
    PoolSize = 2
INVARIANTS
    TypeOK
    RowsTellTheOutcome
    ConnectionsComeBack
PROPERTIES
    ImplementsAuditTrail
    EveryRequestCloses
    ContainersAreRemoved
CHECK_DEADLOCK FALSE
