SPECIFICATION MemoryFairSpec
CONSTANTS
    None = None
    r1 = r1  r2 = r2
    Requests <- TwoRequests
    Users = {"admin", "alice", "bob"}
    DemoUser = "admin"
    Threads = {"t1", "t2"}
    Limit = 1
INVARIANTS
    MemoryTypeOK
    AdmittedIsBacked
    SearchStaysInside
    KeptMemoriesAreFound
PROPERTIES
    ImplementsThreadAccess
    EveryRequestCloses
