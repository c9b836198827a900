SPECIFICATION MemorySpec
CONSTANTS
    None = None
    r1 = r1  r2 = r2
    Requests <- TwoRequests
    Users = {"admin", "alice", "bob"}
    DemoUser = "admin"
    Threads = {"t1"}
    Limit = 1
INVARIANTS
    SearchShowsOwnFacts
