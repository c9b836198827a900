SPECIFICATION Spec
CONSTANTS
    None = None
    Before = Before
    c1 = c1  c2 = c2  c3 = c3
    Calls <- ThreeCalls
    Paths <- SomePaths
    ROOT <- Root
    Links <- TwoLinks
    Directories <- SomeDirectories
    Present <- OldFiles
SYMMETRY CallSymmetry
INVARIANTS
    TypeOK
    JailHolds
    CreatorsAreRecorded
PROPERTIES
    ImplementsAuditTrail
CHECK_DEADLOCK FALSE
