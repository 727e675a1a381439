\* Two flow runs that may overlap, and a crash: what holds in spite of that.
SPECIFICATION Spec
CONSTANTS
    c1 = c1
    c2 = c2
    c3 = c3
    r1 = r1
    r2 = r2
    Runs = {r1, r2}
    SeededCalls <- ThreeCalls
    Limit = 2
    ChunkSize = 2
    MaxFailed = 1
    StampCounts <- OneStamp
    MaxStarts = 3
    MaxCrashes = 2
SYMMETRY RunSymmetry
INVARIANTS
    TypeOK
    VersionsContiguous
    RetryBudget
    JournalRefersToArtifact
    JournalLossBounded
PROPERTIES
    DemotedOnlyWhenReplaced
    OnlyDemotes
CHECK_DEADLOCK FALSE
