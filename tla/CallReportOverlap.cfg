\* Two runs of any analyser that may overlap, and a crash.
SPECIFICATION Spec
CONSTANTS
    r1 = r1
    r2 = r2
    c1 = c1
    c2 = c2
    Runs = {r1, r2}
    Analysers = {"v2", "v3"}
    Serves <- Both
    Calls = {c1, c2}
    Transcripts <- TwiceCurrent
    Limit = 3
    ChunkSize = 3
    MaxFailed = 1
    StampCounts <- OneStamp
    MaxStarts = 3
    MaxCrashes = 1
SYMMETRY RunSymmetry
INVARIANTS
    TypeOK
    VersionsContiguous
    RetryBudget
    LineageWithinChunk
    JournalledHasLineage
    LineageLossBounded
PROPERTIES
    DemotedOnlyWhenReplaced
CHECK_DEADLOCK FALSE
