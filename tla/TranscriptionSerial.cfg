\* One flow run at a time, a crash: the promises of the writer's docstring.
SPECIFICATION FairSpec
CONSTANTS
    c1 = c1
    c2 = c2
    c3 = c3
    r1 = r1
    r2 = r2
    Runs = {r1}
    SeededCalls <- ThreeCalls
    Limit = 2
    ChunkSize = 1
    MaxFailed = 2
    StampCounts <- OneStamp
    MaxStarts = 7
    MaxCrashes = 1
INVARIANTS
    KeepsCurrent
    NeverTranscribedTwice
PROPERTIES
    EveryCallSettles
CHECK_DEADLOCK FALSE
