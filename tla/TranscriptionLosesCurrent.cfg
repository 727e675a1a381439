\* Two overlapping runs, no failure of any kind: the call ends up with no current row.
SPECIFICATION Spec
CONSTANTS
    c1 = c1
    c2 = c2
    c3 = c3
    r1 = r1
    r2 = r2
    Runs = {r1, r2}
    SeededCalls <- OneCall
    Limit = 1
    ChunkSize = 1
    MaxFailed = 2
    StampCounts <- OneStamp
    MaxStarts = 2
    MaxCrashes = 0
INVARIANT KeepsCurrent
CHECK_DEADLOCK FALSE
