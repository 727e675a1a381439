\* The v2 and the v3 deployment side by side, runs of one analyser one at a time.
SPECIFICATION FairSpec
CONSTANTS
    r1 = r1
    r2 = r2
    c1 = c1
    c2 = c2
    Runs = {r1, r2}
    Analysers = {"v2", "v3"}
    Serves <- OneEach
    Calls = {c1, c2}
    Transcripts <- TwoTranscripts
    Limit = 1
    ChunkSize = 2
    MaxFailed = 1
    StampCounts <- OneStamp
    MaxStarts = 5
    MaxCrashes = 1
INVARIANTS
    OneCurrentReportEach
PROPERTIES
    AnalysersIndependent
    EveryTranscriptSettles
CHECK_DEADLOCK FALSE
