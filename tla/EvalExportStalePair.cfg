\* Two overlapping transcription runs and a report in between: the export pairs
\* the report with a transcript it was not made from.
SPECIFICATION Spec
CONSTANTS
    c1 = c1
    c2 = c2
    Seeders = {s1}
    Directory <- OneFile
    MaxSeeds = 1
    MaxAborts = 0
    TRuns = {t1, t2}
    RRuns = {x1}
    Exporters = {e1}
    Analysers = {"v3"}
    Serves <- ServesAll
    StampCounts <- OneStamp
    Limit = 1
    ChunkSize = 1
    MaxFailed = 1
    MaxTStarts = 2
    MaxTCrashes = 0
    MaxRStarts = 1
    MaxRCrashes = 0
    MaxExports = 1
    MaxSeconds = 0
INVARIANT PairsTruthful
CHECK_DEADLOCK FALSE
