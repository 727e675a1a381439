\* The whole stand, one run of each kind at a time, seeded twice, with an aborted seed
\* and a report run that dies.
SPECIFICATION FairSpec
CONSTANTS
    c1 = c1
    c2 = c2
    Seeders = {s1}
    Directory <- TwoFiles
    MaxSeeds = 2
    MaxAborts = 1
    TRuns = {t1}
    RRuns = {x1}
    Exporters = {e1}
    Analysers = {"v3"}
    Serves <- ServesAll
    StampCounts <- OneStamp
    Limit = 1
    ChunkSize = 1
    MaxFailed = 1
    MaxTStarts = 2
    MaxTCrashes = 0
    MaxRStarts = 3
    MaxRCrashes = 1
    MaxExports = 2
    MaxSeconds = 1
INVARIANTS
    OneRowPerCall
    RowHasAudio
    PairsTruthful
PROPERTIES
    DatasetsImmutable
    EveryFileReported
CHECK_DEADLOCK FALSE
