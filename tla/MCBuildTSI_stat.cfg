CONSTANTS
    NumShards = 2
    Concurrency = 2
    BatchSize = 2
    Keys <- MCKeys
    Series <- MCSeries
    SeriesOf <- MCSeriesOf
    TSMFiles <- MCTSMFiles
    WAL <- MCWAL
    NoWAL = NoWAL
    Absent = Absent
    StatErrors = TRUE
    MaxFailures = 1
    MaxRuns = 2

SPECIFICATION Spec
INVARIANT SuccessImpliesAllIndexed
CHECK_DEADLOCK FALSE
