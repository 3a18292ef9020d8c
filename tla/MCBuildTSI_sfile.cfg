CONSTANTS
    NumShards = 2
    Concurrency = 2
    BatchSize = 2
    Keys <- MCKeys
    Series <- MCSeries
    SeriesOf <- MCSeriesOf
    TSMFiles <- MCTSMFiles
    WAL <- MCWAL
    NoWAL = NoWAL
    Absent = Absent
    StatErrors = FALSE
    MaxFailures = 1
    MaxRuns = 1

SPECIFICATION Spec
INVARIANT SeriesFileNotClosedInUse
CHECK_DEADLOCK FALSE
