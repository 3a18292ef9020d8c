CONSTANTS
    NumShards = 2
    Concurrency = 2
    BatchSize = 2
    Keys <- MCKeys
    Series <- MCSeries
    SeriesOf <- MCSeriesOf
    TSMFiles <- MCTSMFiles
    WAL <- MCWAL
    NoWAL = NoWAL
    Absent = Absent
    StatErrors = TRUE
    MaxFailures = 1
    MaxRuns = 2

SPECIFICATION Spec

INVARIANT TypeOK
INVARIANT PublishedIndexComplete
PROPERTY Termination

\* buildtsi is a command: it exits, and a re-run is bounded by MaxRuns.
CHECK_DEADLOCK FALSE
