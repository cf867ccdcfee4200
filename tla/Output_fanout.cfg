SPECIFICATION FairSpec
CONSTANTS
    Kinds = {"attach", "follow", "sticky", "watch"}
    Cap = 1
    NetCap = 1
    MaxRuns = 2
    MaxChunks = 3
    MaxStarts = 2
    MaxReports = 1
INVARIANT OutputSafety
PROPERTY OutputSteps
PROPERTY ShutdownEnds
PROPERTY StreamsSettle
CHECK_DEADLOCK TRUE
