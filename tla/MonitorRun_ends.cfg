SPECIFICATION FairSpec
CONSTANTS
    Stops = {s1}
    s1 = s1
    NoStop = NoStop
    Policy = "always"
    MaxRetries = 0
    HasStopCommand = TRUE
    AutoRemove = FALSE
    Leaves = {"stray"}
    Sigs = {"TERM"}
    ScanMayFail = TRUE
    MayShutdown = TRUE
    MaxRuns = 2
PROPERTY ShutdownEnds
PROPERTY StopEnds
CHECK_DEADLOCK FALSE
