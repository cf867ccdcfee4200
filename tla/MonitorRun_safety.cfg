SPECIFICATION Spec
CONSTANTS
    Stops = {s1, s2}
    s1 = s1
    s2 = s2
    NoStop = NoStop
    Policy = "always"
    MaxRetries = 0
    HasStopCommand = TRUE
    AutoRemove = TRUE
    Leaves = {"stray"}
    Sigs = {"TERM", "KILL"}
    ScanMayFail = FALSE
    MayShutdown = FALSE
    MaxRuns = 2
SYMMETRY StopSymmetry
INVARIANT TypeOK
INVARIANT SafetyInv
INVARIANT StopSafety
INVARIANT ForcedKillSafety
INVARIANT RowSafety
INVARIANT SweepSafety
PROPERTY ImplementsLifecycle
CHECK_DEADLOCK FALSE
