SPECIFICATION MCSpec
CONSTANTS
    Cmds = {"a"}
    ChanCap = 1
    MaxChanges = 2
    MaxLoads = 2
    MaxSubs = 3
    MaxWatchFaults = 1
    PCmds = {"p1", "p2"}
    MaxMoves = 3
    MaxLines = 1
    MaxKeys = 4
    MaxActs = 2
    MaxLists = 1
    MaxUps = 2
    UpServices = {"s1"}
    MaxEvents = 2
    LaunchKeys = 2
    LaunchActs = 2
    SwChanges = 2
    SwKeys = 2
    SwRings = 2
    PanelKeys = 3
    MaxReplicas = 3
    DetachKeys <- PQ
    KeySet = {"P", "Q", "r"}
    BufCap = 2
    MaxTyped = 3
    MaxSessions = 1
INVARIANT ListSafety
INVARIANT PreviewSafety
INVARIANT KeysSafety
INVARIANT WidgetSafety
PROPERTY TuiSteps
CHECK_DEADLOCK FALSE
