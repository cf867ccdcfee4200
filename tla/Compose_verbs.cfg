SPECIFICATION MCSpec
CONSTANTS
    k1 = k1
    k2 = k2
    v1 = v1
    v2 = v2
    Nothing = Nothing
    Keys = {k1, k2}
    Values = {v1, v2}
    Specs <- ThreeSpecs
    Operations = {"up", "start", "stop", "restart", "excess", "orphan", "down", "downcmd", "force"}
    Watched <- NetAtStop
    MayCrash = TRUE
    MayBreak = TRUE
    Services = {"a", "b", "c"}
    Yamls <- FourYamls
    MaxScale = 2
    Permits = 1
    MaxVerbs = 2
    MaxTurns = 1
    Tailed = {"x", "y"}
    MaxRecords = 2
SYMMETRY Symmetric
INVARIANT ResourceSafety
INVARIANT VerbsTrue
INVARIANT ProjectTrue
CHECK_DEADLOCK FALSE
