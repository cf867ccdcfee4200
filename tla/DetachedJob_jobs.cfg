SPECIFICATION FairSpec
CONSTANTS
    p1 = p1
    p2 = p2
    Procs <- MCProcs
    Watched = {p1}
    Nobody = Nobody
    Kinds = {"down", "muxop"}
    MaxIds = 2
    MaxTicks = 1
    MaxFaults = 1
INVARIANT JobSafety
PROPERTY AnswersTrue
PROPERTY FollowEnds
CHECK_DEADLOCK FALSE
