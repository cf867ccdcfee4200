SPECIFICATION FairSpec
CONSTANTS
    a = a
    b = b
    c = c
    w1 = w1
    w2 = w2
    Nothing = Nothing
    Commands <- ThreeCommands
    Scale <- OneEach
    Workers = {w1, w2}
    StopLimit = 1
    MayCancel = TRUE
    Directions = {"start", "stop"}
    Graphs <- TwoEdges
    MaxTargets = 1
    Found = {"created", "running"}
    Ends = {"exit0", "failed"}
    MaxHeld = 1
INVARIANT WalkSafety
INVARIANT VerdictsTrue
PROPERTY WalkEnds
