SPECIFICATION PreviewSpec
CONSTANTS
    PCmds = {"p1", "p2"}
    MaxMoves = 3
    MaxLines = 1
INVARIANT PreviewNeverCrashes
CHECK_DEADLOCK FALSE
