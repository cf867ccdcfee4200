SPECIFICATION LogSpec
CONSTANTS
    MaxSize = 3
    MaxFile = 3
    Sizes = {1, 2}
    Reads <- MCReads
    MaxLines = 4
    MaxCrashes = 1
INVARIANT FilesSafe
INVARIANT ReadsTrue
CHECK_DEADLOCK TRUE
