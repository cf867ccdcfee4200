SPECIFICATION FairSpec
CONSTANTS
    Size = 2
    Requests <- EveryRequest
    MaxEvents = 7
    MaxAborts = 1
    MayReuse = FALSE
    Stock = 2
INVARIANT LogSafety
PROPERTY ReadsInOrder
PROPERTY CatchesUp
PROPERTY ReadersEnd
CHECK_DEADLOCK TRUE
