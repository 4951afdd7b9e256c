SPECIFICATION Spec
CONSTANTS
    Procs <- Office
    ANY = ANY
    NONE = NONE
    DC = DC
    Sends <- OfficeSends
    Asks <- OfficeAsks
    Replies <- OfficeReplies
    Sources <- OfficeSources
    Unbinds <- OfficeUnbinds
    Leavers <- OfficeLeavers
    Timed = {TRUE, FALSE}
INVARIANT
    NoDeadlock
CHECK_DEADLOCK FALSE
