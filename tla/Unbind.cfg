SPECIFICATION FairSpec
CONSTANTS
    Procs <- Office
    ANY = ANY
    NONE = NONE
    DC = DC
    Sends <- OfficeSends
    Asks <- OfficeAsks
    Replies <- OfficeReplies
    Sources <- OfficeSources
    Unbinds <- OfficeUnbinds
    Leavers <- OfficeLeavers
    Timed = {TRUE, FALSE}
INVARIANTS
    TypeOK
    NoneDeserted
    Released
    DeathReports
    LocksAscend
PROPERTY
    KilledLeave
CHECK_DEADLOCK FALSE
