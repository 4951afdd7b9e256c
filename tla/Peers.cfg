SPECIFICATION Spec
CONSTANTS
    Procs <- Four
    ANY = ANY
    NONE = NONE
    HARDWARE = HARDWARE
    IpcTo <- PeersIpcTo
    DvkAllowed <- PeersCalls
    Sources <- PeersSources
    NotifyAs <- Nothing
    Interrupted <- Nobody
    Wakeable <- Nobody
    Timeouts = {"nowait", "timed"}
    Faults = {TRUE, FALSE}
    Signals = TRUE
INVARIANTS
    CallsReport
    CopiedAtMostOnce
    ListsWellFormed
PROPERTIES
    Addressed
