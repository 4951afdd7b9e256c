SPECIFICATION Spec
CONSTANTS
    Procs <- Four
    ANY = ANY
    NONE = NONE
    HARDWARE = HARDWARE
    IpcTo <- PeersIpcTo
    DvkAllowed <- PeersCalls
    Sources <- PeersSources
    NotifyAs <- Nothing
    Interrupted <- Nobody
    Wakeable <- Nobody
    Timeouts = {"timed"}
    Faults = {FALSE}
    Signals = FALSE
INVARIANTS
    NoneMissed
