SPECIFICATION Spec
CONSTANTS
    Procs <- Pair
    ANY = ANY
    NONE = NONE
    HARDWARE = HARDWARE
    IpcTo <- NotifyIpcTo
    DvkAllowed <- NotifyCalls
    Sources <- NotifySources
    NotifyAs <- Self
    Interrupted <- Top
    Wakeable <- Top
    Timeouts = {"nowait", "timed"}
    Faults = {TRUE, FALSE}
    Signals = FALSE
INVARIANTS
    WakeProtocol
    RcvrqstHeedsWakeup
