SPECIFICATION LiveSpec
CONSTANTS
    Procs <- Trio
    ANY = ANY
    NONE = NONE
    HARDWARE = HARDWARE
    IpcTo <- RpcIpcTo
    DvkAllowed <- LiveCalls
    Sources <- AnySources
    NotifyAs <- Nothing
    Interrupted <- Nobody
    Wakeable <- Nobody
    Timeouts = {"timed", "forever"}
    Faults = {FALSE}
    Signals = FALSE
PROPERTIES
    Served
    TimedReturns
    Answered
