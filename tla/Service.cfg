SPECIFICATION Spec
CONSTANTS
    Procs <- Trio
    ANY = ANY
    NONE = NONE
    HARDWARE = HARDWARE
    IpcTo <- ServiceIpcTo
    DvkAllowed <- ServiceCalls
    Sources <- QueueSources
    NotifyAs <- Nothing
    Interrupted <- Nobody
    Wakeable <- Bottom
    Timeouts = {"timed"}
    Faults = {FALSE}
    Signals = TRUE
INVARIANTS
    TypeOK
    QueueExact
    SendrecReports
    FilledAtMostOnce

    
