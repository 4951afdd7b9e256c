SPECIFICATION OfficeSpec
CONSTANTS
    Nodes <- TwoNodes
    Procs <- Office
    ANY = ANY
    NONE = NONE
    Home <- OfficeHome
    IpcTo <- OfficeIpcTo
    RmtIpcTo <- OfficeRmtIpcTo
    DvkAllowed <- OfficeCalls
    RmtAllowed <- OfficeCalls
    Sources <- OfficeSources
    Impatient <- Nobody
    CallLimit <- OfficeLimit
INVARIANTS
    WakeProtocol
    CallsReport
    OutqExact
    LinkedOnce
PROPERTY
    OfficeAnswered
CHECK_DEADLOCK FALSE
