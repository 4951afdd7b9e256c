SPECIFICATION Spec
CONSTANTS
    Nodes <- TwoNodes
    Procs <- Duo
    ANY = ANY
    NONE = NONE
    Home <- DuoHome
    IpcTo <- DuoIpcTo
    RmtIpcTo <- DuoIpcTo
    DvkAllowed <- DuoCalls
    RmtAllowed <- DuoCalls
    Sources <- DuoSources
    Impatient <- Duo
    CallLimit <- DuoLimit
INVARIANTS
    TypeOK
    ReturnsClean
    InqExact
    TakenInOrder
PROPERTY
    BufferOwned
CHECK_DEADLOCK FALSE
