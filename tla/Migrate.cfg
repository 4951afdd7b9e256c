SPECIFICATION Spec
CONSTANTS
    server = server
    client1 = client1
    client2 = client2
    remote = remote
    Procs <- Four
    Nodes <- ThreeNodes
    local = "a"
    NONE = NONE
    Home <- FourHome
    Migrants <- Servers
    SendsTo <- Both
    Timed = {client1}
    MaxStarts = 2
INVARIANTS
    TypeOK
    ListsExact
    LocalsWoken
    SentOnce
PROPERTIES
    ImageStays
CHECK_DEADLOCK FALSE
