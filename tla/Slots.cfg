SPECIFICATION FairSpec
CONSTANTS
    NrNodes = 3
    Slot <- SixSlots
    none = none
    StartLimit = 3
    CrashLimit = 1
    ForkLimit = 1
    Forking <- Zero
    Calm = TRUE
INVARIANTS
    TypeOK
    
    
    

    
CHECK_DEADLOCK FALSE
