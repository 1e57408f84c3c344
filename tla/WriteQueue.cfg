SPECIFICATION FairSpec
CONSTANTS
    c1 = c1
    c2 = c2
    c3 = c3
    Conns <- MCConns3
    Attempts <- MCAttempts
    Modes <- MCModes
    Cancels = TRUE
    OtherProcess = TRUE
INVARIANTS
    TypeOK
    OneOwner
    
    
PROPERTIES
    WaitEnds
    PreparationEnds
CHECK_DEADLOCK TRUE
