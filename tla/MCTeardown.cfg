SPECIFICATION FairSpec
CONSTANTS
    Clients = 2
INVARIANTS
    TypeOK
    GoneIsOut
PROPERTIES
    MutexIsFreed
    DepartedGoes
CHECK_DEADLOCK FALSE
