SPECIFICATION FairSpec
CONSTANTS
    w1 = w1
    w2 = w2
    Worker = {w1, w2}
    MaxConn = 2
    MaxId = 3
    Free = Free
INVARIANTS
    TypeOK
    CountConserved
    ClientsConserved
PROPERTIES
    NoLostWakeUp
CHECK_DEADLOCK FALSE
