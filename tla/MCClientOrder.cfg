SPECIFICATION Spec
CONSTANTS
    MaxConns = 2
    MaxTyped = 2
    Kind = {"ping"}
    Restless = {0, 1, 2}
CONSTRAINTS
    NothingRead
    LastIsCalm
VIEW Recorded
INVARIANTS
    TypeOK
    OpenIsServed
    CommandsInOrder
CHECK_DEADLOCK FALSE
