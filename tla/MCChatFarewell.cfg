SPECIFICATION Spec
CONSTANTS
    c1 = c1
    c2 = c2
    n1 = n1
    n2 = n2
    A = A
    B = B
    Client = {c1, c2}
    Nick = {n1, n2}
    Channel = {A, B}
    Unnamed = Unnamed
    NULL = NULL
    Commands = {"NICK", "JOIN"}
    MaxArrived = 3
INVARIANTS
    FarewellFindsChannel
CHECK_DEADLOCK FALSE
