SPECIFICATION Spec
CONSTANTS
    c1 = c1
    c2 = c2
    n1 = n1
    n2 = n2
    A = A
    Client = {c1, c2}
    Nick = {n1, n2}
    Channel = {A}
    Unnamed = Unnamed
    NULL = NULL
    Commands = {"NICK", "JOIN", "MUTE", "UNMUTE"}
    MaxArrived = 3
INVARIANTS
    DepartureSucceeds
CHECK_DEADLOCK FALSE
