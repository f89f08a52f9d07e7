SPECIFICATION Spec
CONSTANTS
    c1 = c1
    c2 = c2
    c3 = c3
    n1 = n1
    n2 = n2
    A = A
    Client = {c1, c2, c3}
    Nick = {n1, n2}
    Channel = {A}
    Unnamed = Unnamed
    NULL = NULL
    Commands = {"NICK", "JOIN", "KICK", "MUTE", "UNMUTE", "WHOIS"}
    MaxArrived = 3
SYMMETRY Symmetry
INVARIANTS
    TypeOK
    AdminIsOldest
CHECK_DEADLOCK FALSE
