SPECIFICATION Spec
CONSTANTS
    c1 = c1
    c2 = c2
    c3 = c3
    n1 = n1
    n2 = n2
    n3 = n3
    A = A
    Client = {c1, c2, c3}
    Nick = {n1, n2, n3}
    Channel = {A}
    Unnamed = Unnamed
    NULL = NULL
    Commands = {"NICK", "JOIN", "MODE", "INVITE", "KICK", "UNKICK", "MUTE", "UNMUTE", "MESSAGE"}
    MaxArrived = 4
SYMMETRY Symmetry
CONSTRAINT NoGhost
INVARIANTS
    BannedStaysOut
    RelayReachesTheChannel
CHECK_DEADLOCK FALSE
