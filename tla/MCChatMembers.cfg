SPECIFICATION Spec
CONSTANTS
    c1 = c1
    c2 = c2
    c3 = c3
    n1 = n1
    n2 = n2
    n3 = n3
    A = A
    B = B
    Client = {c1, c2, c3}
    Nick = {n1, n2, n3}
    Channel = {A, B}
    Unnamed = Unnamed
    NULL = NULL
    Commands = {"NICK", "JOIN", "MODE", "INVITE", "KICK", "UNKICK"}
    MaxArrived = 4
SYMMETRY Symmetry
INVARIANTS
    UniqueNicknames
    AdminIsOldest
    MembersAgree
    OnlyGhostsOrphan
PROPERTIES
    Seniority
    ImplementsQueue
CHECK_DEADLOCK FALSE
