SPECIFICATION SSpec
CONSTANTS
    c1 = c1
    c2 = c2
    n1 = n1
    n2 = n2
    A = A
    B = B
    Client = {c1, c2}
    Nick = {n1, n2}
    Channel = {A, B}
    Unnamed = Unnamed
    NULL = NULL
    Commands = {"NICK", "JOIN", "MODE", "INVITE", "KICK", "UNKICK", "MUTE", "UNMUTE", "WHOIS", "MESSAGE"}
    MaxArrived = 3
    Typed = {"/nickname", "/join", "/kick", "/mode", "/invite", "/unkick", "/mute", "/unmute", "/whois", "/msg", "/ping", "/list"}
    Written = {"/nickname", "/join", "/kick", "/mode", "/invite", "/unkick", "/mute", "/unmute", "/whois", "/ping", "/list"}
    MaxRequests = 2
    MaxAnswers = 1
    MaxCuts = 1
VIEW Untold
SYMMETRY Symmetry
CONSTRAINTS
    NoGhost
    OneList
    Unhurried
INVARIANTS
    NicknameKnown
    ChannelKnown
    RoleKnown
    JoinsAreNamed
    PacketsWhole
    ShownWhole
PROPERTIES
    AnswersEnd
    AnswersUnderstood
CHECK_DEADLOCK FALSE
