SPECIFICATION Spec
CONSTANTS
    MaxConns = 2
    MaxTyped = 3
    Kind = {"ping", "nick", "join", "message"}
    Restless = {}
INVARIANTS
    StateIsGranted
CHECK_DEADLOCK FALSE
