SPECIFICATION FairSpec
CONSTANTS
    MaxConns = 2
    MaxTyped = 1
    Kind = {"ping"}
    Restless = {1}
CONSTRAINTS
    OneCloses
VIEW Present
PROPERTIES
    CommandsLeave
    AnswersAreRead
CHECK_DEADLOCK FALSE
