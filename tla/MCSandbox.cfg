SPECIFICATION FairSpec
CONSTANTS
    Commands = {c1, c2}
    Timeouts = {NULL, BAD, 0, 2}
    Default = 1
    NULL = NULL
    BAD = BAD
    MaxFaults = 1
CHECK_DEADLOCK FALSE
INVARIANTS
    TypeOK
    ResultIsTrue
    NothingLeftRunning
PROPERTIES
    EveryCommandAnswered
