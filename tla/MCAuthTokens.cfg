SPECIFICATION Spec
CONSTANTS
    Servers = {blue, green}
    Terminals = {tty1, tty2}
    Subjects = {dev, ops}
    Lifetimes <- MCLifetimes
    TokenExpire = 1
    NULL = NULL
    MaxTime = 2
    MaxCommands = 4
SYMMETRY Symmetry
CHECK_DEADLOCK FALSE
INVARIANTS
    TypeOK
    RevocationIsExact
    NobodyLockedOut
    OneActiveKey
