SPECIFICATION Spec
CONSTANTS
    NULL = NULL
    acme = acme
    other = other
    exec = exec
    http = http
    Workers = {w1, w2}
    Agents = {g1, g2}
    Tenants = {acme, other}
    Tools = {exec, http}
    TenantLimit <- MCTenantLimit
    ToolLimit <- MCToolLimit
    DefaultLimit = 1
    Window = 1
    PruneAge = 2
    MaxStall = 1
    MaxTime = 3
    MaxEvents = 3
SYMMETRY Symmetry
CHECK_DEADLOCK FALSE
INVARIANTS
    TypeOK
    BurstBounded
    RefusedOnlyInBurst
    PruneKeepsWindow
