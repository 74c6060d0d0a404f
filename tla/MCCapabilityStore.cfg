SPECIFICATION Spec
CONSTANTS
    Admins = {ann, ben}
    Agents = {dev}
    Tenants = {acme}
    Namespaces = {}
    NULL = NULL
    ToolSets = {reading, writing}
    MaxRows = 3
    MaxCommands = 4
SYMMETRY Symmetry
CHECK_DEADLOCK FALSE
INVARIANTS
    TypeOK
    SingleActive
PROPERTIES
    ImplementsWhileCurrent
