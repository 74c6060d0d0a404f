SPECIFICATION LookupSpec
CONSTANTS
    NULL = NULL
    Absent = Absent
    Broken = Broken
    Kernels = {api, cli}
    Files = {f1, f2}
    Agents <- MCAgents
    Tenants <- MCTenants
    Namespaces <- MCNamespaces
    Calls = {exec}
    MaxEdits = 2
SYMMETRY Symmetry
CHECK_DEADLOCK FALSE
INVARIANTS
    LookupTypeOK
    TenantKept
    GrantsOnDisk
    KernelsAgree
