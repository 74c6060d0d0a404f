SPECIFICATION Spec
CONSTANTS
    alice = alice
    bob = bob
    Requests = {r1, r2, r3}
    Agents = {alice, bob}
    Calls <- MCCalls
    Configs <- AllConfigs
    Lookback = 1
    MaxFaults = 1
CONSTRAINT Bounded
SYMMETRY Symmetry
CHECK_DEADLOCK FALSE
INVARIANTS
    TypeOK
    RunsOnlyIfCleared
    AuditTellsTruth
    ChainSeen
PROPERTIES
    ImplementsGate
