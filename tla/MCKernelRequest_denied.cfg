SPECIFICATION Spec
CONSTANTS
    alice = alice
    bob = bob
    Requests = {r1}
    Agents = {alice, bob}
    Calls <- MCCalls
    Configs <- SandboxConfigs
    Lookback = 1
    MaxFaults = 0
CHECK_DEADLOCK FALSE
INVARIANTS
    DeniedNeverRuns
