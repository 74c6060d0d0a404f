SPECIFICATION Spec
CONSTANTS
    NULL = NULL
    Approvals = {a1}
    Approvers = {alice, bob}
    Deciders = {api, cli}
    Server = api
    Replayers = {r1}
    Lifetime = 0
    MaxTime = 0
    MaxDecisions = 3
    MaxReplays = 0
    MaxFaults = 0
CHECK_DEADLOCK FALSE
INVARIANTS
    LastDecisionInForce
