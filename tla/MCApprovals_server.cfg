SPECIFICATION Spec
CONSTANTS
    NULL = NULL
    Approvals = {a1}
    Approvers = {alice, bob}
    Deciders = {api}
    Server = api
    Replayers = {r1, r2}
    Lifetime = 1
    MaxTime = 2
    MaxDecisions = 2
    MaxReplays = 2
    MaxFaults = 1
CHECK_DEADLOCK FALSE
INVARIANTS
    TypeOK
    ExecutedOnlyIfApproved
    ExecutedUnderLatestDecision
    AnnouncedInOrder
    ExecutionsAccounted
PROPERTIES
    ImplementsRegister
