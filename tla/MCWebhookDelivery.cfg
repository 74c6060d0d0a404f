SPECIFICATION FairSpec
CONSTANTS
    Approvals = {a1}
    Emitters = {api}
    Drainers = {worker}
    MaxAttempts = 2
    AutoDrains = {TRUE, FALSE}
    Limit = 2
    Rejected = {1}
    MaxEvents = 3
    MaxOutages = 1
    MaxFaults = 1
CHECK_DEADLOCK FALSE
INVARIANTS
    TypeOK
    DeliveredWasAccepted
    AttemptsBounded
    DrainedAtRest
PROPERTIES
    DeliveredIsFinal
    EventuallyDelivered
