SPECIFICATION Spec
CONSTANTS
    Writers = {api, cli}
    MaxTime = 4
    MaxSetBacks = 0
    MaxCheckpoints = 0
CHECK_DEADLOCK FALSE
INVARIANTS
    ChainNeverForks
