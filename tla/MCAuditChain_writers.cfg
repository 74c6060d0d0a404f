SPECIFICATION Spec
CONSTANTS
    Writers = {api, cli}
    MaxTime = 3
    MaxSetBacks = 1
    MaxCheckpoints = 2
SYMMETRY Symmetry
CHECK_DEADLOCK FALSE
INVARIANTS
    TypeOK
    ChainVerifies
    CheckpointsHold
    AcceptedMeansLinear
