SPECIFICATION Spec
CONSTANTS
    v1 = v1
    v2 = v2
    v3 = v3
    b1 = b1
    b2 = b2
    Nodes = {v1, v2, v3}
    Validators = {v1, v2, v3}
    Active = {v1, v2, v3}
    Hashes = {b1, b2}
    MinVotes = 2
    MaxRearmed = 0
    MaxRestarts = 0
    MaxReorgs = 1
SYMMETRY Permuted
INVARIANTS
    TypeOK
    CheckpointAgreement
    OneVotePerHeight
    CheckpointVerifies
PROPERTIES
    SignaturesKept
    
CHECK_DEADLOCK FALSE
