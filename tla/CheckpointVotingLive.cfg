SPECIFICATION FairSpec
CONSTANTS
    v1 = v1
    v2 = v2
    v3 = v3
    b1 = b1
    b2 = b2
    Nodes = {v1, v2, v3}
    Validators = {v1, v2, v3}
    Active = {v1, v2, v3}
    Hashes = {b1, b2}
    MinVotes = 2
    MaxRearmed = 1
    MaxRestarts = 1
    MaxReorgs = 0
PROPERTIES
    CheckpointForms
CHECK_DEADLOCK FALSE
