SPECIFICATION Spec
CONSTANTS
    NumValidators = 2
    RequiredSignatures = 2
    MaxRestarts = 1
    MaxTimeouts = 2
    CallsMayFail = TRUE
INVARIANTS
    
    UniqueBlock
CHECK_DEADLOCK FALSE
