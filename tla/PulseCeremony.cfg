SPECIFICATION Spec
CONSTANTS
    NumValidators = 3
    RequiredSignatures = 2
    MaxRestarts = 0
    MaxTimeouts = 2
    CallsMayFail = FALSE
INVARIANTS
    TypeOK
    Agreement
    EnoughSigners
    CommitReveal
    BlocksVerify
CHECK_DEADLOCK FALSE
