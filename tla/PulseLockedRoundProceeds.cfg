SPECIFICATION Spec
CONSTANTS
    NumValidators = 3
    RequiredSignatures = 2
    MaxRestarts = 0
    MaxTimeouts = 2
    CallsMayFail = FALSE
INVARIANTS
    LockedRoundProceeds
CHECK_DEADLOCK FALSE
