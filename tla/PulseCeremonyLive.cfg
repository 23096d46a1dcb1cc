SPECIFICATION FairSpec
CONSTANTS
    NumValidators = 2
    RequiredSignatures = 2
    MaxRestarts = 0
    MaxTimeouts = 12
    CallsMayFail = TRUE
PROPERTIES
    CeremonyCompletes
    RoundEnds
CHECK_DEADLOCK FALSE
