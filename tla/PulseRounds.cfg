SPECIFICATION FairSpec
CONSTANTS
    RoundTime = 2
    StageTime = 2
    TargetTime = 2
    Slack = 1
    MaxRound = 1
    HistorySize = 2
    SmallHeights <- ShortAtTwo
    MaxHeight = 3
    MaxReorgs = 1
    MaxTime = 7
    Quiet = 2
INVARIANTS
    TypeOK
    TimingsOfTop
    LateMessagesRecognised
PROPERTIES
    RoundsRunOnce
    PreparesCurrentRound
    FollowsChain
    GivesUp
CHECK_DEADLOCK FALSE
