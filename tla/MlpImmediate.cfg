CONSTANTS
    NTargets = 2
    SyncDefault = 1
    SyncMax = 2
    RespTimers = {0, 5, 9, 17}
    Second = 1
    Range = 8
    MaxTime = 3
    MaxErrors = 1
SPECIFICATION Spec
INVARIANTS
    PosTruthful
    LateTargetsLookedAt
    TimeoutsDue
    WaitAsAsked
PROPERTIES
    Answered
CHECK_DEADLOCK FALSE
