CONSTANTS
    Digits = 2
    Base = 2
    MaxSecond = 3
    MaxPoints = 3
    MaxRecords = 4
    Intervals = {0, 1, 9}
    Limits = {0, 2}
    MaxDuration = 32
SPECIFICATION Spec
INVARIANTS
    PrunedOldest
    AnswerComplete
CHECK_DEADLOCK FALSE
