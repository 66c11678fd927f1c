CONSTANTS
    None = None
    Garbled = Garbled
    Slirs <- MCSlirs
    RIAs <- MCRIAs
    PLAs <- MCPLAs
    TargetPrefixes <- MCTargetPrefixes
    ClientType = 0
    PrivacyCheck = 4
    MaxAttempts = 2
    MaxUncertaintyCode = 6
    Parts = 100
    FallsShort = {2, 3, 4, 5, 6}
SPECIFICATION Spec
INVARIANTS
    AnswersAreFinal
    PositionTraceable
    RequestCarried
    AccuracyKept
    ShapesAsAdvertised
    PositionRendered
CHECK_DEADLOCK FALSE
