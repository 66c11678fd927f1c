CONSTANTS
    k1 = k1
    Keys <- OneKey
    None = None
    Callbacks = {"done", "register"}
    MaxAttempts = 2
    MaxRestarts = 2
    DeliveryAttempts = 2
    Files <- MCFiles
    Lower <- MCLower
    Upper <- MCUpper
SPECIFICATION FairSpec
INVARIANTS
    LoadedFits
    PayloadFinal
PROPERTIES
    Contract
    StopInOrder
    StopEnds
    CallbackSettles
