CONSTANTS
    k1 = k1
    Keys <- OneKey
    None = None
    Callbacks = {"done", "register"}
    MaxAttempts = 2
    MaxRestarts = 1
    DeliveryAttempts = 2
    Files <- TwoFiles
    Lower <- MCLower
    Upper <- MCUpper
SPECIFICATION Spec
PROPERTY
    RecoveredDrivenOn
