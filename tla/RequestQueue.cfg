CONSTANTS
    k1 = k1
    k2 = k2
    Keys <- TwoKeys
    None = None
    Callbacks = {"done", "register", "attach"}
    MaxAttempts = 2
    MaxRestarts = 1
    MaxFaults = 0
SPECIFICATION Spec
SYMMETRY Symmetry
INVARIANTS
    NoStrandedRow
    ResultIffCompleted
    RetryBudget
    PushedOnce
    HookReflectsState
    Inv
PROPERTY Lifecycle
