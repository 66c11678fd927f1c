CONSTANTS
    k1 = k1
    k2 = k2
    Keys <- OneKey
    None = None
    Callbacks = {"done", "register", "attach"}
    MaxAttempts = 3
    MaxRestarts = 0
    MaxFaults = 0
SPECIFICATION Spec
INVARIANT CallbackPushed
