CONSTANTS
    k1 = k1
    k2 = k2
    Keys <- TwoKeys
    None = None
    Callbacks = {"done"}
    MaxAttempts = 2
    MaxRestarts = 1
    MaxFaults = 1
SPECIFICATION FairSpec
PROPERTY RequestsFinishUnlessFault
