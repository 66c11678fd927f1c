CONSTANTS
    d1 = d1
    d2 = d2
    Deliveries <- OneDelivery
    None = None
    Broken = {}
    Answers = {"2xx", "other", "error"}
    MaxAttempts = 3
    BackoffMin = 1
    BackoffMax = 3
    MaxRestarts = 1
    MaxFaults = 0
SPECIFICATION FairSpec
PROPERTY ClaimsLapse
CHECK_DEADLOCK FALSE
