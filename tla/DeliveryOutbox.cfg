CONSTANTS
    d1 = d1
    d2 = d2
    Deliveries <- TwoDeliveries
    None = None
    Broken <- OneBroken
    Answers = {"2xx", "other", "error"}
    MaxAttempts = 3
    BackoffMin = 1
    BackoffMax = 3
    MaxRestarts = 2
    MaxFaults = 1
SPECIFICATION FairSpec
INVARIANTS
    SendBudget
    OutcomeEarned
PROPERTIES
    SettledForGood
    DeliveriesSettle
CHECK_DEADLOCK FALSE
