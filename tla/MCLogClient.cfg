SPECIFICATION FairSpec
CONSTANTS
    Producers = {"p", "q"}
    Self = "ev"
    LOG_LIST_MAX = 1
    MaxLogs = 1
    MaxTrouble = 1
INVARIANTS TypeOK OnePlace StoredInOrder LossNeedsFailure
PROPERTIES EveryLogSettles ImplementsDelivery
CHECK_DEADLOCK FALSE
