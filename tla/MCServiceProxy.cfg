SPECIFICATION FairSpec
CONSTANTS
    Instances <- MCInstances
    Addresses <- MCAddresses
    MaxClients = 2
    MaxRequests = 3
    MaxDowns = 1
    Patient = TRUE
INVARIANTS TypeOK AnswersGoHome NoStarvedInstance
PROPERTY EveryRequestSettled
CHECK_DEADLOCK FALSE
