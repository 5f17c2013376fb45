SPECIFICATION Spec
CONSTANTS
    Instances <- MCInstances
    Addresses <- MCAddresses
    MaxClients = 2
    MaxRequests = 3
    MaxDowns = 1
    Patient = FALSE
INVARIANT AnswersGoHome
CHECK_DEADLOCK FALSE
