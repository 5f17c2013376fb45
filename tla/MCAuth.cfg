SPECIFICATION FairSpec
CONSTANTS
    Clients = {"c"}
    Users = {"u", "v", "w"}
    Known = {"u"}
    Forbidden = {"w"}
    Threads = 2
    MaxTries = 2
    MaxTrouble = 1
INVARIANTS TypeOK TokenIsOwn OwnAnswer CleanBetweenLogins
PROPERTIES EveryLoginAnswered
CHECK_DEADLOCK FALSE
