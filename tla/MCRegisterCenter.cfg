SPECIFICATION FairSpec
CONSTANTS
    Clients = {"gw", "d1", "d2"}
    NameOf <- MCNameOf
    Watcher = "gw"
    Patience = 1
    MaxTrouble = 2
    MaxAsks = 1
INVARIANTS TypeOK NoDoubleEntry FileIsMemory
PROPERTIES EveryServiceKnown
