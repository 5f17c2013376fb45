SPECIFICATION FairSpec
CONSTANTS
    Keys = {"own", "twin"}
    PortOf <- MCPortOf
    Local = "own"
    PageCount = 1
    Pages = {2}
    MaxOps = 3
    MaxTrouble = 1
INVARIANTS TypeOK OneRowPerKey OwnList ContentsKeepTheirKey
PROPERTIES FollowsTable
CHECK_DEADLOCK FALSE
