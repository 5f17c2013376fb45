\* A server: every connection has a new handle, and the network cuts bodies
\* anywhere and the first head of each connection anywhere.
CONSTANTS
    Sizes = {0, 1, 3}
    MaxMsgSize = 3
    MaxFrames = 3
    MaxBreaks = 1
    FreshHandle = TRUE
    HeadCuts = "first"
    LenCuts = FALSE
SPECIFICATION FairSpec
INVARIANTS TypeOK WholeMessages
PROPERTIES ImplementsChannel SentIsDelivered
\* All messages sent and delivered: nothing is left to do.
CHECK_DEADLOCK FALSE
