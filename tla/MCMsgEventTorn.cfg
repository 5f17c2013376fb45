\* A client is between two parts of a frame when its connection is lost and made
\* again: the rest of the frame is what the new handle of the server reads first.
CONSTANTS
    Sizes = {0, 3}
    MaxMsgSize = 3
    MaxFrames = 3
    MaxBreaks = 1
    FreshHandle = TRUE
    HeadCuts = "never"
    LenCuts = FALSE
SPECIFICATION FairSpec
PROPERTY NextIsReceived
CHECK_DEADLOCK FALSE
