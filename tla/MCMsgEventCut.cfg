\* The network may also cut between the length word and the head, or inside
\* the head, of any frame.
CONSTANTS
    Sizes = {0, 1, 3}
    MaxMsgSize = 3
    MaxFrames = 2
    MaxBreaks = 0
    FreshHandle = TRUE
    HeadCuts = "any"
    LenCuts = FALSE
SPECIFICATION Spec
INVARIANT WholeMessages
CHECK_DEADLOCK FALSE
