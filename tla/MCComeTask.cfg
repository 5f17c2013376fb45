\* The client is connected by its timer and by the loop of CServiceProxy; it has
\* not cleared autoDelete_ when startConnect is called.
CONSTANTS
    Roles = {"client", "handle"}
    Connectors = {"mainFunc"}
    AutoDelete = TRUE
    TimerMs = TRUE
    MaxTrouble = 6
SPECIFICATION FairSpec
INVARIANTS TypeOK FlagsAreBacked NoTimerOnDeleted
PROPERTIES Reconnects
\* A deleted handle does nothing any more.
CHECK_DEADLOCK FALSE
