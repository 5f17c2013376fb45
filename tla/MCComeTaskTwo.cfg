\* The loop of CServiceProxy::mainFunc connects the client, too.
CONSTANTS
    Roles = {"client"}
    Connectors = {"mainFunc"}
    AutoDelete = FALSE
    TimerMs = FALSE
    MaxTrouble = 3
SPECIFICATION Spec
INVARIANT OpenIsUsable
CHECK_DEADLOCK FALSE
