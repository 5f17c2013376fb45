CONSTANTS
    NumThreads = 2
    MaxTasks = 5
    PipeCap = 2
SPECIFICATION FairSpec
INVARIANTS TypeOK WakeupPerTask
PROPERTIES ImplementsExecutor DispatchedIsBegun ListedThreadEnds
\* Once every thread has ended and every task is dispatched nothing is left to do.
CHECK_DEADLOCK FALSE
