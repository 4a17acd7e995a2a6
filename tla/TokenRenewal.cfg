SPECIFICATION FairSpec
CONSTANTS
    ManageStorage = TRUE
    Margin = 5
    Lifetimes = {8, 9, 12}
    Startup = 2
    CallTime = 1
    MaxFailures = 1
    RetryDelay = 0
\* the thread ends after stop()
CHECK_DEADLOCK FALSE
INVARIANTS
    TypeOK
    NoLapse
PROPERTIES
    NoHotLoop
    AlwaysRenewed
    StopEnds
