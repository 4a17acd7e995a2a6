SPECIFICATION FairSpec
CONSTANTS
    ManageStorage = TRUE
    Margin = 5
    Lifetimes = {8}
    Startup = 0
    CallTime = 1
    MaxFailures = 1
    RetryDelay = 2
CHECK_DEADLOCK FALSE
PROPERTIES
    RetryWaits
