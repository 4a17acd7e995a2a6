SPECIFICATION FairSpec
CONSTANTS
    MaxCalls = 2
    MaxSignals = 2
INVARIANTS
    TypeOK
    ServingMeansReady
    SessionsUseLake
    ShutdownStaysReported
    CallsHaveDatabase
PROPERTIES
    OutageReported
    RecoveryReported
    ShutdownCompletes
