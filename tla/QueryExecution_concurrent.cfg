SPECIFICATION Spec
CONSTANTS
    Clients = {c1}
    SerialClients = {}
    Threads = {t1, t2}
    None = None
    MaxTables = 1
    MaxRequests = 2
CHECK_DEADLOCK FALSE
INVARIANTS
    OwnAnswer
