SPECIFICATION Spec
CONSTANTS
    Clients = {c1, c2}
    SerialClients = {c1}
    Threads = {t1, t2, t3}
    None = None
    MaxTables = 2
    MaxRequests = 4
SYMMETRY Symmetry
\* no call is left after MaxRequests
CHECK_DEADLOCK FALSE
INVARIANTS
    TypeOK
    SessionIsolation
    SerialOwnAnswer
