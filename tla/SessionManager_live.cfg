SPECIFICATION FairSpec
CONSTANTS
    Threads = {t1, t2, t3}
    SessionIds = {i1}
    Sessions = {s1}
    Handles = {h1}
    None = None
PROPERTIES
    PoppedIsClosed
    LateCallsReturn
