SPECIFICATION Spec
CONSTANTS
    Threads = {t1, t2}
    SessionIds = {i1, i2}
    Sessions = {s1, s2}
    Handles = {h1, h2}
    None = None
SYMMETRY Symmetry
INVARIANTS
    TypeOK
    OneOwner
    CursorAccounting
    TxnBookkeeping
    ClosedIsReleased
    Discipline
PROPERTIES
    EndLeavesTransaction
    ImplementsStore
