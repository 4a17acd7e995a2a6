SPECIFICATION Spec
CONSTANTS
    Clients = {c1, c2}
    Threads = {t1, t2}
    Handles = {h1}
    Kinds = {"select_param", "dml", "dml_param"}
    None = None
    MaxRuns = 2
SYMMETRY Symmetry
INVARIANTS
    TypeOK
    MetaFollowsTable
    ClosedNeverRuns
    StatementsStayInSession
    TxnAtomic
    AcknowledgedRuns
