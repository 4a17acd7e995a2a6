SPECIFICATION Spec
CONSTANTS
    Clients = {c1}
    Threads = {t1}
    Handles = {h1}
    Kinds = {"dml", "dml_param"}
    None = None
    MaxRuns = 2
SYMMETRY Symmetry
INVARIANTS
    TxnCoversPrepared
