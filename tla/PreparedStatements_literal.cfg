SPECIFICATION Spec
CONSTANTS
    Clients = {c1}
    Threads = {t1}
    Handles = {h1}
    Kinds = {"select", "dml", "dml_text"}
    None = None
    MaxRuns = 2
SYMMETRY Symmetry
INVARIANTS
    AcknowledgedRuns
