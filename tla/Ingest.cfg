SPECIFICATION Spec
CONSTANTS
    Clients = {c1, c2}
    Threads = {t1, t2}
    Names = {"sales"}
    None = None
    MaxIngests = 2
SYMMETRY Symmetry
INVARIANTS
    CountIsStored
    FreshIsFresh
