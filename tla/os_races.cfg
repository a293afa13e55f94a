SPECIFICATION Spec
CONSTANTS
    Stores = {s1}
    Digests = {d1}
    Procs = {p1, p2, p3}
    Inodes = {i1, i2}
    Dirs = {x1, x2, x3, x4}
    None = None
    Ops = {"add", "erase", "label", "get"}
    Faults = {}
    MaxFaults = 0
    CountLinks = TRUE
SYMMETRY Interchangeable
INVARIANT RequestsAnswered
