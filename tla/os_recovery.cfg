SPECIFICATION SpecH
CONSTANTS
    Stores = {s1}
    Digests = {d1, d2}
    Procs = {p1}
    Inodes = {i1, i2, i3, i4}
    Dirs = {x1, x2, x3, x4, x5}
    None = None
    Ops = {"add", "erase", "label"}
    Faults = {"crash"}
    MaxFaults = 2
    CountLinks = TRUE
SYMMETRY Interchangeable
INVARIANTS
    AddsSucceed
    ErasesSucceed
PROPERTY KeepsContract
