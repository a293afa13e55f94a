SPECIFICATION SpecH
CONSTANTS
    Stores = {s1, s2}
    Digests = {d1, d2}
    Procs = {p1, p2}
    Blobs = {b1, b2, b3}
    None = None
    Ops = {"add", "erase", "label", "get", "open"}
    MaxUint = 9
SYMMETRY Interchangeable
INVARIANTS
    TypeOK
    RefCount
    OneBlob
    NoZombie
PROPERTY KeepsContract
