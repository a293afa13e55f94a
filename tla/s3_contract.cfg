SPECIFICATION SpecH
CONSTANTS
    Stores = {s1, s2}
    Digests = {d1, d2}
    Procs = {p1, p2}
    None = None
    Ops = {"add", "erase", "label", "open"}
    MaxFaults = 1
SYMMETRY Interchangeable
INVARIANTS
    TypeOK
    CommittedReadable
PROPERTY KeepsContract
