SPECIFICATION SpecL
CONSTANTS
    Stores = {s1, s2}
    Digests = {d1}
    Procs = {p1, p2, p3}
    Blobs = {b1, b2, b3}
    None = None
    Ops = {"add", "erase"}
    MaxUint = 9
    MaxCalls = 3
CHECK_DEADLOCK FALSE
PROPERTY EveryCallReturns
