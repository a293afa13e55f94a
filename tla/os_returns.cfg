SPECIFICATION SpecL
CONSTANTS
    Stores = {s1}
    Digests = {d1}
    Procs = {p1, p2, p3}
    Inodes = {i1, i2}
    Dirs = {x1, x2, x3}
    None = None
    Ops = {"add", "erase"}
    Faults = {"crash", "cancel", "io"}
    MaxFaults = 1
    CountLinks = FALSE
    MaxCalls = 3
CHECK_DEADLOCK FALSE
INVARIANTS
    RightContent
    LinkCannotFail
PROPERTIES
    OnlyEraseHides
    EveryCallReturns
