SPECIFICATION SpecH
CONSTANTS
    Stores = {s1, s2}
    Digests = {d1}
    Procs = {p1, p2}
    Inodes = {i1, i2, i3}
    Dirs = {x1, x2, x3, x4}
    None = None
    Ops = {"add", "erase", "label", "get", "open"}
    Faults = {}
    MaxFaults = 0
    CountLinks = TRUE
SYMMETRY Interchangeable
INVARIANTS
    RightContent
    OneCopy
    LinkCannotFail
    LeftoverIsReplaced
    Reclaimed
    NoLitter
PROPERTIES
    OnlyEraseHides
    KeepsContract
