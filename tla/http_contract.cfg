SPECIFICATION SpecH
CONSTANTS
    Stores = {s1}
    Digests = {d1}
    Procs = {p1, p2}
    Handlers = {h1, h2}
    None = None
    Ops = {"add", "erase", "label", "open"}
    Exclusive = FALSE
    Remote = TRUE
    Redirect = TRUE
    MaxFaults = 1
SYMMETRY Interchangeable
PROPERTY KeepsContract
