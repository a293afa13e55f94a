SPECIFICATION SpecS
CONSTANTS
    Stores = {s1}
    Digests = {d1}
    Procs = {p1, p2}
    None = None
    Ops = {"add", "erase"}
    MaxFaults = 0
INVARIANT SweepSparesAdds
