SPECIFICATION SpecH
CONSTANTS
    Stores = {s1, s0}
    SecondaryId = s0
    StoreId = s1
    Digests = {d1, d0, x}
    Foreign = x
    Empty = d0
    Procs = {1, 2}
    Clients = {1}
    None = None
    Ops = {"add", "erase", "label", "get", "open"}
    MaxFiles = 2
    MaxParallel = 2
INVARIANTS
    AnswersTrue
    
    StdinOnce
PROPERTIES
    CommandEnds
    CallEnds
