SPECIFICATION Spec
CONSTANTS
    Readers = {r1, r2}
    Chunks = 2
    None = None
INVARIANTS TypeOK TapFaithful ServedNotCached
PROPERTIES ReadReturns GoroutineEnds WholeReadIsCached
