SPECIFICATION Spec
CONSTANTS
    c1 = c1
    c2 = c2
    None = None
    Val = {1, 2}
    Client = {c1, c2}
    Ops <- AllOps
    ReadOnly = {TRUE, FALSE}
INVARIANTS TypeOK CacheAgrees CacheInv
PROPERTIES ReadOnlyKeeps
