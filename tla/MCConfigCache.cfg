SPECIFICATION Spec
CONSTANTS
    on = on
    off = off
    r1 = r1
    r2 = r2
    r3 = r3
    NoValue = NoValue
    Values = {on, off}
    Readers = {r1, r2, r3}
    TTL = 3
    MaxLatency = 2
SYMMETRY Symmetry
INVARIANTS
    TypeOK
    ReadIsRecent
    BoundedStaleness
