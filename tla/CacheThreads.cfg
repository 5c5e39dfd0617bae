SPECIFICATION Spec
CONSTANTS
    Threads = {t1, t2}
    Keys = {k1, k2, k3}
    MaxSize = 2
    TTL = 1
INVARIANTS TypeOK SizeBound KeepsNewest
SYMMETRY Symmetry
