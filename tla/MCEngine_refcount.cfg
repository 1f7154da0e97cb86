CONSTANTS
    Conns = {c1, c2}
    Objs = {o1, o2}
    Workers = {w1, w2}
    None = None
    MaxConns = 0
    MaxRequests = 1
    Brief = {}
    Faults = {"parallel", "drainTimesOut", "timeoutFails"}
SPECIFICATION Spec
INVARIANTS
    TypeOK
    RefCountExact
    NoUseAfterRelease
    MutualExclusion
    Isolation
    CancelOnce
PROPERTIES
    PoolKeepsLives
SYMMETRY EngineSymmetry
CHECK_DEADLOCK FALSE
