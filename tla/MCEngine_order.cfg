CONSTANTS
    Conns = {c1, c2}
    Objs = {o1}
    Workers = {w1, w2}
    None = None
    MaxConns = 1
    MaxRequests = 2
    Brief = {}
    Faults = {}
SPECIFICATION Spec
INVARIANTS
    CountExact
    ConnLimit
PROPERTIES
    ServesInSequence
SYMMETRY EngineSymmetry
CHECK_DEADLOCK FALSE
