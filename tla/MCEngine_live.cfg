CONSTANTS
    Conns = {c1, c2}
    Objs = {o1}
    Workers = {w1, w2}
    None = None
    MaxConns = 0
    MaxRequests = 2
    Brief = {c2}
    Faults = {"parallel", "closeSilent"}
SPECIFICATION LiveSpec
PROPERTIES
    RequestServed
    StateReclaimed
CHECK_DEADLOCK FALSE
