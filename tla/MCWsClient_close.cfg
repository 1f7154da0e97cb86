CONSTANTS
    Dials = {d1, d2}
    MaxFrames = 1
    ClientFaults = {"connect", "timeout", "response", "badFrame"}
SPECIFICATION Spec
INVARIANTS
    DoneOnce
    WaitMeansSettled
SYMMETRY DialSymmetry
CHECK_DEADLOCK FALSE
