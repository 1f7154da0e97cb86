SPECIFICATION Spec
CONSTANTS
    MaxInt = 31
    MaxHeaderSize = 14
    PeekLen = 9
    MaxStream = 30
    Requests <- MCRequests
    Tails <- MCTails
INVARIANTS
    NeverEarly
    CloseJustified
    WholeRequestDecided
    CutIndependent
CHECK_DEADLOCK FALSE
