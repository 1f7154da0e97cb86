CONSTANTS
    Dials = {d1}
    MaxFrames = 2
    ClientFaults = {"connect", "send", "timeout", "response"}
SPECIFICATION FairSpec
PROPERTIES
    EventsInOrder
    DialReturns
    OnCloseMeansClosed
    ClosedIsReleased
CHECK_DEADLOCK FALSE
