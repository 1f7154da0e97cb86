CONSTANTS
    Serves = {s1, s2, s3}
    Shutdowns = {h1, h2}
    None = None
SPECIFICATION FairSpec
INVARIANTS
    OneLoop
    ShutdownFirst
PROPERTIES
    ReadyComes
    RunningServeEnds
CHECK_DEADLOCK FALSE
