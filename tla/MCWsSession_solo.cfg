SPECIFICATION Spec
CONSTANTS
    None = None
    Sessions = {s1}
    B512 = {b1, b2, b3}
    B4k = {k1, k2}
    B16k = {m1, m2}
    B64k = {l1, l2}
    Direct = {x1, x2, x3}
    Bufs <- MCBufs
    Home <- MCHome
    Input <- MCInput
    Netpoll = netpoll
    Frames <- BadFrames
    InflatedSizes <- SoloSizes
    MaxFrames = 3
    MaxFrameSize = 66000
    Compression = TRUE
    ReadsTimeOut = TRUE
SYMMETRY SessionSymmetry
INVARIANTS
    TypeOK
    NoAliasing
    MessageIntact
    SizeBound
    OnCloseOnce
CHECK_DEADLOCK FALSE
