SPECIFICATION FairSpec
CONSTANTS
    None = None
    Sessions = {s1}
    B512 = {b1, b2, b3}
    B4k = {k1, k2}
    B16k = {m1, m2}
    B64k = {l1, l2}
    Direct = {x1, x2}
    Bufs <- MCBufs
    Home <- MCHome
    Input <- MCInput
    Netpoll = netpoll
    Frames <- SoloFrames
    InflatedSizes <- SoloSizes
    MaxFrames = 2
    MaxFrameSize = 66000
    Compression = TRUE
    ReadsTimeOut = FALSE
PROPERTIES
    MessageDelivered
CHECK_DEADLOCK FALSE
