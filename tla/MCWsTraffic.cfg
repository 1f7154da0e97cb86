SPECIFICATION TrafficSpec
CONSTANTS
    None = None
    Sessions = {s1}
    Clients = {g1, g2}
    B512 = {b1, b2}
    B4k = {k1, k2}
    B16k = {m1}
    App = {a1}
    Bufs <- MCBufs
    Home <- MCHome
    Input <- MCInput
    Netpoll = netpoll
    Writers <- MCWriters
    LinkOf <- MCLinkOf
    MasksFor <- MCMasksFor
    Broadcast <- MCBroadcast
    Frames <- MCFrames
    InflatedSizes <- MCSizes
    MaxFrames = 2
    MaxFrameSize = 2000
    Compression = TRUE
    ReadsTimeOut = FALSE
    EnableCompression = TRUE
    Pieces = {3000}
    MaxPieces = 2
    MaxWrites = 2
    WritesFail = TRUE
SYMMETRY TrafficSymmetry
INVARIANTS
    NoSharedBuffer
    BuffersComeBack
    MessageStable
    FramesIntact
CHECK_DEADLOCK FALSE
