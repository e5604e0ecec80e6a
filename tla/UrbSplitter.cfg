SPECIFICATION SplitterSpec
CONSTANTS
    Cams = {c1, c2}
    MaxPacket = 2
    Lens <- MCLens
    DataLens <- MCDataLens
    RespLen = 3
    GarbageLens <- MCGarbageLens
    Garbage = Garbage
    MaxTrans = 1
    Concurrent = FALSE
INVARIANTS
    Framed
    StreamIntact
PROPERTIES
    ResponseArrives
CHECK_DEADLOCK FALSE
