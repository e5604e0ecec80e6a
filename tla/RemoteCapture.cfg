SPECIFICATION Spec
CONSTANTS
    Vendors = {"canon", "nikon", "sony"}
    Base = 1
    FixedHandle = 99
    Sizes = {1, 3}
    EosChunk = 1
    PtpChunk = 3
    NikonChunk = 2
    PartSizes = {1, 2, 4}
    MaxPictures = 3
INVARIANTS
    DownloadsRight
    MemorySound
PROPERTIES
    EmptiedIsDelivered
    DownloadEnds
CHECK_DEADLOCK FALSE
