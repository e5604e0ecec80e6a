SPECIFICATION TransferSpec
CONSTANTS
    Sizes = {1, 3}
    MaxChunk = 2
    PartSizes = {1, 2}
    ImageCounts = {1, 2, 5}
    LastImage = 3
INVARIANTS
    TransferExact
PROPERTIES
    TransferEnds
CHECK_DEADLOCK FALSE
