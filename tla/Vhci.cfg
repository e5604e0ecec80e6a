SPECIFICATION UsbipSpec
CONSTANTS
    MaxUrbs = 7
    OutLengths = {1, 3}
    Requests <- FewRequests
    Tries = 2
INVARIANTS
    UsbipSound
PROPERTIES
    EveryUrbAnswered
CHECK_DEADLOCK FALSE
