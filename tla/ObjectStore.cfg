SPECIFICATION Spec
CONSTANTS
    Cards <- MCCards
    Vendors = {"canon", "nikon"}
    AllHandles = 255
    DeleteAllAfterCapture = FALSE
    MaxCaptures = 3
INVARIANTS
    ListSound
    NeverCrashes
    ClientInformed
PROPERTIES
    HandlesNotReused
