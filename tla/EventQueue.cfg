SPECIFICATION FairSpec
CONSTANTS
    Vendors = {"canon", "fuji", "nikon"}
    MsPerSec = 3
    Delays <- MCDelays
    EosSizes <- MCEosSizes
    EosBuffer = 10
    EosTrailer = 2
    NikonMaxEvents = 2
    MaxEvents = 3
    MaxClock = 5
    ClockStepsBack = TRUE
INVARIANTS
    TypeOK
    QueueSorted
    Conservation
    ChannelIsolation
PROPERTIES
    NotEarly
    OldestFirst
    DrainComplete
    InterruptServed
