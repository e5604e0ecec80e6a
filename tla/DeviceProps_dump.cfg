SPECIFICATION FairSpec
CONSTANTS
    Bodies <- DumpBodies
    ValueHalf = 4
    StepHalf = 2
    FirstFrame = 3
    MaxQueue = 2
    MaxWrites = 4
INVARIANT
    ViewTrue
