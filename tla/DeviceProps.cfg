SPECIFICATION FairSpec
CONSTANTS
    Bodies <- TrueBodies
    ValueHalf = 4
    StepHalf = 2
    FirstFrame = 3
    MaxQueue = 2
    MaxWrites = 4
INVARIANTS
    
    ViewTrue
PROPERTIES
    StepExact
    ClientArrives
CHECK_DEADLOCK FALSE
