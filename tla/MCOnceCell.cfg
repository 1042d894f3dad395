CONSTANTS
    t1 = t1
    t2 = t2
    t3 = t3
    Threads <- ThreeThreads
    None = None
    InitMayPanic = TRUE
SPECIFICATION FairSpec
INVARIANTS NoDataRace
PROPERTIES ImplementsOnce GetReturns
