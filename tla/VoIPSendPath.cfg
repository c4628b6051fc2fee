SPECIFICATION FairSpec
CONSTANTS
    SendCapacity = 3
    SendBuffers = 2
    EncCapacity = 3
    EncBuffers = 2
    Null = Null
INVARIANTS NoAbort BuffersHeldOnce NoUseAfterDelete
PROPERTIES ImplementsPipe StopReturns
CHECK_DEADLOCK FALSE
