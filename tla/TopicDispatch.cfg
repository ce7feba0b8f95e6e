SPECIFICATION FairSpec
CONSTANTS
    MaxMessages = 4
    BatchMax = 3
INVARIANTS
    TurnsInOrder
    NothingLost
    ArrivalOrder
PROPERTIES
    ImplementsService
    EveryMessageSettles
CHECK_DEADLOCK FALSE
