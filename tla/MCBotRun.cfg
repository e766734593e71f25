SPECIFICATION FairSpec
CONSTANTS
    b1 = b1
    b2 = b2
    Bots <- MCBots
    Drawn <- MCDrawn
    MaxOrders = 3
    ChannelCap = 1
    MaxFaults = 1
INVARIANTS
    TypeOK
    WrongFillsHaveACause
    FirstLevelIsBest
    EventsAreConserved
PROPERTY RunDrains
CHECK_DEADLOCK FALSE
