SPECIFICATION FairSpec
CONSTANTS
    Last = 2
    MaxConcurrent = 1
    Duration = 2
    Grace = 2
    ClientTimeout = 2
    MaxHeld = 1
    MaxMoves = 1
INVARIANTS
    PromptRunsMeetContainer
    LastAnswerBounded
    BegunTwiceIsExplained
    NoRunVanishes
PROPERTY NoneHeldForGood
