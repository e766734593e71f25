SPECIFICATION FairSpec
CONSTANTS
    MaxCalls = 2
    MaxOut = 2
    Timeout = 3
    Burst = 4
    Cost = 3
    Refill = 5
INVARIANTS
    OnlyLateAnswersConfuse
    PollsLeaveTokens
PROPERTY FormSettles
CHECK_DEADLOCK FALSE
