SPECIFICATION Spec
CONSTANTS
    r1 = r1
    r2 = r2
    r3 = r3
    c1 = c1
    c2 = c2
    k1 = k1
    Runs <- MCRuns
    Contestants <- MCContestants
    ContestantOf <- MCContestantOf
    Conns = {k1}
    SendCap = 1
    BroadcastCap = 1
    None = None
INVARIANTS
    TypeOK
    ChannelsClosedOnce
    ViewIsCurrent
PROPERTY MissedIsClosed
\* All scores read and all connections closed is the end of the behaviour.
CHECK_DEADLOCK FALSE
