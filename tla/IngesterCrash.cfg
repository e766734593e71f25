SPECIFICATION IngesterSafety
CONSTANTS
    r1 = r1
    e1 = e1
    e2 = e2
    e3 = e3
    m1 = m1
    m2 = m2
    m3 = m3
    c1 = c1
    Runs <- MCRuns
    Events <- MCDeliveries
    Messages <- MCMessage
    MessageOf <- MCMessageOfDeliveries
    Contestants <- MCContestants
    RunOf <- MCRunOfDeliveries
    ContestantOf <- MCContestantOf
    DurationSecs = 1
    GraceSecs = 1
    MaxRestarts = 1
    MaxRebalances = 1
    None = None
SYMMETRY SymmDeliveries
INVARIANTS
    PublishedOnce
    RecountedByRedelivery
