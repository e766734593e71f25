SPECIFICATION IngesterSpec
CONSTANTS
    r1 = r1
    e1 = e1
    e2 = e2
    e3 = e3
    m1 = m1
    m2 = m2
    m3 = m3
    c1 = c1
    Runs <- MCRuns
    Events <- MCThreeEvents
    Messages <- MCThreeMessages
    MessageOf <- MCMessageOfThree
    Contestants <- MCContestants
    RunOf <- MCRunOfThree
    ContestantOf <- MCContestantOf
    DurationSecs = 1
    GraceSecs = 1
    MaxRestarts = 0
    MaxRebalances = 0
    None = None
INVARIANT CommittedIsReported
PROPERTY CountedIsReported
