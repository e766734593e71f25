SPECIFICATION Spec
CONSTANTS
    r1 = r1
    r2 = r2
    e1 = e1
    e2 = e2
    e3 = e3
    e4 = e4
    c1 = c1
    c2 = c2
    Runs <- MCRuns
    Events <- MCEvents
    Contestants <- MCContestants
    RunOf <- MCRunOf
    ContestantOf <- MCContestantOf
    DurationSecs = 1
    GraceSecs = 2
    None = None
INVARIANTS
    TypeOK
    OpenerReported
    ContestantAgreement
    EventsReportedOnce
    AtMostOneLost
PROPERTIES
    FirstReportNamesContestant
    ImplementsLedger
