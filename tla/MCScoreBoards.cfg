SPECIFICATION Spec
CONSTANTS
    r1 = r1
    r2 = r2
    c1 = c1
    demo = demo
    Runs <- MCRuns
    Contestants <- MCContestants
    ContestantOf <- MCContestantOf
    ScoreOf <- MCScoreOf
    DemoScore <- MCDemoScore
    CallsFail = TRUE
    MaxRestarts = 2
    None = None
INVARIANTS
    TypeOK
    BestOfUpserted
    TopRowsOfOneRun
    BoardNotAhead
\* All messages handled is the end of the behaviour.
CHECK_DEADLOCK FALSE
