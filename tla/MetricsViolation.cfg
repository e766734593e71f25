SPECIFICATION Spec
CONSTANTS
    r1 = r1
    r2 = r2
    c1 = c1
    demo = demo
    Runs <- MCRuns
    Contestants <- MCContestants
    ContestantOf <- MCContestantOf
    ScoreOf <- MCScoreOf
    DemoScore <- MCDemoScore
    CallsFail = FALSE
    MaxRestarts = 1
    None = None
INVARIANT MetricsOfBest
\* All messages handled is the end of the behaviour.
CHECK_DEADLOCK FALSE
