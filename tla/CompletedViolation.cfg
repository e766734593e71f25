SPECIFICATION Spec
CONSTANTS
    s1 = s1
    s2 = s2
    r1 = r1
    r2 = r2
    c1 = c1
    c2 = c2
    Submissions <- MCSubmissions
    Runs <- MCRuns
    Contestants <- MCContestants
    ContestantOf <- MCContestantOf
    SubmissionOf <- MCSubmissionOf
    MaxRestarts = 0
    None = None
INVARIANT CompletedIsShown
\* All messages handled is the end of the behaviour.
CHECK_DEADLOCK FALSE
