SPECIFICATION Spec
CONSTANTS
    Last = 3
    MaxConcurrent = 2
    MaxRestarts = 1
INVARIANTS
    TypeOK
    ContainersAreOwned
    TimersHaveContainers
    CrashesSkipFew
PROPERTY FetchedIsHandled
\* All submissions handled and all timers fired is the end of the behaviour.
CHECK_DEADLOCK FALSE
