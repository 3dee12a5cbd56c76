SPECIFICATION FairSpec
CONSTANTS
    c1 = c1
    c2 = c2
    Request <- OneCall
    ConcurrentPerDevice = 1
    MaxKeptAnswers = 2
    MaxConns = 3
    MaxAttempts = 3
    MaxRestarts = 0
    MaxEvictions = 1
INVARIANT RunsOnce
PROPERTY CallSettles
CHECK_DEADLOCK FALSE
