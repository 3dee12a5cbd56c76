SPECIFICATION Spec
CONSTANTS
    c1 = c1
    c2 = c2
    Request <- TwoCalls
    ConcurrentPerDevice = 1
    MaxKeptAnswers = 2
    MaxConns = 2
    MaxAttempts = 1
    MaxRestarts = 1
    MaxEvictions = 0
SYMMETRY Alike
INVARIANTS TypeOK RunsOnce OkMeansFinished NoRecordIsTrue
CHECK_DEADLOCK FALSE
