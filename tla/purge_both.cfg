SPECIFICATION Spec
CONSTANTS
    turn = turn
    build = build
    activity = activity
    Holder <- TurnAndActivity
    Activity <- OneActivity
    Together <- OneTurn
    Calls <- Both
    MaxAttempts = 2
    MaxResets = 1
    MaxCloses = 2
    MaxFaults = 1
INVARIANTS TypeOK PurgedInPeace NoReaderBehindFence FreshAfterReset
PROPERTY PendingJobIsKept
CONSTRAINT SecondCloseWithoutTurn
CHECK_DEADLOCK FALSE
