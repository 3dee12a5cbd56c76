SPECIFICATION Spec
CONSTANTS
    turn = turn
    build = build
    activity = activity
    Holder <- OneTurn
    Activity <- Nobody
    Together <- OneTurn
    Calls <- Both
    MaxAttempts = 9
    MaxResets = 1
    MaxCloses = 1
    MaxFaults = 0
INVARIANTS ClosedStaysClosed
CHECK_DEADLOCK FALSE
