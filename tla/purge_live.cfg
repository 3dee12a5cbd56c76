SPECIFICATION FairSpec
CONSTANTS
    turn = turn
    build = build
    activity = activity
    Holder <- BuildAndActivity
    Activity <- OneActivity
    Together <- Nobody
    Calls <- Both
    MaxAttempts = 9
    MaxResets = 1
    MaxCloses = 2
    MaxFaults = 2
CONSTRAINT ResetOrDeletion
PROPERTIES ResetReopens DeletionErases
CHECK_DEADLOCK FALSE
