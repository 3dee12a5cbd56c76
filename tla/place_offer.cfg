SPECIFICATION Spec
CONSTANTS
    d1 = d1
    Me = Me
    NoDevice = NoDevice
    Dispatch <- OneDispatch
    Submits = {"offer"}
    PromptFrames = TRUE
    MaxSession = 2
    MaxFaults = 2
    MaxStops = 1
CONSTRAINT FewFrames
INVARIANTS TypeOK LaunchedOnce LiveRunIsRecorded AcceptedIsHeld EndedIsQuiet
CHECK_DEADLOCK FALSE
